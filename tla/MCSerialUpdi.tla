---------------------------- MODULE MCSerialUpdi ----------------------------
(* Ways to use the tool for the run of SerialUpdi.                         *)
EXTENDS SerialUpdi

Call(f, m) == [f |-> f, m |-> m]
SessionCalls == {Call(f, "none") : f \in {"construct", "start", "stop"}}

Target(n, l, e) == [nvm |-> n, lockbits |-> l, expected |-> e]
Open(nvms) == {Target(n, "old", TRUE) : n \in nvms}
Locked(nvms) == {Target(n, "new", TRUE) : n \in nvms}
Strange == {Target("P2", "new", FALSE), Target("P1", "old", TRUE)}

\* A target that is locked, or becomes so.
LockCalls ==
    SessionCalls \cup {Call(f, "none") : f \in {"read_device_id", "hold_in_reset", "erase"}}
                 \cup {Call("write", "user_row"), Call("write", "lockbits"), Call("read", "flash")}

AllSetups ==
    [flash |-> [targets |-> Open({"P0", "P2"}), options |-> {}, busy |-> {0, 150},
                calls |-> SessionCalls \cup {Call("erase", "flash"), Call("write", "flash")}],
     \* The memories that P:0 and the other interfaces write in different ways.
     eeprom |-> [targets |-> Open({"P0", "P4", "P5"}), options |-> {}, busy |-> {50},
                 calls |-> SessionCalls \cup {Call("erase", "eeprom"), Call("write", "eeprom"),
                                              Call("write", "fuses")}],
     rows |-> [targets |-> Open({"P0", "P4", "P5"}), options |-> {}, busy |-> {50},
               calls |-> SessionCalls \cup {Call("erase", "user_row"), Call("write", "user_row"),
                                            Call("erase", "none")}],
     erase |-> [targets |-> Open({"P3"}) \cup Locked({"P0", "P3"}) \cup Strange,
                options |-> {"chip-erase-locked-device"}, busy |-> {50},
                calls |-> LockCalls \ {Call("read", "flash")}],
     user_row |-> [targets |-> Open({"P0"}) \cup Locked({"P0", "P3"}),
                   options |-> {"user-row-locked-device"}, busy |-> {50},
                   calls |-> LockCalls \ {Call("write", "lockbits")}],
     api |-> [targets |-> Open({"P3"}), options |-> {}, busy |-> {0, 150},
              calls |-> SessionCalls \cup {Call("write", "page1"), Call("write_data", "none"),
                                           Call("release_from_reset", "none")}]]
=============================================================================
