\* Every part of the table and of the packs; the pack of one is not published.
SPECIFICATION Spec
CONSTANTS
    Chips = {"avr64ea28", "avr64ea32", "avr64ea48", "attiny412", "attiny416",
        "attiny814", "attiny816", "attiny1614", "attiny1616", "attiny3216",
        "attiny3226", "attiny827", "attiny1627", "atmega808", "atmega809",
        "atmega1608", "atmega1609", "atmega3208", "atmega3209", "atmega4808",
        "atmega4809"}
    Published = {"avr64ea28", "avr64ea32", "avr64ea48", "attiny412", "attiny416",
        "attiny814", "attiny816", "attiny1614", "attiny1616", "attiny3216",
        "attiny3226", "attiny1627", "atmega808", "atmega809", "atmega1608",
        "atmega1609", "atmega3208", "atmega3209", "atmega4808", "atmega4809"}
INVARIANTS
    RightGeometry
    NothingLeftOut
    WithinOnePage
    ReceiveFits
