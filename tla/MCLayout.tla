------------------------------ MODULE MCLayout ------------------------------
EXTENDS Layout

MCSlotSizes == 1..24
MCItemSizes == 0..12

\* char, int, double, two small structs and a 64-byte aligned type.
MCCppTypes == {<<1, 1>>, <<4, 4>>, <<8, 8>>, <<24, 8>>, <<40, 8>>, <<64, 64>>}

=============================================================================
