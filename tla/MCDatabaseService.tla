------------------------- MODULE MCDatabaseService -------------------------
(***************************************************************************)
(* DatabaseService on small instances: two listed dates, a limit of one    *)
(* table, so that the second date drops the first.                         *)
(***************************************************************************)
EXTENDS DatabaseService

MCDates == 1 .. 2
Body(channel, date, regs) == [channel |-> channel, date |-> date, regs |-> regs]
MCBodies == {Body(1, 1, 2), Body(1, 2, 0)}
=============================================================================
