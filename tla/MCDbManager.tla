---------------------------- MODULE MCDbManager ----------------------------
(***************************************************************************)
(* DbManager on small instances.  Dates 2 to 5 are listed, and an earlier  *)
(* process has left the table of date 2; date 1 stands for a name such as  *)
(* 19700101, which the GLOB does not match.                                *)
(***************************************************************************)
EXTENDS DbManager

MCDates == 1 .. 5
MCListed == 2 .. 5
MCInherited == {2}

Message(id, channel, date, regs) ==
  [id |-> id, channel |-> channel, date |-> date, regs |-> regs]

(* More dates than tables, several messages of one id, and what             *)
(* writeMessage() rejects.                                                  *)
MCMessages ==
  {Message(7, 1, 1, 1), Message(7, 1, 3, 2), Message(8, 1, 4, 0), Message(7, 1, 5, 1),
   Message(8, 1, NoDate, 1)}
=============================================================================
