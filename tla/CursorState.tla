---------------------------- MODULE CursorState ----------------------------
(***************************************************************************)
(* The cursor state every dataset keeps (dal_interface.hh): a bit mask     *)
(* whose states are ranked.  DAL_SET_CURSORSTATE(cs, s) sets the bit of s  *)
(* and every lower one, and so drops the higher ones, BAD included; only   *)
(* BAD is added to what is there.  A mask is the set of the bits it has.   *)
(***************************************************************************)
EXTENDS Naturals

\* The states below BAD by rank: rank r is the bit 2^(r-1).
Ranked == <<"PREPARED", "OPEN", "POSITIONED", "EOF">>

CursorFlags == {"PREPARED", "OPEN", "POSITIONED", "EOF", "BAD"}

CLOSED == {}

\* s | (s-1) for a state s below BAD.
Mask(s) ==
  LET r == CHOOSE r \in 1 .. 4 : Ranked[r] = s
  IN  {Ranked[i] : i \in 1 .. r}

\* DAL_SET_CURSORSTATE
SetCursorState(cs, s) == IF s = "BAD" THEN cs \union {"BAD"} ELSE Mask(s)

\* The masks a dataset can be in: a prefix of the ranks, BAD on top or not.
CursorStates ==
  LET Prefixes == {CLOSED} \union {Mask(Ranked[r]) : r \in 1 .. 4}
  IN  Prefixes \union {p \union {"BAD"} : p \in Prefixes}
=============================================================================
