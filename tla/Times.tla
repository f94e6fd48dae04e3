--------------------------------- MODULE Times ---------------------------------
(***************************************************************************)
(* Times on their way through a text (time.cpp).  The ledger computes in   *)
(* nanoseconds and writes milliseconds: a time that comes back is cut down *)
(* to the millisecond.                                                     *)
(***************************************************************************)
EXTENDS Integers

CONSTANT Milli   \* the ticks of a millisecond; a tick is the resolution of the ledger

ASSUME TimesAssumption == Milli \in Nat \ {0}

\* to_rfc3339_millis writes the whole milliseconds, parse_rfc3339 multiplies them again.
Milliseconds(t) == t \div Milli
Instant(text)   == Milli * text
Cut(t)          == Instant(Milliseconds(t))

\* A time that need not be there, as a set of at most one.
CutIfSet(T) == {Cut(t) : t \in T}
===============================================================================
