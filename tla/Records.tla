-------------------------------- MODULE Records --------------------------------
(***************************************************************************)
(* What a record is after it has been written to the store and read again  *)
(* (ledger_json.cpp).  The text keeps times to the millisecond, of the     *)
(* nanoseconds the ledger computes with, and the difference of a           *)
(* conservation domain as an unsigned number and a sign.  What else a      *)
(* record holds comes back as it was.                                      *)
(***************************************************************************)
EXTENDS Derivation, Times

CONSTANT Half   \* 2^63

ASSUME RecordsAssumption == Half \in Nat \ {0}

Word == 2 * Half

-------------------------------------------------------------------------------
(* Times.  A time that is not set is zero, and is written as a dash. *)

WrittenTime(t) == IF t = 0 THEN {} ELSE {Milliseconds(t)}
ReadTime(text) == IF text = {} THEN 0 ELSE Instant(CHOOSE n \in text : TRUE)
Reread(t) == ReadTime(WrittenTime(t))

-------------------------------------------------------------------------------
(* Observations and periods *)

Fields == {"id", "copy", "origin", "source", "incarnation", "epoch", "seq", "generation", "kind",
           "category", "target", "role", "amount", "start", "end", "observed", "received"}
Dated  == {"observed", "received", "start", "end"}

\* A record of these fields, whose identity and times are numbers.
IsObservation(o) == o = [f \in Fields |-> o[f]] /\ o.id \in Nat /\ \A f \in Dated : o[f] \in Nat

ValidShape(o) ==
    /\ o.start < o.end
    /\ 0 \notin {o.observed, o.received, o.start, o.end}
    /\ o.role = "total" => o.category = "unknown"

ReadObservation(o) ==
    [o EXCEPT !.observed = Reread(@), !.received = Reread(@),
              !.start = Reread(@), !.end = Reread(@)]
ObservationReadable(o) == ValidShape(ReadObservation(o))

ReadPeriod(p) == [start |-> Reread(p.start), end |-> Reread(p.end)]

-------------------------------------------------------------------------------
(* Revisions and corrections *)

\* The difference is kept in a signed word, and the widest one stands for all that do not fit.
Delta(c) ==
    IF ~c.verifiable THEN 0
    ELSE Max({-Half, Min({Half - 1, c.attributed - c.observed})})

WrittenDelta(d) == [bits |-> d % Word, negative |-> d < 0]

Signed(bits) == IF bits < Half THEN bits ELSE bits - Word
Negated(n)   == IF n = -Half THEN n ELSE -n

\* The bits hold the difference with its sign, which is applied once more.
ReadDelta(text) == IF text.negative THEN Negated(Signed(text.bits)) ELSE Signed(text.bits)

ReadDomain(c) == [c EXCEPT !.delta = ReadDelta(WrittenDelta(@))]

ReadRevision(r) ==
    [r EXCEPT !.asOf = Reread(@), !.conservation = {ReadDomain(c) : c \in @}]

\* verify_digest: the digest, which is stored with the record, covers the instant and the
\* differences as they were computed.
RevisionReadable(r) == ReadRevision(r) = r

ReadCorrection(c) == [c EXCEPT !.created = Reread(@)]
===============================================================================
