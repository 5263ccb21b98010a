------------------------------ MODULE Channel ------------------------------
(***************************************************************************)
(* The buffered Go channel behind the event bus, as a sequence: Emit sends *)
(* without blocking, so a full channel drops the event.                    *)
(***************************************************************************)
EXTENDS Naturals, Sequences

(* The channel q of capacity cap after the non-blocking sends of es, in    *)
(* order: what fits is queued, the rest is dropped.                        *)
Sent(q, es, cap) ==
  SubSeq(q \o es, 1, IF Len(q) + Len(es) <= cap THEN Len(q) + Len(es) ELSE cap)

HasRoom(q, cap) == Len(q) < cap
=============================================================================
