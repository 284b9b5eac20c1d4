---------------------------- MODULE StreamBuffer ----------------------------
(***************************************************************************)
(* What a DFX streamer promises: it keeps the beats of one store, in order, *)
(* and replays them as often as it is asked, each beat once and in order,  *)
(* with LAST on the final one.  An offered beat stays offered, unchanged,  *)
(* until it is taken.  The end of a store is signalled once.               *)
(***************************************************************************)
EXTENDS Naturals, Sequences

CONSTANTS Beats, None       \* the contents of a beat; "nothing is offered"

VARIABLES contents, mode, sent, offer, signal

buffer_vars == <<contents, mode, sent, offer, signal>>

Offered(k) == [data |-> contents[k + 1], last |-> k + 1 = Len(contents)]

BufferInit ==
  /\ contents = <<>> /\ mode = "idle" /\ sent = 0 /\ offer = None /\ signal = FALSE

(* In between, the buffer may be emptied, rewound or left alone. *)
Rest ==
  /\ mode = "idle" /\ signal' = FALSE
  /\ \/ contents' = <<>> /\ UNCHANGED sent
     \/ sent' = 0 /\ UNCHANGED contents
     \/ UNCHANGED <<contents, sent>>
  /\ UNCHANGED <<mode, offer>>

BeginStore ==
  /\ mode = "idle" /\ mode' = "storing" /\ signal' = FALSE
  /\ UNCHANGED <<contents, sent, offer>>

Put ==
  /\ mode = "storing"
  /\ \E d \in Beats : contents' = Append(contents, d)
  /\ mode' \in {"storing", "closing"}
  /\ UNCHANGED <<sent, offer, signal>>

Close ==
  /\ mode = "closing" /\ mode' = "idle" /\ signal' = TRUE
  /\ UNCHANGED <<contents, sent, offer>>

BeginReplay ==
  /\ mode = "idle" /\ contents # <<>> /\ sent = 0
  /\ mode' = "replaying" /\ signal' = FALSE
  /\ UNCHANGED <<contents, sent, offer>>

Offer ==
  /\ mode = "replaying" /\ offer = None /\ offer' = Offered(0)
  /\ UNCHANGED <<contents, mode, sent, signal>>

Take ==
  /\ offer # None /\ ~offer.last
  /\ sent' = sent + 1 /\ offer' = Offered(sent + 1)
  /\ UNCHANGED <<contents, mode, signal>>

TakeLast ==
  /\ offer # None /\ offer.last
  /\ sent' = sent + 1 /\ offer' = None /\ mode' = "idle"
  /\ UNCHANGED <<contents, signal>>

PowerCycle ==
  /\ contents' = <<>> /\ mode' = "idle" /\ sent' = 0 /\ offer' = None /\ signal' = FALSE

BufferNext ==
  Rest \/ BeginStore \/ Put \/ Close \/ BeginReplay \/ Offer \/ Take \/ TakeLast
    \/ PowerCycle

BufferSpec == BufferInit /\ [][BufferNext]_buffer_vars
=============================================================================
