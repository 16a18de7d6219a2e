------------------------ MODULE ApprovalWorkflowProofs ------------------------
(***************************************************************************)
(* The submission guarantees of ApprovalWorkflow for any number of         *)
(* requests, texts and revisions.  One invariant carries all of them: a    *)
(* draft that is anywhere called confirmed was confirmed with its content, *)
(* and one that is called submitted has a receipt.                         *)
(***************************************************************************)
EXTENDS ApprovalWorkflow, TLAPS

Sound(d) ==
    d # None =>
        /\ d.status \in {"confirmed", "submitted"} => ReceiptOf(d) \in approved
        /\ d.status = "submitted" => HasReceipt(d.id, d.revision)

\* The phase is the draft's own where it says submitted, which is what the head shows.
PhaseFits(s) == s.phase = "submitted" /\ s.draft # None => s.draft.status = "submitted"
SoundState(s) == Sound(s.draft) /\ PhaseFits(s)

SoundTurn(t) ==
    /\ SoundState(t.state)
    /\ t.action = "update" => t.message.text \in Texts
    /\ t.stage = "submitting" =>
          /\ t.state.draft # None
          /\ t.state.draft.status \in {"confirmed", "submitted"}
          /\ t.outcome \in {"created", "replayed"} =>
                HasReceipt(t.state.draft.id, t.state.draft.revision)

HeadFits ==
    head # None =>
        (head.phase = "submitted" /\ head.id # None => HasReceipt(head.id, head.revision))

SubmissionInv ==
    /\ WorkflowTypeOK
    /\ SoundState(checkpoint)
    /\ \A r \in Requests : SoundTurn(turn[r])
    /\ \A d \in snapshots \cup threads : Sound(d)
    /\ HeadFits
    /\ receipts \subseteq approved
    /\ OneReceiptPerDraft

-----------------------------------------------------------------------------
(* Receipts and confirmations are never taken back, so what was sound stays *)
(* sound.                                                                   *)

LEMMA SoundStays ==
    ASSUME NEW d, Sound(d), receipts \subseteq receipts', approved \subseteq approved'
    PROVE  d # None =>
        /\ d.status \in {"confirmed", "submitted"} => ReceiptOf(d) \in approved'
        /\ d.status = "submitted" =>
              \E x \in receipts' : x.id = d.id /\ x.revision = d.revision
BY DEF Sound, HasReceipt

\* What a checkpoint stores of a sound state is sound.
LEMMA StoredSound ==
    ASSUME NEW s \in State, NEW channels \in SUBSET Channels, SoundState(s)
    PROVE  Stored(s, channels) \in State /\ SoundState(Stored(s, channels))
BY DEF State, Stored, SoundState, Sound, PhaseFits, Phases, Channels

-----------------------------------------------------------------------------
(* Steps.  Most of them end a node with a state s; the invariant survives if *)
(* s is sound with what the step has confirmed.                             *)

LEMMA GoesSound ==
    ASSUME SubmissionInv,
           NEW r \in Requests, NEW s \in State, NEW written \in SUBSET Channels,
           NEW stage \in Stages \ {"submitting"},
           Goes(r, s, written, stage),
           receipts' = receipts,
           approved \subseteq approved', approved' \subseteq Receipt,
           threads' \subseteq Draft, \A d \in threads' : Sound(d),
           PhaseFits(s),
           s.draft # None =>
               /\ s.draft.status \in {"confirmed", "submitted"}
                     => ReceiptOf(s.draft) \in approved'
               /\ s.draft.status = "submitted" => HasReceipt(s.draft.id, s.draft.revision)
    PROVE  SubmissionInv'
<1> DEFINE channels == turn[r].kept \cup written
<1>1. /\ turn' = [turn EXCEPT ![r] = [turn[r] EXCEPT !.stage = stage, !.state = s,
                                                     !.kept = channels]]
      /\ checkpoint' = Stored(s, channels)
      /\ UNCHANGED <<lock, head, snapshots, arrivals>>
    BY DEF Goes
<1>2. turn \in [Requests -> Turn] /\ channels \in SUBSET Channels
    BY DEF SubmissionInv, WorkflowTypeOK, Turn
<1>3. turn' \in [Requests -> Turn]
  <2>1. [turn[r] EXCEPT !.stage = stage, !.state = s, !.kept = channels] \in Turn
      BY <1>2 DEF Turn
  <2>2. QED BY <1>1, <1>2, <2>1
<1>4. checkpoint' \in State /\ SoundState(checkpoint)'
  <2>1. Stored(s, channels) \in State
      BY <1>2 DEF State, Stored, Phases, Channels
  <2>2. Stored(s, channels).draft \in {s.draft, None}
        /\ Stored(s, channels).phase \in {s.phase, "idle"}
      BY DEF Stored
  <2>3. PhaseFits(checkpoint)'
      BY <1>1, <2>1, <2>2 DEF PhaseFits, State
  <2>4. Sound(checkpoint.draft)'
      BY <1>1, <2>2 DEF Sound, HasReceipt, ReceiptOf
  <2>5. QED BY <1>1, <2>1, <2>3, <2>4 DEF SoundState
<1>5. WorkflowTypeOK'
    BY <1>1, <1>3, <1>4 DEF SubmissionInv, WorkflowTypeOK
<1>6. ASSUME NEW q \in Requests PROVE SoundTurn(turn[q])'
  <2>1. SoundTurn(turn[q])
      BY DEF SubmissionInv
  <2>2. CASE q # r
    <3>1. turn'[q] = turn[q]
        BY <1>1, <1>2, <2>2
    <3>2. Sound(turn[q].state.draft)'
        BY <3>1, <2>1, SoundStays DEF SoundTurn, SoundState, Sound, HasReceipt
    <3>3. QED BY <3>1, <3>2, <2>1 DEF SoundTurn, SoundState, PhaseFits, HasReceipt
  <2>3. CASE q = r
    <3>1. /\ turn'[q].state = s
          /\ turn'[q].stage = stage
          /\ turn'[q].action = turn[q].action
          /\ turn'[q].message = turn[q].message
        BY <1>1, <1>2, <2>3 DEF Turn
    <3>2. Sound(turn[q].state.draft)'
        BY <3>1 DEF Sound, HasReceipt, ReceiptOf
    <3>3. QED BY <3>1, <3>2, <2>1 DEF SoundTurn, SoundState, PhaseFits
  <2>4. QED BY <2>2, <2>3
<1>7. \A d \in snapshots' \cup threads' : Sound(d)'
  <2>1. \A d \in snapshots \cup threads' : Sound(d)
      BY DEF SubmissionInv
  <2>2. QED BY <1>1, <2>1, SoundStays DEF Sound, HasReceipt
<1>8. HeadFits'
    BY <1>1 DEF SubmissionInv, HeadFits, HasReceipt
<1>9. receipts' \subseteq approved' /\ OneReceiptPerDraft'
    BY DEF SubmissionInv, OneReceiptPerDraft
<1>10. QED BY <1>4, <1>5, <1>6, <1>7, <1>8, <1>9 DEF SubmissionInv

\* The same for a node that confirms and submits nothing.
LEMMA ReturnsSound ==
    ASSUME SubmissionInv,
           NEW r \in Requests, NEW s \in State, NEW written \in SUBSET Channels,
           NEW stage \in Stages \ {"submitting"},
           Returns(r, s, written, stage),
           SoundState(s)
    PROVE  SubmissionInv'
<1>1. Goes(r, s, written, stage) /\ UNCHANGED <<threads, receipts, approved>>
    BY DEF Returns
<1>2. threads \subseteq Draft /\ approved \subseteq Receipt /\ \A d \in threads : Sound(d)
    BY DEF SubmissionInv, WorkflowTypeOK
<1>3. QED BY <1>1, <1>2, GoesSound DEF SoundState, Sound

\* The remaining steps replace the record of one turn and may commit receipts,
\* threads, the head or snapshots that are sound.
LEMMA TurnSound ==
    ASSUME SubmissionInv,
           NEW r \in Requests, NEW t \in Turn,
           turn' = [turn EXCEPT ![r] = t],
           UNCHANGED <<checkpoint, approved>>,
           lock' \in Nat, arrivals' \in 0 .. MaxArrivals,
           receipts \subseteq receipts', receipts' \subseteq approved,
           \A x, y \in receipts' : x.id = y.id => x = y,
           SoundState(t.state),
           t.action = "update" => t.message.text \in Texts,
           t.stage = "submitting" =>
               /\ t.state.draft # None
               /\ t.state.draft.status \in {"confirmed", "submitted"}
               /\ t.outcome \in {"created", "replayed"} =>
                     \E x \in receipts' :
                         x.id = t.state.draft.id /\ x.revision = t.state.draft.revision,
           snapshots' \subseteq Draft, threads' \subseteq Draft,
           \A d \in snapshots' \cup threads' : Sound(d),
           head' \in HeadRow \cup {None},
           head' # None =>
               (head'.phase = "submitted" /\ head'.id # None
                => HasReceipt(head'.id, head'.revision))
    PROVE  SubmissionInv'
<1>1. WorkflowTypeOK /\ approved' = approved /\ checkpoint' = checkpoint
    BY DEF SubmissionInv
<1>2. turn \in [Requests -> Turn] /\ turn' \in [Requests -> Turn]
    BY <1>1 DEF WorkflowTypeOK
<1>3. WorkflowTypeOK'
    BY <1>1, <1>2 DEF WorkflowTypeOK
<1>4. \A id, revision : HasReceipt(id, revision) => HasReceipt(id, revision)'
    BY DEF HasReceipt
<1>5. \A d : Sound(d) => Sound(d)'
    BY <1>1, <1>4 DEF Sound, ReceiptOf
<1>6. SoundState(checkpoint)'
    BY <1>1, <1>5 DEF SubmissionInv, SoundState, PhaseFits
<1>7. ASSUME NEW q \in Requests PROVE SoundTurn(turn[q])'
  <2>1. CASE q # r
    <3>1. turn'[q] = turn[q] /\ SoundTurn(turn[q])
        BY <1>2, <2>1 DEF SubmissionInv
    <3>2. QED BY <3>1, <1>4, <1>5 DEF SoundTurn, SoundState, PhaseFits
  <2>2. CASE q = r
    <3>1. turn'[q] = t
        BY <1>2, <2>2
    <3>2. Sound(turn[q].state.draft)' /\ PhaseFits(turn[q].state)'
        BY <3>1, <1>5 DEF SoundState, PhaseFits
    <3>3. QED BY <3>1, <3>2 DEF SoundTurn, SoundState, HasReceipt
  <2>3. QED BY <2>1, <2>2
<1>8. (\A d \in snapshots \cup threads : Sound(d))'
    BY <1>5
<1>9. HeadFits'
    BY <1>4 DEF HeadFits
<1>10. (receipts \subseteq approved)' /\ OneReceiptPerDraft'
    BY <1>1 DEF OneReceiptPerDraft
<1>11. QED BY <1>3, <1>6, <1>7, <1>8, <1>9, <1>10 DEF SubmissionInv

\* Turns that end, and new ones, carry nothing.
LEMMA IdleSound ==
    /\ NewThread \in State /\ SoundState(NewThread)
    /\ IdleTurn \in Turn /\ IdleTurn.state = NewThread
    /\ IdleTurn.action # "update" /\ IdleTurn.stage # "submitting"
<1>1. NewThread \in State /\ SoundState(NewThread)
    BY DEF NewThread, State, Phases, SoundState, Sound, PhaseFits
<1>2. NoMessage \in Messages
    BY DEF NoMessage, Messages
<1>3. QED BY <1>1, <1>2 DEF IdleTurn, Turn, Stages, Commands, Outcomes, Channels

\* What a draft is turned into, and what a state becomes with it.
LEMMA DraftsTyped ==
    /\ \A text \in Texts : FirstDraft(text) \in Draft
    /\ \A d \in Draft, content \in Texts :
          d.revision < MaxRevision => Revised(d, content) \in Draft
    /\ \A d \in Draft, status \in Statuses : [d EXCEPT !.status = status] \in Draft
    /\ \A d \in Draft : ReceiptOf(d) \in Receipt
<1>1. 1 \in 1 .. MaxRevision
    BY WorkflowAssumption DEF WorkflowAssumption
<1>2. \A n \in 1 .. MaxRevision : n < MaxRevision => n + 1 \in 1 .. MaxRevision
    BY WorkflowAssumption DEF WorkflowAssumption
<1>3. \A text \in Texts : FirstDraft(text) \in Draft
    BY <1>1 DEF FirstDraft, Draft, Statuses
<1>4. \A d \in Draft, content \in Texts :
         d.revision < MaxRevision => Revised(d, content) \in Draft
    BY <1>2 DEF Revised, Draft, Statuses
<1>5. QED BY <1>3, <1>4 DEF Draft, ReceiptOf, Receipt

LEMMA StatesTyped ==
    /\ \A s \in State, d \in Draft :
          /\ WithDraft(s, d) \in State
          /\ WithDraft(s, d).draft = d
          /\ WithDraft(s, d).phase = PhaseOf(d)
          /\ PhaseFits(WithDraft(s, d))
    /\ \A s \in State, phase \in Phases :
          /\ InPhase(s, phase) \in State
          /\ InPhase(s, phase).draft = s.draft
          /\ InPhase(s, phase).phase = phase
<1>1. \A d \in Draft : PhaseOf(d) \in Phases /\ (PhaseOf(d) = "submitted" => d.status = "submitted")
    BY DEF Draft, Statuses, PhaseOf, Phases
<1>2. QED BY <1>1 DEF State, WithDraft, InPhase, PhaseFits

\* A node that puts a sound draft in place, or only names the phase of the one there.
LEMMA WithDraftSound ==
    ASSUME SubmissionInv,
           NEW r \in Requests, NEW d \in Draft, NEW written \in SUBSET Channels,
           NEW stage \in Stages \ {"submitting"},
           Sound(d),
           Returns(r, WithDraft(turn[r].state, d), written, stage)
    PROVE  SubmissionInv'
<1>1. turn[r].state \in State
    BY DEF SubmissionInv, WorkflowTypeOK, Turn
<1>2. WithDraft(turn[r].state, d) \in State /\ SoundState(WithDraft(turn[r].state, d))
    BY <1>1, StatesTyped DEF SoundState
<1>3. QED BY <1>2, ReturnsSound

LEMMA InPhaseSound ==
    ASSUME SubmissionInv,
           NEW r \in Requests, NEW phase \in Phases, NEW written \in SUBSET Channels,
           NEW stage \in Stages \ {"submitting"},
           phase = "submitted" /\ turn[r].state.draft # None
               => turn[r].state.draft.status = "submitted",
           Returns(r, InPhase(turn[r].state, phase), written, stage)
    PROVE  SubmissionInv'
<1>1. turn[r].state \in State /\ SoundState(turn[r].state)
    BY DEF SubmissionInv, WorkflowTypeOK, Turn, SoundTurn
<1>2. InPhase(turn[r].state, phase) \in State
      /\ SoundState(InPhase(turn[r].state, phase))
    BY <1>1, StatesTyped DEF SoundState, PhaseFits
<1>3. QED BY <1>2, ReturnsSound

\* The transaction: one receipt per draft, and only of what was confirmed.
LEMMA TransactionSound ==
    ASSUME SubmissionInv, NEW d \in Draft, Sound(d)
    PROVE  /\ receipts \subseteq ReceiptsAfter(d) /\ ReceiptsAfter(d) \subseteq approved
           /\ \A x, y \in ReceiptsAfter(d) : x.id = y.id => x = y
           /\ OutcomeFor(d) \in Outcomes
           /\ OutcomeFor(d) \in {"created", "replayed"} =>
                 \E x \in ReceiptsAfter(d) : x.id = d.id /\ x.revision = d.revision
<1>1. receipts \subseteq approved /\ (\A x, y \in receipts : x.id = y.id => x = y)
    BY DEF SubmissionInv, OneReceiptPerDraft
<1>2. CASE OutcomeFor(d) = "created"
  <2>1. ReceiptsAfter(d) = receipts \cup {ReceiptOf(d)}
      BY <1>2 DEF ReceiptsAfter
  <2>2. d.status = "confirmed" /\ (\A x \in receipts : x.id # d.id)
      BY <1>2 DEF OutcomeFor
  <2>3. d # None
      BY NoneAssumption
  <2>4. ReceiptOf(d) \in approved
      BY <2>2, <2>3 DEF Sound
  <2>5. ReceiptOf(d).id = d.id /\ ReceiptOf(d).revision = d.revision
      BY DEF ReceiptOf
  <2>6. QED BY <1>1, <1>2, <2>1, <2>2, <2>4, <2>5 DEF Outcomes
<1>3. CASE OutcomeFor(d) # "created"
  <2>1. ReceiptsAfter(d) = receipts
      BY <1>3 DEF ReceiptsAfter
  <2>2. QED BY <1>1, <1>3, <2>1 DEF OutcomeFor, Outcomes, SameKey
<1>4. QED BY <1>2, <1>3

\* A thread nobody waits for any more works on a sound draft.
LEMMA AbandonedSound ==
    ASSUME SubmissionInv, NEW r \in Requests
    PROVE  Abandoned(r) \subseteq Draft /\ \A d \in Abandoned(r) : Sound(d)
<1>1. turn[r].state \in State /\ SoundTurn(turn[r])
    BY DEF SubmissionInv, WorkflowTypeOK, Turn
<1>2. QED BY <1>1 DEF Abandoned, At, Before, SoundTurn, SoundState, State

-----------------------------------------------------------------------------
(* Induction                                                                *)

LEMMA SubmissionInvInit == Init => SubmissionInv
<1> SUFFICES ASSUME Init PROVE SubmissionInv
    OBVIOUS
<1>1. WorkflowTypeOK
    BY IdleSound, WorkflowAssumption DEF Init, WorkflowTypeOK
<1>2. \A r \in Requests : SoundTurn(turn[r])
    BY IdleSound DEF Init, SoundTurn
<1>3. QED BY <1>1, <1>2, IdleSound DEF Init, SubmissionInv, HeadFits, OneReceiptPerDraft

\* Steps of a turn that run no node.
LEMMA TurnSteps ==
    ASSUME SubmissionInv, NEW r \in Requests,
           \/ \E m \in Messages : Arrive(r, m)
           \/ AcquireLock(r) \/ PendingReply(r) \/ BeginTurn(r) \/ SaveRoute(r)
           \/ SubmitDraft(r) \/ Transaction(r) \/ Persist(r) \/ TurnFails(r)
    PROVE  SubmissionInv'
<1> USE DEF At
<1>1. /\ turn \in [Requests -> Turn] /\ turn[r] \in Turn /\ turn[r].state \in State
      /\ lock \in Nat /\ arrivals \in 0 .. MaxArrivals
      /\ checkpoint \in State /\ head \in HeadRow \cup {None}
      /\ threads \subseteq Draft /\ snapshots \subseteq Draft
    BY DEF SubmissionInv, WorkflowTypeOK, Turn
<1>2. /\ SoundTurn(turn[r]) /\ SoundState(turn[r].state) /\ SoundState(checkpoint)
      /\ receipts \subseteq approved
      /\ \A x, y \in receipts : x.id = y.id => x = y
      /\ \A d \in snapshots \cup threads : Sound(d)
      /\ head # None => (head.phase = "submitted" /\ head.id # None
                         => HasReceipt(head.id, head.revision))
    BY DEF SubmissionInv, SoundTurn, OneReceiptPerDraft, HeadFits
<1>3. CASE \E m \in Messages : Arrive(r, m)
  <2>1. PICK m \in Messages : Arrive(r, m)
      BY <1>3
  <2> DEFINE t == [IdleTurn EXCEPT !.stage = "waiting", !.lock = lock, !.message = m]
  <2>2. /\ t \in Turn /\ t.state = NewThread
        /\ t.action # "update" /\ t.stage # "submitting"
      BY <1>1, IdleSound DEF Turn, Stages
  <2>3. turn' = [turn EXCEPT ![r] = t]
        /\ UNCHANGED <<lock, threads, checkpoint, head, snapshots, receipts, approved>>
      BY <2>1 DEF Arrive
  <2>4. arrivals' \in 0 .. MaxArrivals
    <3>1. arrivals < MaxArrivals /\ arrivals' = arrivals + 1
        BY <2>1 DEF Arrive
    <3>2. QED BY <1>1, <3>1, WorkflowAssumption DEF WorkflowAssumption
  <2> HIDE DEF t
  <2>5. QED BY <1>1, <1>2, <2>2, <2>3, <2>4, IdleSound, TurnSound
<1>4. CASE AcquireLock(r)
  <2> DEFINE t == [turn[r] EXCEPT !.stage = "locked"]
  <2>1. t \in Turn /\ t.state = turn[r].state /\ t.message = turn[r].message
        /\ t.action = turn[r].action /\ t.stage # "submitting"
      BY <1>1 DEF Turn, Stages
  <2>2. turn' = [turn EXCEPT ![r] = t]
        /\ UNCHANGED <<lock, threads, checkpoint, head, snapshots, receipts, approved,
                       arrivals>>
      BY <1>4 DEF AcquireLock
  <2> HIDE DEF t
  <2>3. QED BY <1>1, <1>2, <2>1, <2>2, TurnSound DEF SoundTurn
<1>5. CASE PendingReply(r)
    BY <1>1, <1>2, <1>5, IdleSound, TurnSound DEF PendingReply, Ends
<1>6. CASE BeginTurn(r)
  <2>1. PICK action \in Actions(turn[r].message, checkpoint.draft) :
            turn' = [turn EXCEPT ![r] =
                [turn[r] EXCEPT !.stage = "routed", !.action = action,
                     !.state = [checkpoint EXCEPT !.turn = checkpoint.turn + 1,
                                                  !.gate = FALSE]]]
      BY <1>6 DEF BeginTurn
  <2> DEFINE s == [checkpoint EXCEPT !.turn = checkpoint.turn + 1, !.gate = FALSE]
             t == [turn[r] EXCEPT !.stage = "routed", !.action = action, !.state = s]
  <2>2. s \in State /\ SoundState(s)
    <3>1. checkpoint \in State /\ checkpoint.turn + 1 \in Nat
        BY <1>1 DEF State
    <3>2. s \in State /\ s.draft = checkpoint.draft /\ s.phase = checkpoint.phase
        BY <3>1 DEF State
    <3>3. QED BY <3>2, <1>2 DEF SoundState, PhaseFits
  <2>3. action \in Commands /\ (action = "update" => turn[r].message.text \in Texts)
    <3>1. turn[r].message \in Messages /\ turn[r].message.kind # "clear"
        BY <1>1, <1>6 DEF Turn, BeginTurn
    <3>2. QED BY <2>1, <3>1 DEF Actions, Messages, Commands
  <2> HIDE DEF s
  <2>4. t \in Turn /\ t.state = s /\ t.message = turn[r].message
        /\ t.action = action /\ t.stage # "submitting"
      BY <1>1, <2>2, <2>3 DEF Turn, Stages
  <2>5. turn' = [turn EXCEPT ![r] = t]
        /\ UNCHANGED <<lock, threads, checkpoint, head, snapshots, receipts, approved,
                       arrivals>>
      BY <1>6, <2>1 DEF BeginTurn, s
  <2> HIDE DEF t
  <2>6. QED BY <1>1, <1>2, <2>2, <2>3, <2>4, <2>5, TurnSound
<1>7. CASE SaveRoute(r)
  <2>1. [turn[r] EXCEPT !.stage = "saved"]
        = [turn[r] EXCEPT !.stage = "saved", !.state = turn[r].state,
                          !.kept = turn[r].kept \cup {}]
      BY <1>1 DEF Turn
  <2>2. Returns(r, turn[r].state, {}, "saved")
      BY <1>7, <2>1 DEF SaveRoute, Returns, Goes
  <2>3. QED BY <1>1, <1>2, <2>2, ReturnsSound DEF Stages
<1>8. CASE SubmitDraft(r)
  <2> DEFINE t == [turn[r] EXCEPT !.stage = "submitting", !.outcome = "none"]
  <2>1. t \in Turn /\ t.state = turn[r].state /\ t.message = turn[r].message
        /\ t.action = turn[r].action /\ t.outcome = "none"
      BY <1>1 DEF Turn, Stages, Outcomes
  <2>2. /\ turn' = [turn EXCEPT ![r] = t]
        /\ turn[r].state.draft # None
        /\ turn[r].state.draft.status \in {"confirmed", "submitted"}
        /\ UNCHANGED <<lock, threads, checkpoint, head, snapshots, receipts, approved,
                       arrivals>>
      BY <1>8 DEF SubmitDraft, Commanding, Before
  <2> HIDE DEF t
  <2>3. QED BY <1>1, <1>2, <2>1, <2>2, TurnSound DEF SoundTurn
<1>9. CASE Transaction(r)
  <2> DEFINE d == turn[r].state.draft
             t == [turn[r] EXCEPT !.outcome = OutcomeFor(d)]
  <2>1. /\ turn' = [turn EXCEPT ![r] = t] /\ receipts' = ReceiptsAfter(d)
        /\ UNCHANGED <<lock, threads, checkpoint, head, snapshots, approved, arrivals>>
      BY <1>9 DEF Transaction, Before
  <2>2. /\ d # None /\ d.status \in {"confirmed", "submitted"}
        /\ d \in Draft /\ Sound(d)
      BY <1>1, <1>2, <1>9 DEF Transaction, SoundTurn, SoundState, State
  <2>3. /\ receipts \subseteq receipts' /\ receipts' \subseteq approved
        /\ \A x, y \in receipts' : x.id = y.id => x = y
        /\ OutcomeFor(d) \in Outcomes
        /\ OutcomeFor(d) \in {"created", "replayed"} =>
              \E x \in receipts' : x.id = d.id /\ x.revision = d.revision
      BY <2>1, <2>2, TransactionSound
  <2>4. t \in Turn /\ t.state = turn[r].state /\ t.message = turn[r].message
        /\ t.action = turn[r].action /\ t.outcome = OutcomeFor(d)
      BY <1>1, <2>3 DEF Turn
  <2>5. /\ SoundState(t.state)
        /\ t.action = "update" => t.message.text \in Texts
        /\ t.state.draft = d
      BY <1>2, <2>4 DEF SoundTurn
  <2> HIDE DEF t, d
  <2>6. QED BY <1>1, <1>2, <2>1, <2>2, <2>3, <2>4, <2>5, TurnSound
<1>10. CASE Persist(r)
  <2> DEFINE s == turn[r].state
  <2>1. head' = HeadOf(s) /\ HeadOf(s) \in HeadRow
    <3>1. HeadOf(s) \in HeadRow
        BY <1>1, WorkflowAssumption
        DEF HeadOf, HeadRow, State, Draft, WorkflowAssumption
    <3>2. QED BY <1>10, <3>1 DEF Persist
  <2>2. /\ snapshots' \subseteq snapshots \cup ({s.draft} \ {None})
        /\ turn' = [turn EXCEPT ![r] = IdleTurn]
        /\ UNCHANGED <<lock, threads, checkpoint, receipts, approved, arrivals>>
      BY <1>10 DEF Persist, Ends, Before
  <2>3. snapshots' \subseteq Draft /\ (\A d \in snapshots' : Sound(d))
      BY <1>1, <1>2, <2>2 DEF SoundState, State
  <2>4. head'.phase = "submitted" /\ head'.id # None
        => HasReceipt(head'.id, head'.revision)
      BY <1>2, <2>1 DEF HeadOf, SoundState, Sound, PhaseFits
  <2> HIDE DEF s
  <2>5. QED BY <1>1, <1>2, <2>1, <2>2, <2>3, <2>4, IdleSound, TurnSound
<1>11. CASE TurnFails(r)
  <2>1. threads' \subseteq Draft /\ (\A d \in threads' : Sound(d))
      BY <1>1, <1>2, <1>11, AbandonedSound DEF TurnFails
  <2>2. turn' = [turn EXCEPT ![r] = IdleTurn]
        /\ UNCHANGED <<lock, checkpoint, head, snapshots, receipts, approved, arrivals>>
      BY <1>11 DEF TurnFails, Ends
  <2>3. QED BY <1>1, <1>2, <2>1, <2>2, IdleSound, TurnSound
<1>12. QED BY <1>3, <1>4, <1>5, <1>6, <1>7, <1>8, <1>9, <1>10, <1>11

\* Nodes.
LEMMA NodeSteps ==
    ASSUME SubmissionInv, NEW r \in Requests,
           \/ Ask(r) \/ GenerateDraft(r) \/ GenerateFails(r)
           \/ UpdateDraft(r) \/ UpdateFails(r) \/ UpdateRefused(r)
           \/ ConfirmDraft(r) \/ ConfirmRefused(r) \/ CancelDraft(r) \/ CancelRefused(r)
           \/ SubmitRefused(r) \/ SubmitReturns(r) \/ SubmitRejected(r)
           \/ SubmitTimesOut(r) \/ AwaitConfirmation(r)
    PROVE  SubmissionInv'
<1> DEFINE s == turn[r].state
           d == Before(r)
<1>1. /\ turn[r] \in Turn /\ s \in State /\ d = s.draft
      /\ threads \subseteq Draft /\ approved \subseteq Receipt
      /\ \A x \in threads : Sound(x)
    BY DEF SubmissionInv, WorkflowTypeOK, Turn, Before
<1>2. SoundTurn(turn[r]) /\ SoundState(s)
    BY DEF SubmissionInv, SoundTurn
<1>3. d # None => d \in Draft /\ Sound(d)
    BY <1>1, <1>2 DEF State, SoundState
<1>4. /\ {} \in SUBSET Channels /\ {"phase"} \in SUBSET Channels
      /\ {"phase", "draft"} \in SUBSET Channels
      /\ "finished" \in Stages \ {"submitting"}
      /\ \A x \in State : After(x) \in Stages \ {"submitting"}
    BY DEF Channels, Stages, After
<1>5. \A x \in Draft : x # None
    BY NoneAssumption
<1>6. CASE Ask(r)
    BY <1>1, <1>2, <1>4, <1>6, ReturnsSound DEF Ask
<1>7. CASE GenerateDraft(r)
  <2> DEFINE f == FirstDraft(turn[r].message.text)
  <2>1. turn[r].message.text \in Texts
      BY <1>1, <1>7 DEF GenerateDraft, Turn, Messages
  <2>2. f \in Draft /\ Sound(f)
      BY <2>1, DraftsTyped DEF FirstDraft, Sound
  <2>3. Returns(r, WithDraft(s, f), {"phase", "draft"}, After(WithDraft(s, f)))
      BY <1>7 DEF GenerateDraft
  <2>4. WithDraft(s, f) \in State
      BY <1>1, <2>2, StatesTyped
  <2> HIDE DEF f
  <2>5. QED BY <1>4, <2>2, <2>3, <2>4, WithDraftSound
<1>8. CASE GenerateFails(r)
    BY <1>4, <1>8, InPhaseSound DEF GenerateFails, Phases
<1>9. CASE UpdateDraft(r)
  <2> DEFINE f == Revised(d, turn[r].message.text)
  <2>1. d \in Draft /\ turn[r].message.text \in Texts /\ d.revision < MaxRevision
      BY <1>1, <1>2, <1>3, <1>9
      DEF UpdateDraft, Commanding, Acting, SoundTurn, Before
  <2>2. f \in Draft /\ Sound(f)
    <3>1. f \in Draft
        BY <2>1, DraftsTyped
    <3>2. f.status \in {"waiting", "incomplete"}
        BY <2>1 DEF Revised, Draft
    <3>3. QED BY <3>1, <3>2 DEF Sound
  <2>3. Returns(r, WithDraft(s, f), {"phase", "draft"}, After(WithDraft(s, f)))
      BY <1>9 DEF UpdateDraft
  <2>4. WithDraft(s, f) \in State
      BY <1>1, <2>2, StatesTyped
  <2> HIDE DEF f
  <2>5. QED BY <1>4, <2>2, <2>3, <2>4, WithDraftSound
<1>10. CASE UpdateFails(r) \/ ConfirmRefused(r) \/ CancelRefused(r)
  <2>1. d \in Draft /\ Sound(d)
      BY <1>1, <1>3, <1>10
      DEF UpdateFails, ConfirmRefused, CancelRefused, Commanding, Before
  <2>2. Returns(r, WithDraft(s, d), {"phase", "draft"}, "finished")
      BY <1>10 DEF UpdateFails, ConfirmRefused, CancelRefused
  <2>3. QED BY <1>4, <2>1, <2>2, WithDraftSound
<1>11. CASE UpdateRefused(r)
  <2>1. s.draft.status = "submitted"
        /\ Returns(r, InPhase(s, "submitted"), {"phase"}, "finished")
      BY <1>11 DEF UpdateRefused, Before
  <2>2. QED BY <1>4, <2>1, InPhaseSound DEF Phases
<1>12. CASE ConfirmDraft(r)
  <2> DEFINE f == [d EXCEPT !.status = "confirmed"]
  <2>1. d \in Draft
      BY <1>1, <1>3, <1>12 DEF ConfirmDraft, Commanding, Before
  <2>2. f \in Draft /\ f.status = "confirmed" /\ ReceiptOf(f) \in Receipt
      BY <2>1, DraftsTyped DEF Draft, Statuses
  <2>3. /\ Goes(r, WithDraft(s, f), {"phase", "draft"}, "finished")
        /\ approved' = approved \cup {ReceiptOf(f)}
        /\ UNCHANGED <<threads, receipts>>
      BY <1>12 DEF ConfirmDraft
  <2> HIDE DEF f
  <2>4. WithDraft(s, f) \in State /\ WithDraft(s, f).draft = f
        /\ PhaseFits(WithDraft(s, f))
      BY <1>1, <2>2, StatesTyped
  <2>5. QED BY <1>1, <1>4, <2>2, <2>3, <2>4, GoesSound
<1>13. CASE CancelDraft(r)
  <2> DEFINE f == [d EXCEPT !.status = "cancelled"]
  <2>1. d \in Draft
      BY <1>1, <1>3, <1>13 DEF CancelDraft, Commanding, Before
  <2>2. f \in Draft /\ Sound(f)
      BY <2>1, DraftsTyped DEF Draft, Statuses, Sound
  <2>3. Returns(r, WithDraft(s, f), {"phase", "draft"}, "finished")
      BY <1>13 DEF CancelDraft
  <2>4. QED BY <1>4, <2>2, <2>3, WithDraftSound
<1>14. CASE SubmitRefused(r)
  <2> DEFINE phase == IF d = None THEN "idle" ELSE PhaseOf(d)
  <2>1. Returns(r, InPhase(s, phase), {"phase"}, After(InPhase(s, phase)))
      BY <1>14 DEF SubmitRefused, Before
  <2>2. phase \in Phases
        /\ (phase = "submitted" /\ s.draft # None => s.draft.status = "submitted")
      BY <1>1, <1>3 DEF PhaseOf, Phases, Draft, Statuses
  <2>3. InPhase(s, phase) \in State
      BY <1>1, <2>2, StatesTyped
  <2> HIDE DEF phase
  <2>4. QED BY <1>4, <2>1, <2>2, <2>3, InPhaseSound
<1>15. CASE SubmitReturns(r)
  <2> DEFINE f == [d EXCEPT !.status = "submitted"]
  <2>1. d \in Draft /\ ReceiptOf(d) \in approved /\ HasReceipt(d.id, d.revision)
    <3>1. d # None /\ d.status \in {"confirmed", "submitted"}
          /\ HasReceipt(d.id, d.revision)
        BY <1>1, <1>2, <1>15 DEF SubmitReturns, At, SoundTurn, Before
    <3>2. QED BY <1>3, <3>1 DEF Sound
  <2>2. f \in Draft /\ ReceiptOf(f) = ReceiptOf(d)
        /\ f.id = d.id /\ f.revision = d.revision
      BY <2>1, DraftsTyped DEF Draft, Statuses, ReceiptOf
  <2>3. Sound(f)
      BY <2>1, <2>2 DEF Sound
  <2>4. Returns(r, WithDraft(s, f), {"phase", "draft"}, "finished")
      BY <1>15 DEF SubmitReturns
  <2>5. QED BY <1>4, <2>2, <2>3, <2>4, WithDraftSound
<1>16. CASE SubmitRejected(r)
  <2>1. d \in Draft
      BY <1>1, <1>2, <1>3, <1>16 DEF SubmitRejected, At, SoundTurn, Before
  <2>2. PhaseOf(d) \in Phases
        /\ (PhaseOf(d) = "submitted" => s.draft.status = "submitted")
      BY <1>1, <2>1 DEF PhaseOf, Phases, Draft, Statuses
  <2>3. Returns(r, InPhase(s, PhaseOf(d)), {"phase"}, "finished")
      BY <1>16 DEF SubmitRejected
  <2>4. QED BY <1>4, <2>2, <2>3, InPhaseSound
<1>17. CASE SubmitTimesOut(r)
  <2>1. d \in Draft /\ Sound(d)
      BY <1>1, <1>2, <1>3, <1>17 DEF SubmitTimesOut, At, SoundTurn, Before
  <2>2. /\ threads' = threads \cup Abandoned(r)
        /\ Goes(r, WithDraft(s, d), {"phase", "draft"}, "finished")
        /\ UNCHANGED <<receipts, approved>>
      BY <1>17 DEF SubmitTimesOut
  <2>3. threads' \subseteq Draft /\ (\A x \in threads' : Sound(x))
      BY <1>1, <2>2, AbandonedSound
  <2>4. WithDraft(s, d) \in State /\ WithDraft(s, d).draft = d
        /\ PhaseFits(WithDraft(s, d))
      BY <1>1, <2>1, StatesTyped
  <2>5. QED BY <1>1, <1>4, <2>1, <2>2, <2>3, <2>4, GoesSound DEF Sound
<1>18. CASE AwaitConfirmation(r)
  <2> DEFINE u == [s EXCEPT !.phase = "awaiting", !.gate = TRUE]
  <2>1. Returns(r, u, {"phase"}, "finished")
      BY <1>18 DEF AwaitConfirmation
  <2>2. u \in State /\ SoundState(u)
      BY <1>1, <1>2 DEF State, Phases, SoundState, PhaseFits
  <2>3. QED BY <1>4, <2>1, <2>2, ReturnsSound
<1>19. QED BY <1>6, <1>7, <1>8, <1>9, <1>10, <1>11, <1>12, <1>13, <1>14, <1>15, <1>16,
              <1>17, <1>18

\* clear_session, and what happens to no turn.
LEMMA OtherSteps ==
    ASSUME SubmissionInv,
           \/ \E r \in Requests : DeleteThread(r) \/ DeleteSession(r)
           \/ \E d \in threads : AbandonedTransaction(d)
           \/ Crash
           \/ UNCHANGED vars
    PROVE  SubmissionInv'
<1>1. WorkflowTypeOK /\ receipts \subseteq approved /\ OneReceiptPerDraft
      /\ SoundState(checkpoint) /\ HeadFits
      /\ (\A r \in Requests : SoundTurn(turn[r]))
      /\ (\A d \in snapshots \cup threads : Sound(d))
    BY DEF SubmissionInv
<1>2. ASSUME receipts \subseteq receipts', approved' = approved
      PROVE  /\ \A id, revision : HasReceipt(id, revision) => HasReceipt(id, revision)'
             /\ \A d : Sound(d) => Sound(d)'
             /\ \A s : SoundState(s) => SoundState(s)'
             /\ \A t : SoundTurn(t) => SoundTurn(t)'
  <2>1. \A id, revision : HasReceipt(id, revision) => HasReceipt(id, revision)'
      BY <1>2 DEF HasReceipt
  <2>2. \A d : Sound(d) => Sound(d)'
      BY <1>2, <2>1 DEF Sound, ReceiptOf
  <2>3. \A s : SoundState(s) => SoundState(s)'
      BY <2>2 DEF SoundState, PhaseFits
  <2>4. QED BY <2>1, <2>2, <2>3 DEF SoundTurn
<1>3. SoundTurn(IdleTurn) /\ IdleTurn \in Turn
    BY IdleSound DEF SoundTurn
<1>4. CASE \E r \in Requests : DeleteThread(r)
  <2>1. PICK r \in Requests : DeleteThread(r)
      BY <1>4
  <2>2. checkpoint' = NewThread
        /\ UNCHANGED <<lock, threads, head, snapshots, receipts, approved, arrivals>>
      BY <2>1 DEF DeleteThread
  <2>3. ASSUME NEW q \in Requests
        PROVE  /\ turn'[q] \in Turn /\ turn'[q].state = turn[q].state
               /\ turn'[q].message = turn[q].message /\ turn'[q].action = turn[q].action
               /\ turn'[q].outcome = turn[q].outcome
               /\ turn'[q].stage \in {turn[q].stage, "threadDeleted"}
    <3>1. turn[q] \in Turn
        BY <1>1 DEF WorkflowTypeOK
    <3>2. turn'[q] \in {[turn[q] EXCEPT !.stage = "threadDeleted"],
                        [turn[q] EXCEPT !.kept = {"turn", "phase"}],
                        [turn[q] EXCEPT !.kept = {}], turn[q]}
        BY <2>1 DEF DeleteThread
    <3>3. QED BY <3>1, <3>2 DEF Turn, Stages, Channels
  <2>4. turn' \in [Requests -> Turn]
    <3>1. turn' = [q \in Requests |-> turn'[q]]
        BY <2>1 DEF DeleteThread
    <3>2. QED BY <2>3, <3>1
  <2>5. \A q \in Requests : SoundTurn(turn'[q])
      BY <1>1, <2>3 DEF SoundTurn
  <2>6. WorkflowTypeOK'
      BY <1>1, <2>2, <2>4, IdleSound DEF WorkflowTypeOK
  <2>7. QED BY <1>1, <1>2, <2>2, <2>5, <2>6, IdleSound
            DEF SubmissionInv, HeadFits, OneReceiptPerDraft
<1>5. CASE \E r \in Requests : DeleteSession(r)
  <2>1. PICK r \in Requests : DeleteSession(r)
      BY <1>5
  <2>2. /\ head' = None /\ snapshots' = {} /\ lock' \in {lock, lock + 1}
        /\ turn' = [turn EXCEPT ![r] = IdleTurn]
        /\ UNCHANGED <<threads, checkpoint, receipts, approved, arrivals>>
      BY <2>1 DEF DeleteSession, Ends
  <2>3. lock' \in Nat /\ arrivals \in 0 .. MaxArrivals /\ threads \subseteq Draft
      BY <1>1, <2>2 DEF WorkflowTypeOK
  <2>4. QED BY <1>1, <1>3, <2>2, <2>3, IdleSound, TurnSound DEF OneReceiptPerDraft
<1>6. CASE \E d \in threads : AbandonedTransaction(d)
  <2>1. PICK d \in threads : AbandonedTransaction(d)
      BY <1>6
  <2>2. /\ receipts' = ReceiptsAfter(d) /\ threads' \subseteq threads
        /\ UNCHANGED <<turn, lock, checkpoint, head, snapshots, approved, arrivals>>
      BY <2>1 DEF AbandonedTransaction
  <2>3. d \in Draft /\ Sound(d)
      BY <1>1 DEF WorkflowTypeOK
  <2>4. /\ receipts \subseteq receipts' /\ receipts' \subseteq approved'
        /\ \A x, y \in receipts' : x.id = y.id => x = y
      BY <2>2, <2>3, TransactionSound
  <2>5. WorkflowTypeOK'
      BY <1>1, <2>2, <2>4 DEF WorkflowTypeOK
  <2>6. QED BY <1>1, <1>2, <2>2, <2>4, <2>5
            DEF SubmissionInv, HeadFits, OneReceiptPerDraft
<1>7. CASE Crash
  <2>1. /\ turn' = [r \in Requests |-> IdleTurn] /\ lock' = 0 /\ threads' = {}
        /\ UNCHANGED <<checkpoint, head, snapshots, receipts, approved, arrivals>>
      BY <1>7 DEF Crash
  <2>2. WorkflowTypeOK'
      BY <1>1, <1>3, <2>1 DEF WorkflowTypeOK
  <2>3. QED BY <1>1, <1>2, <1>3, <2>1, <2>2
            DEF SubmissionInv, HeadFits, OneReceiptPerDraft
<1>8. CASE UNCHANGED vars
  <2>1. WorkflowTypeOK'
      BY <1>1, <1>8 DEF vars, WorkflowTypeOK
  <2>2. QED BY <1>1, <1>2, <1>8, <2>1
            DEF vars, SubmissionInv, HeadFits, OneReceiptPerDraft
<1>9. QED BY <1>4, <1>5, <1>6, <1>7, <1>8

LEMMA SubmissionInvAlways == Spec => []SubmissionInv
<1>1. SubmissionInv /\ [Next]_vars => SubmissionInv'
    BY TurnSteps, NodeSteps, OtherSteps DEF Next, Request
<1>2. QED BY SubmissionInvInit, <1>1, PTL DEF Spec

-----------------------------------------------------------------------------
(* The guarantees                                                           *)

\* The coroutines, the checkpoint, the head, the snapshots and the receipts keep
\* their types (AgentWorkflow, sqlite_schema.py).
THEOREM WorkflowTypeCorrect == Spec => []WorkflowTypeOK
<1>1. SubmissionInv => WorkflowTypeOK
    BY DEF SubmissionInv
<1>2. QED BY SubmissionInvAlways, <1>1, PTL

\* However turns interleave, fail, time out, crash or are cleared, no draft gets a
\* second receipt (SQLiteSubmissionRepository._submit_transaction).
THEOREM OneReceiptAlways == Spec => []OneReceiptPerDraft
<1>1. SubmissionInv => OneReceiptPerDraft
    BY DEF SubmissionInv
<1>2. QED BY SubmissionInvAlways, <1>1, PTL

\* Every receipt, also one committed by a thread nobody waits for, is of a revision
\* and content the user has confirmed (_confirm_draft, _submit_approval).
THEOREM ConfirmedBeforeSubmitted == Spec => []ReceiptsWereConfirmed
<1>1. SubmissionInv => ReceiptsWereConfirmed
    BY DEF SubmissionInv, ReceiptsWereConfirmed
<1>2. QED BY SubmissionInvAlways, <1>1, PTL

\* Whatever the checkpoint, a turn, a snapshot or the head calls submitted has its
\* receipt in the database (_submit_approval, _persist_route_state).
THEOREM SubmittedHasReceipt == Spec => []SubmittedMeansReceipt
<1>1. SubmissionInv => SubmittedMeansReceipt
  <2> SUFFICES ASSUME SubmissionInv PROVE SubmittedMeansReceipt
      OBVIOUS
  <2>1. /\ Sound(checkpoint.draft)
        /\ \A r \in Requests : Sound(Before(r))
        /\ \A d \in snapshots : Sound(d)
        /\ HeadFits
      BY DEF SubmissionInv, SoundState, SoundTurn, Before
  <2>2. QED BY <2>1 DEF SubmittedMeansReceipt, Sound, HeadFits
<1>2. QED BY SubmissionInvAlways, <1>1, PTL
=============================================================================
