---------------------------- MODULE AbUpdateProofs ----------------------------
(***************************************************************************)
(* What holds of AbUpdate for every set of digests, every budget and every *)
(* target that obeys the contract, with proofs for TLAPS.                  *)
(*                                                                         *)
(* First come the facts about the functions of AbSlots: what each handler  *)
(* makes of a conforming pair.  Then the inductive invariant.              *)
(***************************************************************************)
EXTENDS AbUpdate, AbDocuments, TLAPS

(* A conforming pair in the roles a pending transaction gives it.           *)
PendingPair(ss, from, to) ==
  /\ ContractPair(ss)
  /\ from \in Slots
  /\ to \in Slots
  /\ from # to
  /\ ss[from].role = "active"

------------------------------------------------------------------------------
(* n attempts spent and t tries left beside the one under way: what the     *)
(* budget of max_attempts leaves.                                           *)
LEMMA BudgetLeft ==
  \A n \in Nat : \A t \in 0..7 : n + t + 1 = MaxAttempts =>
    /\ n < MaxAttempts /\ n < 7
    /\ t = MaxAttempts - (n + 1)
    /\ (n + 1) + t = MaxAttempts
BY MaxAttemptsAssumption

(* Where exactly one slot is active, active and candidate are the two slots.*)
LEMMA RolesLemma ==
  ASSUME NEW ss, OneActive(ss), \A s \in Slots : ss[s].role \in {"active", "candidate"}
  PROVE  /\ ActiveOf(ss) \in Slots /\ CandidateOf(ss) \in Slots
         /\ ActiveOf(ss) # CandidateOf(ss)
         /\ ss[ActiveOf(ss)].role = "active"
         /\ ss[CandidateOf(ss)].role = "candidate"
         /\ \A s \in Slots : ss[s].role = "active" => s = ActiveOf(ss)
<1>1. PICK a \in Slots : \A t \in Slots : ss[t].role = "active" <=> t = a
  BY DEF OneActive
<1>2. PICK c \in Slots : c # a
  BY DEF Slots
<1>3. ss[a].role = "active" /\ ss[c].role = "candidate"
  BY <1>1, <1>2
<1>4. ActiveOf(ss) \in Slots /\ ss[ActiveOf(ss)].role = "active"
  BY <1>3 DEF ActiveOf
<1>5. CandidateOf(ss) \in Slots /\ ss[CandidateOf(ss)].role = "candidate"
  BY <1>3 DEF CandidateOf
<1> QED
  BY <1>1, <1>4, <1>5

(* A pending pair taken apart, and put together again.                      *)
LEMMA PendingFacts ==
  ASSUME NEW ss, NEW from, NEW to, PendingPair(ss, from, to)
  PROVE  /\ from \in Slots /\ to \in Slots /\ from # to
         /\ \A s \in Slots : s = from \/ s = to
         /\ ss \in [Slots -> SlotState]
         /\ ss[from] \in SlotState /\ ss[to] \in SlotState
         /\ ConformantSlot(ss[from]) /\ ConformantSlot(ss[to])
         /\ ss[from].role = "active" /\ ss[to].role = "candidate"
         /\ ss[from].currently_running = ~ss[to].currently_running
<1>1. /\ from \in Slots /\ to \in Slots /\ from # to /\ ss[from].role = "active"
      /\ ss \in [Slots -> SlotState] /\ OneActive(ss) /\ OneRunning(ss)
      /\ \A s \in Slots : ConformantSlot(ss[s])
  BY DEF PendingPair, ContractPair
<1>2. \A s \in Slots : s = from \/ s = to
  BY <1>1 DEF Slots
<1>3. ss[from] \in SlotState /\ ss[to] \in SlotState
  BY <1>1
<1>4. ss[to].role # "active"
  BY <1>1 DEF OneActive
<1>5. ss[to].role = "candidate"
  BY <1>3, <1>4 DEF SlotState
<1>6. PICK c \in Slots : \A t \in Slots : ss[t].currently_running <=> t = c
  BY <1>1 DEF OneRunning
<1>7. ss[from].currently_running \in BOOLEAN /\ ss[to].currently_running \in BOOLEAN
  BY <1>3 DEF SlotState
<1>8. ss[from].currently_running = ~ss[to].currently_running
  BY <1>1, <1>2, <1>6, <1>7
<1> QED
  BY <1>1, <1>2, <1>3, <1>5, <1>8

LEMMA PairIntro ==
  ASSUME NEW r, NEW from \in Slots, NEW to \in Slots, from # to,
         r \in [Slots -> SlotState],
         ConformantSlot(r[from]), ConformantSlot(r[to]),
         r[from].role = "active" <=> r[to].role # "active",
         r[from].currently_running = ~r[to].currently_running
  PROVE  ContractPair(r)
<1>1. \A s \in Slots : s = from \/ s = to
  BY DEF Slots
<1>2. OneActive(r)
  BY <1>1 DEF OneActive
<1>3. r[from].currently_running \in BOOLEAN /\ r[to].currently_running \in BOOLEAN
  BY DEF SlotState
<1>4. OneRunning(r)
  <2>1. CASE r[from].currently_running
    BY <1>1, <1>3, <2>1 DEF OneRunning
  <2>2. CASE ~r[from].currently_running
    BY <1>1, <1>3, <2>2 DEF OneRunning
  <2> QED  BY <2>1, <2>2
<1> QED
  BY <1>1, <1>2, <1>4 DEF ContractPair

(* begin keeps the pair conforming.                                         *)
LEMMA WritingLemma ==
  ASSUME NEW ss, NEW from, NEW to, PendingPair(ss, from, to), NEW d \in Digests
  PROVE  LET r == WritingSlots(ss, to, d) IN
         /\ PendingPair(r, from, to)
         /\ r[from] = ss[from]
         /\ r[to].state = "writing"
         /\ r[to].payload_digest = d
         /\ ~r[to].successful
<1> DEFINE r == WritingSlots(ss, to, d)
           q == [ss[to] EXCEPT !.state = "writing", !.successful = FALSE,
                               !.payload_digest = d, !.last_probe_verdict = "none"]
<1>1. /\ ss \in [Slots -> SlotState] /\ from \in Slots /\ to \in Slots /\ from # to
      /\ ss[from] \in SlotState /\ ss[to] \in SlotState
      /\ ConformantSlot(ss[from]) /\ ConformantSlot(ss[to])
      /\ ss[from].role = "active" /\ ss[to].role = "candidate"
      /\ ss[from].currently_running = ~ss[to].currently_running
  BY PendingFacts
<1>2. r[from] = ss[from] /\ r[to] = q
  BY <1>1 DEF WritingSlots
<1>3. q \in SlotState
  BY <1>1 DEF SlotState, SLOT_STATES, Verdicts
<1>4. /\ q.role = "candidate" /\ q.state = "writing" /\ q.successful = FALSE
      /\ q.currently_running = ss[to].currently_running
      /\ q.payload_digest = d
  BY <1>1 DEF SlotState
<1>5. r \in [Slots -> SlotState]
  BY <1>1, <1>3 DEF WritingSlots
<1>6. ConformantSlot(q)
  BY <1>4 DEF ConformantSlot
<1>7. ContractPair(r)
  BY <1>1, <1>2, <1>4, <1>5, <1>6, PairIntro
<1> HIDE DEF r, q
<1> QED
  BY <1>1, <1>2, <1>4, <1>7 DEF PendingPair, r
(* The values the handlers assign lie in the ranges of the GPT attributes.  *)
LEMMA SlotRanges ==
  /\ 0 \in 0..15 /\ 14 \in 0..15 /\ 15 \in 0..15
  /\ 0 \in 0..7 /\ MaxAttempts \in 0..7
  /\ {"writing", "written", "trying", "good", "unbootable"} \subseteq SLOT_STATES
  /\ {"none", "pass", "fail"} = Verdicts
  /\ TRUE \in BOOLEAN /\ FALSE \in BOOLEAN
BY MaxAttemptsAssumption DEF SLOT_STATES, Verdicts

(* The write is complete; nothing but the state of the candidate moves.     *)
LEMMA WrittenLemma ==
  ASSUME NEW ss, NEW from, NEW to, PendingPair(ss, from, to)
  PROVE  LET r == WrittenSlots(ss, to) IN
         /\ PendingPair(r, from, to)
         /\ r[from] = ss[from]
         /\ r[to].state = "written"
         /\ r[to].payload_digest = ss[to].payload_digest
         /\ r[to].successful = ss[to].successful
<1> DEFINE r == WrittenSlots(ss, to)
           p == ss[from]
           q == [ss[to] EXCEPT !.state = "written"]
<1>1. /\ ss \in [Slots -> SlotState] /\ from \in Slots /\ to \in Slots /\ from # to
      /\ ss[from] \in SlotState /\ ss[to] \in SlotState
      /\ ConformantSlot(ss[from]) /\ ConformantSlot(ss[to])
      /\ ss[from].role = "active" /\ ss[to].role = "candidate"
      /\ ss[from].currently_running = ~ss[to].currently_running
  BY PendingFacts
<1>2. /\ ss \in [Slots -> SlotState] /\ from \in Slots /\ to \in Slots /\ from # to
      /\ ss[from] \in SlotState /\ ss[to] \in SlotState
  BY <1>1
<1>3. p \in SlotState /\ q \in SlotState
  <2>1. p \in SlotState
    BY <1>2, SlotRanges, Zenon DEF SlotState, ARMED_CANDIDATE_PRIORITY, ARMED_ACTIVE_PRIORITY
  <2>2. q \in SlotState
    BY <1>2, SlotRanges, Zenon DEF SlotState, ARMED_CANDIDATE_PRIORITY
  <2> QED  BY <2>1, <2>2
<1>4. /\ p.role = "active" /\ q.role = "candidate" /\ q.state = "written"
      /\ q.boot_priority = ss[to].boot_priority /\ q.successful = ss[to].successful
      /\ q.payload_digest = ss[to].payload_digest
      /\ q.currently_running = ss[to].currently_running
  BY <1>1 DEF SlotState, ARMED_CANDIDATE_PRIORITY, ARMED_ACTIVE_PRIORITY, ConformantSlot
<1>5. r = [ss EXCEPT ![from] = p, ![to] = q]
  BY <1>2 DEF WrittenSlots
<1>6. r[from] = p /\ r[to] = q /\ r \in [Slots -> SlotState]
  <2> HIDE DEF p, q, r
  <2> QED  BY <1>2, <1>3, <1>5
<1>7. ConformantSlot(p) /\ ConformantSlot(q)
  BY <1>1, <1>4 DEF ConformantSlot
<1>8. ContractPair(r)
  <2>1. /\ r[from].role = "active" <=> r[to].role # "active"
        /\ r[from].currently_running = ~r[to].currently_running
    BY <1>1, <1>4, <1>6
  <2> HIDE DEF r, p, q
  <2> QED
    BY <1>2, <1>6, <1>7, <2>1, PairIntro
<1> HIDE DEF r, p, q
<1> QED
  BY <1>2, <1>4, <1>6, <1>8 DEF PendingPair, r, p

(* arm leaves a strict order of priorities and a full budget.              *)
LEMMA ArmedLemma ==
  ASSUME NEW ss, NEW from, NEW to, PendingPair(ss, from, to),
         ss[to].state = "written"
  PROVE  LET r == ArmedSlots(ss, from, to) IN
         /\ PendingPair(r, from, to)
         /\ r[from].payload_digest = ss[from].payload_digest
         /\ r[from].boot_priority = 14 /\ r[to].boot_priority = 15
         /\ r[to].state = "written"
         /\ r[to].payload_digest = ss[to].payload_digest
         /\ r[to].tries_remaining = MaxAttempts
         /\ ~r[to].successful
<1> DEFINE r == ArmedSlots(ss, from, to)
           p == [ss[from] EXCEPT !.boot_priority = ARMED_ACTIVE_PRIORITY]
           q == [ss[to] EXCEPT !.boot_priority = ARMED_CANDIDATE_PRIORITY,
                          !.tries_remaining = MaxAttempts, !.successful = FALSE]
<1>1. /\ ss \in [Slots -> SlotState] /\ from \in Slots /\ to \in Slots /\ from # to
      /\ ss[from] \in SlotState /\ ss[to] \in SlotState
      /\ ConformantSlot(ss[from]) /\ ConformantSlot(ss[to])
      /\ ss[from].role = "active" /\ ss[to].role = "candidate"
      /\ ss[from].currently_running = ~ss[to].currently_running
  BY PendingFacts
<1>2. /\ ss \in [Slots -> SlotState] /\ from \in Slots /\ to \in Slots /\ from # to
      /\ ss[from] \in SlotState /\ ss[to] \in SlotState
  BY <1>1
<1>3. p \in SlotState /\ q \in SlotState
  <2>1. p \in SlotState
    BY <1>2, SlotRanges, Zenon DEF SlotState, ARMED_CANDIDATE_PRIORITY, ARMED_ACTIVE_PRIORITY
  <2>2. q \in SlotState
    BY <1>2, SlotRanges, Zenon DEF SlotState, ARMED_CANDIDATE_PRIORITY
  <2> QED  BY <2>1, <2>2
<1>4. /\ p.role = "active" /\ p.state = ss[from].state /\ p.successful
      /\ p.state # "unbootable" /\ p.boot_priority = 14
      /\ p.payload_digest = ss[from].payload_digest
      /\ p.currently_running = ss[from].currently_running
      /\ q.role = "candidate" /\ q.state = "written" /\ q.boot_priority = 15
      /\ q.successful = FALSE /\ q.tries_remaining = MaxAttempts
      /\ q.payload_digest = ss[to].payload_digest
      /\ q.currently_running = ss[to].currently_running
  BY <1>1 DEF SlotState, ARMED_CANDIDATE_PRIORITY, ARMED_ACTIVE_PRIORITY, ConformantSlot
<1>5. r = [ss EXCEPT ![from] = p, ![to] = q]
  BY <1>2 DEF ArmedSlots
<1>6. r[from] = p /\ r[to] = q /\ r \in [Slots -> SlotState]
  <2> HIDE DEF p, q, r
  <2> QED  BY <1>2, <1>3, <1>5
<1>7. ConformantSlot(p) /\ ConformantSlot(q)
  BY <1>1, <1>4 DEF ConformantSlot
<1>8. ContractPair(r)
  <2>1. /\ r[from].role = "active" <=> r[to].role # "active"
        /\ r[from].currently_running = ~r[to].currently_running
    BY <1>1, <1>4, <1>6
  <2> HIDE DEF r, p, q
  <2> QED
    BY <1>2, <1>6, <1>7, <2>1, PairIntro
<1> HIDE DEF r, p, q
<1> QED
  BY <1>2, <1>4, <1>6, <1>8 DEF PendingPair, r

(* boot_attempt spends one try and hands over the processor.               *)
LEMMA TrialLemma ==
  ASSUME NEW ss, NEW from, NEW to, PendingPair(ss, from, to),
         ss[to].state = "written", ss[to].tries_remaining > 0
  PROVE  LET r == TrialSlots(ss, from, to) IN
         /\ PendingPair(r, from, to)
         /\ r[from].payload_digest = ss[from].payload_digest
         /\ r[from].boot_priority = ss[from].boot_priority
         /\ r[to].boot_priority = ss[to].boot_priority
         /\ r[to].state = "trying"
         /\ r[to].payload_digest = ss[to].payload_digest
         /\ r[to].tries_remaining = ss[to].tries_remaining - 1
         /\ r[to].successful = ss[to].successful
         /\ r[to].currently_running
<1> DEFINE r == TrialSlots(ss, from, to)
           p == [ss[from] EXCEPT !.currently_running = FALSE]
           q == [ss[to] EXCEPT !.tries_remaining = ss[to].tries_remaining - 1, !.state = "trying",
                          !.currently_running = TRUE]
<1>1. /\ ss \in [Slots -> SlotState] /\ from \in Slots /\ to \in Slots /\ from # to
      /\ ss[from] \in SlotState /\ ss[to] \in SlotState
      /\ ConformantSlot(ss[from]) /\ ConformantSlot(ss[to])
      /\ ss[from].role = "active" /\ ss[to].role = "candidate"
      /\ ss[from].currently_running = ~ss[to].currently_running
  BY PendingFacts
<1>2. /\ ss \in [Slots -> SlotState] /\ from \in Slots /\ to \in Slots /\ from # to
      /\ ss[from] \in SlotState /\ ss[to] \in SlotState
  BY <1>1
<1>3. p \in SlotState /\ q \in SlotState
  <2>1. p \in SlotState
    BY <1>2, SlotRanges, Zenon DEF SlotState, ARMED_CANDIDATE_PRIORITY, ARMED_ACTIVE_PRIORITY
  <2>2. ss[to].tries_remaining - 1 \in 0..7
    BY <1>2 DEF SlotState
  <2>3. q \in SlotState
    BY <1>2, SlotRanges, <2>2, Zenon DEF SlotState, ARMED_CANDIDATE_PRIORITY
  <2> QED  BY <2>1, <2>3
<1>4. /\ p.role = "active" /\ p.state = ss[from].state /\ p.successful
      /\ p.state # "unbootable" /\ p.boot_priority = ss[from].boot_priority
      /\ p.boot_priority >= 1
      /\ p.payload_digest = ss[from].payload_digest
      /\ p.currently_running = FALSE
      /\ q.role = "candidate" /\ q.state = "trying"
      /\ q.boot_priority = ss[to].boot_priority
      /\ q.successful = ss[to].successful
      /\ q.tries_remaining = ss[to].tries_remaining - 1
      /\ q.payload_digest = ss[to].payload_digest
      /\ q.currently_running = TRUE
  BY <1>1 DEF SlotState, ARMED_CANDIDATE_PRIORITY, ARMED_ACTIVE_PRIORITY, ConformantSlot
<1>5. r = [ss EXCEPT ![from] = p, ![to] = q]
  BY <1>2 DEF TrialSlots
<1>6. r[from] = p /\ r[to] = q /\ r \in [Slots -> SlotState]
  <2> HIDE DEF p, q, r
  <2> QED  BY <1>2, <1>3, <1>5
<1>7. ConformantSlot(p) /\ ConformantSlot(q)
  BY <1>1, <1>4 DEF ConformantSlot
<1>8. ContractPair(r)
  <2>1. /\ r[from].role = "active" <=> r[to].role # "active"
        /\ r[from].currently_running = ~r[to].currently_running
    BY <1>1, <1>4, <1>6
  <2> HIDE DEF r, p, q
  <2> QED
    BY <1>2, <1>6, <1>7, <2>1, PairIntro
<1> HIDE DEF r, p, q
<1> QED
  BY <1>2, <1>4, <1>6, <1>8 DEF PendingPair, r

(* probe_pass swaps the roles of two slots that both hold a good payload.   *)
LEMMA PromotedLemma ==
  ASSUME NEW ss, NEW from, NEW to, PendingPair(ss, from, to),
         ss[to].payload_digest # NoDigest, ss[to].currently_running
  PROVE  LET r == PromotedSlots(ss, from, to) IN
         /\ ContractPair(r)
         /\ r[from].payload_digest = ss[from].payload_digest
         /\ r[from].successful
         /\ r[to].role = "active" /\ r[to].currently_running
         /\ r[to].boot_priority = 15 /\ r[from].boot_priority = 14
         /\ r[to].payload_digest = ss[to].payload_digest
<1> DEFINE r == PromotedSlots(ss, from, to)
           p == [ss[from] EXCEPT !.role = "candidate", !.boot_priority = 14]
           q == [ss[to] EXCEPT !.role = "active", !.state = "good", !.successful = TRUE,
                          !.boot_priority = 15, !.tries_remaining = 0,
                          !.last_probe_verdict = "pass"]
<1>1. /\ ss \in [Slots -> SlotState] /\ from \in Slots /\ to \in Slots /\ from # to
      /\ ss[from] \in SlotState /\ ss[to] \in SlotState
      /\ ConformantSlot(ss[from]) /\ ConformantSlot(ss[to])
      /\ ss[from].role = "active" /\ ss[to].role = "candidate"
      /\ ss[from].currently_running = ~ss[to].currently_running
  BY PendingFacts
<1>2. /\ ss \in [Slots -> SlotState] /\ from \in Slots /\ to \in Slots /\ from # to
      /\ ss[from] \in SlotState /\ ss[to] \in SlotState
  BY <1>1
<1>3. p \in SlotState /\ q \in SlotState
  <2>1. p \in SlotState
    BY <1>2, SlotRanges, Zenon DEF SlotState, ARMED_CANDIDATE_PRIORITY, ARMED_ACTIVE_PRIORITY
  <2>2. q \in SlotState
    BY <1>2, SlotRanges, Zenon DEF SlotState, ARMED_CANDIDATE_PRIORITY
  <2> QED  BY <2>1, <2>2
<1>4. /\ p.role = "candidate" /\ p.state = ss[from].state /\ p.successful
      /\ p.state # "unbootable" /\ p.boot_priority = 14
      /\ p.payload_digest = ss[from].payload_digest
      /\ p.currently_running = ss[from].currently_running
      /\ q.role = "active" /\ q.state = "good"
      /\ q.boot_priority = 15 /\ q.successful = TRUE
      /\ q.payload_digest = ss[to].payload_digest
      /\ q.currently_running = ss[to].currently_running
  BY <1>1 DEF SlotState, ARMED_CANDIDATE_PRIORITY, ARMED_ACTIVE_PRIORITY, ConformantSlot
<1>5. r = [ss EXCEPT ![from] = p, ![to] = q]
  BY <1>2 DEF PromotedSlots
<1>6. r[from] = p /\ r[to] = q /\ r \in [Slots -> SlotState]
  <2> HIDE DEF p, q, r
  <2> QED  BY <1>2, <1>3, <1>5
<1>7. ConformantSlot(p) /\ ConformantSlot(q)
  BY <1>1, <1>4 DEF ConformantSlot
<1>8. ContractPair(r)
  <2>1. /\ r[from].role = "active" <=> r[to].role # "active"
        /\ r[from].currently_running = ~r[to].currently_running
    BY <1>1, <1>4, <1>6
  <2> HIDE DEF r, p, q
  <2> QED
    BY <1>2, <1>6, <1>7, <2>1, PairIntro
<1> HIDE DEF r, p, q
<1> QED
  BY <1>2, <1>4, <1>6, <1>8 DEF PendingPair, r

(* A failed attempt returns the processor to the known-good slot.          *)
LEMMA FellBackLemma ==
  ASSUME NEW ss, NEW from, NEW to, PendingPair(ss, from, to),
         ~ss[to].successful
  PROVE  LET r == FellBackSlots(ss, from, to) IN
         /\ PendingPair(r, from, to)
         /\ r[from].payload_digest = ss[from].payload_digest
         /\ r[from].boot_priority = ss[from].boot_priority
         /\ r[to].boot_priority = ss[to].boot_priority
         /\ r[to].state = "written"
         /\ r[to].payload_digest = ss[to].payload_digest
         /\ ~r[to].successful
         /\ r[to].tries_remaining = ss[to].tries_remaining
<1> DEFINE r == FellBackSlots(ss, from, to)
           p == [ss[from] EXCEPT !.currently_running = TRUE]
           q == [ss[to] EXCEPT !.currently_running = FALSE, !.state = "written",
                          !.last_probe_verdict = "fail"]
<1>1. /\ ss \in [Slots -> SlotState] /\ from \in Slots /\ to \in Slots /\ from # to
      /\ ss[from] \in SlotState /\ ss[to] \in SlotState
      /\ ConformantSlot(ss[from]) /\ ConformantSlot(ss[to])
      /\ ss[from].role = "active" /\ ss[to].role = "candidate"
      /\ ss[from].currently_running = ~ss[to].currently_running
  BY PendingFacts
<1>2. /\ ss \in [Slots -> SlotState] /\ from \in Slots /\ to \in Slots /\ from # to
      /\ ss[from] \in SlotState /\ ss[to] \in SlotState
  BY <1>1
<1>3. p \in SlotState /\ q \in SlotState
  <2>1. p \in SlotState
    BY <1>2, SlotRanges, Zenon DEF SlotState, ARMED_CANDIDATE_PRIORITY, ARMED_ACTIVE_PRIORITY
  <2>2. q \in SlotState
    BY <1>2, SlotRanges, Zenon DEF SlotState, ARMED_CANDIDATE_PRIORITY
  <2> QED  BY <2>1, <2>2
<1>4. /\ p.role = "active" /\ p.state = ss[from].state /\ p.successful
      /\ p.state # "unbootable" /\ p.boot_priority = ss[from].boot_priority
      /\ p.boot_priority >= 1
      /\ p.payload_digest = ss[from].payload_digest
      /\ p.currently_running = TRUE
      /\ q.role = "candidate" /\ q.state = "written"
      /\ q.boot_priority = ss[to].boot_priority
      /\ q.successful = FALSE
      /\ q.tries_remaining = ss[to].tries_remaining
      /\ q.payload_digest = ss[to].payload_digest
      /\ q.currently_running = FALSE
  BY <1>1 DEF SlotState, ARMED_CANDIDATE_PRIORITY, ARMED_ACTIVE_PRIORITY, ConformantSlot
<1>5. r = [ss EXCEPT ![from] = p, ![to] = q]
  BY <1>2 DEF FellBackSlots
<1>6. r[from] = p /\ r[to] = q /\ r \in [Slots -> SlotState]
  <2> HIDE DEF p, q, r
  <2> QED  BY <1>2, <1>3, <1>5
<1>7. ConformantSlot(p) /\ ConformantSlot(q)
  BY <1>1, <1>4 DEF ConformantSlot
<1>8. ContractPair(r)
  <2>1. /\ r[from].role = "active" <=> r[to].role # "active"
        /\ r[from].currently_running = ~r[to].currently_running
    BY <1>1, <1>4, <1>6
  <2> HIDE DEF r, p, q
  <2> QED
    BY <1>2, <1>6, <1>7, <2>1, PairIntro
<1> HIDE DEF r, p, q
<1> QED
  BY <1>2, <1>4, <1>6, <1>8 DEF PendingPair, r

(* A candidate given up is never selected again, and the fallback runs.    *)
LEMMA UnbootableLemma ==
  ASSUME NEW ss, NEW from, NEW to, PendingPair(ss, from, to)
  PROVE  LET r == UnbootableSlots(ss, from, to) IN
         /\ PendingPair(r, from, to)
         /\ r[from].payload_digest = ss[from].payload_digest
         /\ r[from].boot_priority = 15 /\ r[from].currently_running
         /\ r[to].boot_priority = 0 /\ ~r[to].successful
<1> DEFINE r == UnbootableSlots(ss, from, to)
           p == [ss[from] EXCEPT !.boot_priority = ARMED_CANDIDATE_PRIORITY,
                            !.currently_running = TRUE]
           q == [ss[to] EXCEPT !.state = "unbootable", !.boot_priority = 0,
                          !.tries_remaining = 0, !.successful = FALSE,
                          !.currently_running = ss[to].currently_running /\ ss[from].currently_running]
<1>1. /\ ss \in [Slots -> SlotState] /\ from \in Slots /\ to \in Slots /\ from # to
      /\ ss[from] \in SlotState /\ ss[to] \in SlotState
      /\ ConformantSlot(ss[from]) /\ ConformantSlot(ss[to])
      /\ ss[from].role = "active" /\ ss[to].role = "candidate"
      /\ ss[from].currently_running = ~ss[to].currently_running
  BY PendingFacts
<1>2. /\ ss \in [Slots -> SlotState] /\ from \in Slots /\ to \in Slots /\ from # to
      /\ ss[from] \in SlotState /\ ss[to] \in SlotState
  BY <1>1
<1>3. p \in SlotState /\ q \in SlotState
  <2>1. p \in SlotState
    BY <1>2, SlotRanges, Zenon DEF SlotState, ARMED_CANDIDATE_PRIORITY, ARMED_ACTIVE_PRIORITY
  <2>2. (ss[to].currently_running /\ ss[from].currently_running) \in BOOLEAN
    OBVIOUS
  <2>3. q \in SlotState
    BY <1>2, SlotRanges, <2>2, Zenon DEF SlotState, ARMED_CANDIDATE_PRIORITY
  <2> QED  BY <2>1, <2>3
<1>4. /\ p.role = "active" /\ p.state = ss[from].state /\ p.successful
      /\ p.state # "unbootable" /\ p.boot_priority = 15
      /\ p.payload_digest = ss[from].payload_digest
      /\ p.currently_running = TRUE
      /\ q.role = "candidate" /\ q.state = "unbootable" /\ q.boot_priority = 0
      /\ q.successful = FALSE /\ q.currently_running = FALSE
  BY <1>1 DEF SlotState, ARMED_CANDIDATE_PRIORITY, ARMED_ACTIVE_PRIORITY, ConformantSlot
<1>5. r = [ss EXCEPT ![from] = p, ![to] = q]
  BY <1>2 DEF UnbootableSlots
<1>6. r[from] = p /\ r[to] = q /\ r \in [Slots -> SlotState]
  <2> HIDE DEF p, q, r
  <2> QED  BY <1>2, <1>3, <1>5
<1>7. ConformantSlot(p) /\ ConformantSlot(q)
  BY <1>1, <1>4 DEF ConformantSlot
<1>8. ContractPair(r)
  <2>1. /\ r[from].role = "active" <=> r[to].role # "active"
        /\ r[from].currently_running = ~r[to].currently_running
    BY <1>1, <1>4, <1>6
  <2> HIDE DEF r, p, q
  <2> QED
    BY <1>2, <1>6, <1>7, <2>1, PairIntro
<1> HIDE DEF r, p, q
<1> QED
  BY <1>2, <1>4, <1>6, <1>8 DEF PendingPair, r

(* The watchdog takes the tries and nothing else.                          *)
LEMMA SpentLemma ==
  ASSUME NEW ss, NEW from, NEW to, PendingPair(ss, from, to)
  PROVE  LET r == SpentSlots(ss, to) IN
         /\ PendingPair(r, from, to)
         /\ r[from] = ss[from]
         /\ r[to] = [ss[to] EXCEPT !.tries_remaining = 0]
<1> DEFINE r == SpentSlots(ss, to)
           p == ss[from]
           q == [ss[to] EXCEPT !.tries_remaining = 0]
<1>1. /\ ss \in [Slots -> SlotState] /\ from \in Slots /\ to \in Slots /\ from # to
      /\ ss[from] \in SlotState /\ ss[to] \in SlotState
      /\ ConformantSlot(ss[from]) /\ ConformantSlot(ss[to])
      /\ ss[from].role = "active" /\ ss[to].role = "candidate"
      /\ ss[from].currently_running = ~ss[to].currently_running
  BY PendingFacts
<1>2. /\ ss \in [Slots -> SlotState] /\ from \in Slots /\ to \in Slots /\ from # to
      /\ ss[from] \in SlotState /\ ss[to] \in SlotState
  BY <1>1
<1>3. p \in SlotState /\ q \in SlotState
  <2>1. p \in SlotState
    BY <1>2, SlotRanges, Zenon DEF SlotState, ARMED_CANDIDATE_PRIORITY, ARMED_ACTIVE_PRIORITY
  <2>2. q \in SlotState
    BY <1>2, SlotRanges, Zenon DEF SlotState, ARMED_CANDIDATE_PRIORITY
  <2> QED  BY <2>1, <2>2
<1>4. /\ p.role = "active" /\ q.role = "candidate" /\ q.state = ss[to].state
      /\ q.boot_priority = ss[to].boot_priority /\ q.successful = ss[to].successful
      /\ q.payload_digest = ss[to].payload_digest
      /\ q.currently_running = ss[to].currently_running
  BY <1>1 DEF SlotState, ARMED_CANDIDATE_PRIORITY, ARMED_ACTIVE_PRIORITY, ConformantSlot
<1>5. r = [ss EXCEPT ![from] = p, ![to] = q]
  BY <1>2 DEF SpentSlots
<1>6. r[from] = p /\ r[to] = q /\ r \in [Slots -> SlotState]
  <2> HIDE DEF p, q, r
  <2> QED  BY <1>2, <1>3, <1>5
<1>7. ConformantSlot(p) /\ ConformantSlot(q)
  BY <1>1, <1>4 DEF ConformantSlot
<1>8. ContractPair(r)
  <2>1. /\ r[from].role = "active" <=> r[to].role # "active"
        /\ r[from].currently_running = ~r[to].currently_running
    BY <1>1, <1>4, <1>6
  <2> HIDE DEF r, p, q
  <2> QED
    BY <1>2, <1>6, <1>7, <2>1, PairIntro
<1> HIDE DEF r, p, q
<1> QED
  BY <1>2, <1>4, <1>6, <1>8 DEF PendingPair, r, p, q

------------------------------------------------------------------------------
(* The invariant.  A pending transaction fixes the roles of the slots, the  *)
(* payload it preserves and the one it installs; the phase fixes the state  *)
(* of the candidate and, from arming on, the priorities and the budget.     *)

PendingFields ==
  /\ PendingPair(slots, from_slot, to_slot)
  /\ slots[from_slot].payload_digest = preserved_digest
  /\ slots[to_slot].payload_digest = candidate_digest
  /\ candidate_digest \in Digests
  /\ ~slots[to_slot].successful

ArmedFields ==
  /\ slots[from_slot].boot_priority = 14
  /\ slots[to_slot].boot_priority = 15

(* What holds in each phase.                                                *)
PhaseFields ==
  /\ phase \in OpenPhases => PendingFields
  /\ phase \in {"idle", "writing", "candidate_ready"} => attempts = <<>>
  /\ phase \in {"candidate_ready", "armed"} => slots[to_slot].state = "written"
  /\ phase \in {"candidate_ready", "armed", "trying"} => installed[to_slot] = candidate_digest
  /\ phase \in {"armed", "trying"} => ArmedFields
  /\ phase = "armed"  => /\ slots[to_slot].tries_remaining > 0
                         /\ Len(attempts) + slots[to_slot].tries_remaining = MaxAttempts
  /\ phase = "trying" => /\ slots[to_slot].currently_running
                         /\ Len(attempts) + slots[to_slot].tries_remaining + 1 = MaxAttempts
  /\ Len(attempts) <= MaxAttempts
  /\ phase = "refused" => attempts # <<>>

(* A settled transaction has swapped the roles of the slots or has left     *)
(* them, and the running slot is the one the selector would take.           *)
SettledFields ==
  /\ phase = "promoted" =>
       /\ slots[to_slot].role = "active" /\ slots[to_slot].currently_running
       /\ slots[to_slot].boot_priority = 15 /\ slots[from_slot].boot_priority = 14
  /\ phase \in {"rolled_back", "refused"} =>
       /\ slots[from_slot].role = "active" /\ slots[from_slot].currently_running
       /\ slots[from_slot].boot_priority = 15 /\ slots[to_slot].boot_priority = 0
       /\ ~slots[to_slot].successful

(* The payload the transaction opened with stays where it was.              *)
PreservedFields ==
  phase # "idle" =>
    /\ from_slot \in Slots /\ to_slot \in Slots /\ from_slot # to_slot
    /\ slots[from_slot].payload_digest = preserved_digest
    /\ slots[from_slot].successful

ReasonFields ==
  /\ phase = "rolled_back" => rollback_reason \notin {NoReason, "attempts-exhausted"}
  /\ phase = "refused" => rollback_reason = "attempts-exhausted"
  /\ phase \notin {"rolled_back", "refused"} => rollback_reason = NoReason

IInv ==
  /\ TypeOK
  /\ ContractPair(slots)
  /\ NeverRaises
  /\ PhaseFields
  /\ SettledFields
  /\ PreservedFields
  /\ ReasonFields

(* The assertions the machine makes at the end of an event hold of a        *)
(* conforming pair whose fallback is preserved and, on trial, outranked.    *)
LEMMA AssertHolds ==
  ASSUME NEW ss, NEW from \in Slots, NEW preserved, NEW ph, ContractPair(ss),
         ss[from].payload_digest = preserved, ss[from].successful,
         ph \in {"armed", "trying"} =>
           \E to \in Slots : /\ from # to /\ ss[from].role = "active"
                             /\ ss[to].boot_priority = 15 /\ ss[from].boot_priority = 14
  PROVE  AssertInvariants(ss, ph, from, preserved)
<1>1. OneRunning(ss) /\ OneActive(ss) /\ \A s \in Slots : ConformantSlot(ss[s])
  BY DEF ContractPair
<1>2. \A s \in Slots : ss[s].role \in {"active", "candidate"}
  BY DEF ContractPair, SlotState
<1>3. \A s \in Slots : /\ ss[s].state = "writing" => ss[s].role = "candidate"
                       /\ ss[s].state = "unbootable" => ss[s].boot_priority = 0
  BY <1>1 DEF ConformantSlot
<1>4. ASSUME ph \in {"armed", "trying"}
      PROVE  /\ ss[CandidateOf(ss)].boot_priority > ss[ActiveOf(ss)].boot_priority
             /\ ss[ActiveOf(ss)].boot_priority >= 1
  <2>1. PICK to \in Slots : /\ from # to /\ ss[from].role = "active"
                            /\ ss[to].boot_priority = 15 /\ ss[from].boot_priority = 14
    BY <1>4
  <2>2. ActiveOf(ss) = from
    BY <1>1, <1>2, <2>1, RolesLemma
  <2>3. CandidateOf(ss) = to
    BY <1>1, <1>2, <2>1, <2>2, RolesLemma DEF Slots
  <2> QED  BY <2>1, <2>2, <2>3
<1> QED
  BY <1>1, <1>3, <1>4 DEF AssertInvariants

(* In a pending pair the slot in role candidate is the write target.        *)
LEMMA PendingRoles ==
  ASSUME NEW ss, NEW from, NEW to, PendingPair(ss, from, to)
  PROVE  ActiveOf(ss) = from /\ CandidateOf(ss) = to
<1>1. OneActive(ss) /\ \A s \in Slots : ss[s].role \in {"active", "candidate"}
  BY DEF PendingPair, ContractPair, SlotState
<1>2. from \in Slots /\ to \in Slots /\ from # to /\ ss[from].role = "active"
  BY DEF PendingPair
<1>3. \A s \in Slots : s = from \/ s = to
  BY <1>2 DEF Slots
<1> QED
  BY <1>1, <1>2, <1>3, RolesLemma

(* The target the machine is built on obeys the contract.                   *)
ContractTarget == \A ss \in InitialSlots : ContractPair(ss)

LEMMA InitInvariant ==
  ASSUME ContractTarget, Init
  PROVE  IInv
<1>1. ContractPair(slots) /\ slots \in [Slots -> SlotState]
  BY DEF Init, ContractTarget, ContractPair
<1>2. installed \in [Slots -> Digests \cup {NoDigest, Partial}]
  <2>1. \A s \in Slots : slots[s].payload_digest \in Digests \cup {NoDigest}
    BY <1>1 DEF SlotState
  <2> QED  BY <2>1 DEF Init
<1>3. attempts = <<>> /\ attempts \in Seq(AttemptRecord) /\ Len(attempts) = 0
  BY DEF Init
<1>4. TypeOK
  BY <1>1, <1>2, <1>3, MaxClockAssumption DEF Init, TypeOK, PHASES, Reply
<1>5. PhaseFields
  BY <1>3, MaxAttemptsAssumption DEF Init, PhaseFields, OpenPhases
<1>6. NeverRaises
  BY DEF Init, NeverRaises, Reply
<1>7. SettledFields /\ PreservedFields /\ ReasonFields
  BY DEF Init, SettledFields, PreservedFields, ReasonFields
<1> QED
  BY <1>1, <1>4, <1>5, <1>6, <1>7 DEF IInv

------------------------------------------------------------------------------
(* Nothing is lost between to_slot_documents and slot_from_document.        *)
LEMMA SlotRoundTrip ==
  ASSUME NEW slot \in SlotState
  PROVE  SlotFromDocument(ToSlotDocument(slot)) = slot
<1> DEFINE doc == ToSlotDocument(slot)
<1>1. \A f : f \in DOMAIN doc <=>
               /\ f \in {"role", "state", "bootPriority", "triesRemaining", "successful",
                         "currentlyRunning", "payloadDigest", "lastProbeVerdict"}
               /\ ~Omits(slot, f)
  BY DEF ToSlotDocument
<1>2. /\ doc["role"] = slot.role /\ doc["state"] = slot.state
      /\ doc["bootPriority"] = slot.boot_priority
      /\ doc["triesRemaining"] = slot.tries_remaining
      /\ doc["successful"] = slot.successful
      /\ doc["currentlyRunning"] = slot.currently_running
  BY DEF ToSlotDocument, Omits
<1>3. FieldOr(doc, "payloadDigest", NoDigest) = slot.payload_digest
  <2>1. slot.payload_digest # NoDigest => doc["payloadDigest"] = slot.payload_digest
    BY DigestsAssumption DEF ToSlotDocument, Omits, SlotState
  <2>2. "payloadDigest" \in DOMAIN doc <=> slot.payload_digest # NoDigest
    BY <1>1, DigestsAssumption DEF Omits, SlotState
  <2> HIDE DEF doc
  <2> QED  BY <2>1, <2>2 DEF FieldOr
<1>4. FieldOr(doc, "lastProbeVerdict", "none") = slot.last_probe_verdict
  <2>1. slot.last_probe_verdict # "none" => doc["lastProbeVerdict"] = slot.last_probe_verdict
    BY DEF ToSlotDocument, Omits
  <2>2. "lastProbeVerdict" \in DOMAIN doc <=> slot.last_probe_verdict # "none"
    BY <1>1 DEF Omits
  <2> HIDE DEF doc
  <2> QED  BY <2>1, <2>2 DEF FieldOr
<1> HIDE DEF doc
<1>5. SlotFromDocument(doc) =
        [role |-> slot.role, state |-> slot.state,
         boot_priority |-> slot.boot_priority, tries_remaining |-> slot.tries_remaining,
         successful |-> slot.successful, currently_running |-> slot.currently_running,
         payload_digest |-> slot.payload_digest,
         last_probe_verdict |-> slot.last_probe_verdict]
  BY <1>2, <1>3, <1>4 DEF SlotFromDocument
<1> QED  BY <1>5 DEF SlotState, doc

LEMMA RoundTrip ==
  ASSUME NEW ss \in [Slots -> SlotState]
  PROVE  ReadSlots(Documents(ss)) = ss
<1>1. \A s \in Slots : ReadSlots(Documents(ss))[s] = ss[s]
  BY SlotRoundTrip DEF ReadSlots, Documents
<1> QED  BY <1>1 DEF ReadSlots, Documents

(* The environment of a machine keeps its types, whatever the machine.      *)
MediaOK ==
  /\ installed \in [Slots -> Digests \cup {NoDigest, Partial}]
  /\ now \in 0..MaxClock
  /\ handed_at \in 0..MaxClock

(* A machine built on a conforming pair starts in the invariant, whatever   *)
(* the media hold: no transaction speaks of them yet.                       *)
LEMMA ConstructInvariant ==
  ASSUME MediaOK', NEW ss, ContractPair(ss), Construct(ss)
  PROVE  IInv'
<1>1. /\ slots' = ss /\ ss \in [Slots -> SlotState]
      /\ phase' = "idle" /\ attempts' = <<>> /\ candidate_digest' = Unset
      /\ preserved_digest' = Unset /\ rollback_reason' = NoReason
      /\ from_slot' = NoSlot /\ to_slot' = NoSlot
      /\ reply' = Reply("none", NoSlot)
  BY DEF Construct, ContractPair
<1>2. ContractPair(slots)'
  BY <1>1
<1>3. TypeOK'
  <2>1. <<>> \in Seq(AttemptRecord)
    OBVIOUS
  <2> QED  BY <1>1, <2>1 DEF TypeOK, MediaOK, PHASES, Reply
<1>4. NeverRaises'
  BY <1>1 DEF NeverRaises, Reply
<1>5. PhaseFields' /\ SettledFields' /\ PreservedFields' /\ ReasonFields'
  <2>1. Len(<<>>) = 0
    OBVIOUS
  <2> QED  BY <1>1, <2>1, MaxAttemptsAssumption
           DEF PhaseFields, SettledFields, PreservedFields, ReasonFields, OpenPhases
<1> QED  BY <1>2, <1>3, <1>4, <1>5 DEF IInv

------------------------------------------------------------------------------
(* What it means that a rule admits an event.                               *)
LEMMA OfferFacts ==
  ASSUME NEW event, NEW d, NEW ss, NEW rule \in Offer(event, d, ss)
  PROVE  LET tries == ss[CandidateOf(ss)].tries_remaining IN
         /\ event = "begin" => phase = "idle" /\ rule.to_phase = "writing"
         /\ event = "write_complete" =>
              /\ phase = "writing"
              /\ \/ rule.to_phase = "candidate_ready" /\ d = candidate_digest
                 \/ rule.to_phase = "rolled_back"
         /\ event = "write_failed" => phase = "writing" /\ rule.to_phase = "rolled_back"
         /\ event = "arm" => phase = "candidate_ready" /\ rule.to_phase = "armed"
         /\ event = "boot_attempt" => phase = "armed" /\ rule.to_phase = "trying" /\ tries > 0
         /\ event = "probe_pass" => phase = "trying" /\ rule.to_phase = "promoted"
         /\ event \in {"probe_fail", "watchdog_expired"} =>
              /\ phase = "trying"
              /\ \/ rule.to_phase = "armed" /\ tries > 0
                 \/ rule.to_phase = "refused" /\ tries = 0
         /\ event = "operator_abort" => phase \in OpenPhases /\ rule.to_phase = "rolled_back"
<1>1. /\ rule \in TRANSITION_TABLE /\ rule.event = event /\ rule.from_phase = phase
      /\ GuardHolds(rule.guard, d, ss)
      /\ event = "boot_attempt" => ss[CandidateOf(ss)].tries_remaining > 0
  BY DEF Offer
<1> QED
  BY <1>1 DEF TRANSITION_TABLE, Rule, GuardHolds, OpenPhases

(* A handler whose assertions hold returns.                                 *)
LEMMA ConcludeReturns ==
  ASSUME NEW ss, NEW ph, NEW from, NEW preserved, NEW back \in Slots \cup {NoSlot},
         Conclude(ss, ph, from, preserved, back), AssertInvariants(ss, ph, from, preserved)
  PROVE  /\ slots' = ss /\ phase' = ph
         /\ reply' = Reply("allowed", back)
         /\ NeverRaises'
         /\ reply' \in [outcome : {"none", "allowed", "refused", "raised"},
                        fell_back_to : Slots \cup {NoSlot}]
BY DEF Conclude, Reply, NeverRaises

(* A new entry of the ledger is well-formed.                                *)
LEMMA RecordTyped ==
  ASSUME attempts \in Seq(AttemptRecord), Len(attempts) < 7, now \in 0..MaxClock,
         NEW ss, NEW from, NEW to, PendingPair(ss, from, to),
         NEW result \in Results, NEW back \in Slots \cup {NoSlot},
         RecordAttempt(result, back, ss)
  PROVE  attempts' \in Seq(AttemptRecord) /\ Len(attempts') = Len(attempts) + 1
<1> DEFINE entry == [attempt_number        |-> Len(attempts) + 1,
                     started_at            |-> now,
                     result                |-> result,
                     fell_back_to          |-> back,
                     tries_remaining_after |-> ss[CandidateOf(ss)].tries_remaining]
<1>1. ss[CandidateOf(ss)].tries_remaining \in 0..7
  BY PendingRoles, PendingFacts DEF SlotState
<1>2. Len(attempts) + 1 \in 1..7 /\ now \in Nat
  BY MaxClockAssumption
<1>3. entry \in AttemptRecord
  BY <1>1, <1>2 DEF AttemptRecord
<1>4. attempts' = Append(attempts, entry)
  BY DEF RecordAttempt
<1> HIDE DEF entry
<1> QED  BY <1>3, <1>4

------------------------------------------------------------------------------
(* Every event keeps the invariant.                                         *)

LEMMA BeginStep ==
  ASSUME IInv, NEW d \in Digests, Begin(d)
  PROVE  IInv'
<1> DEFINE from == ActiveOf(slots)
           to   == CandidateOf(slots)
           r    == WritingSlots(slots, to, d)
           preserved == slots[from].payload_digest
<1>1. PICK rule \in Offer("begin", NoDigest, slots) :
        LET kept == IF preserved = NoDigest THEN Unset ELSE preserved IN
        /\ from_slot' = from /\ to_slot' = to
        /\ preserved_digest' = kept /\ candidate_digest' = d
        /\ Conclude(r, rule.to_phase, from, kept, NoSlot)
        /\ installed' = [installed EXCEPT ![to] = Partial]
        /\ UNCHANGED <<attempts, rollback_reason, now, handed_at>>
  BY DEF Begin
<1>2. phase = "idle" /\ rule.to_phase = "writing"
  BY <1>1, OfferFacts
<1>3. TypeOK /\ ContractPair(slots) /\ attempts = <<>> /\ Len(attempts) <= MaxAttempts
  BY <1>2 DEF IInv, PhaseFields
<1>4. PendingPair(slots, from, to)
  <2>1. OneActive(slots) /\ \A s \in Slots : slots[s].role \in {"active", "candidate"}
    BY <1>3 DEF ContractPair, SlotState
  <2> QED  BY <1>3, <2>1, RolesLemma DEF PendingPair
<1>5. preserved \in Digests
  <2>1. slots[from] \in SlotState /\ ConformantSlot(slots[from]) /\ slots[from].role = "active"
    BY <1>4, PendingFacts
  <2> QED  BY <2>1 DEF ConformantSlot, SlotState
<1>6. preserved_digest' = preserved /\ Conclude(r, "writing", from, preserved, NoSlot)
  BY <1>1, <1>2, <1>5, DigestsAssumption
<1>7. /\ PendingPair(r, from, to) /\ r[from].payload_digest = preserved
      /\ r[to].payload_digest = d /\ ~r[to].successful
  BY <1>4, WritingLemma
<1>8. ContractPair(r) /\ from \in Slots /\ to \in Slots /\ r[from].successful
  BY <1>7, PendingFacts DEF PendingPair, ConformantSlot
<1>9. AssertInvariants(r, "writing", from, preserved)
  BY <1>7, <1>8, AssertHolds
<1> HIDE DEF r, from, to, preserved
<1>10. /\ slots' = r /\ phase' = "writing" /\ NeverRaises'
       /\ reply' \in [outcome : {"none", "allowed", "refused", "raised"},
                      fell_back_to : Slots \cup {NoSlot}]
  BY <1>6, <1>9, ConcludeReturns
<1>11. TypeOK'
  BY <1>1, <1>3, <1>5, <1>6, <1>8, <1>10 DEF TypeOK, PHASES, ContractPair
<1>12. PhaseFields'
  <2>1. /\ from_slot' = from /\ to_slot' = to /\ candidate_digest' = d
        /\ attempts' = <<>> /\ Len(attempts') <= MaxAttempts
    BY <1>1, <1>3
  <2>2. PendingFields'
    BY <2>1, <1>6, <1>7, <1>10 DEF PendingFields
  <2> QED  BY <2>1, <2>2, <1>10 DEF PhaseFields
<1>13. SettledFields' /\ PreservedFields' /\ ReasonFields'
  <2>1. /\ from_slot' = from /\ to_slot' = to /\ from # to
        /\ r[from].payload_digest = preserved_digest' /\ r[from].successful
    BY <1>1, <1>6, <1>7, <1>8 DEF PendingPair
  <2>2. rollback_reason' = NoReason
    BY <1>1, <1>2 DEF IInv, ReasonFields
  <2>3. to \in Slots
    BY <1>7 DEF PendingPair
  <2> QED
    BY <1>8, <1>10, <2>1, <2>2, <2>3 DEF SettledFields, PreservedFields, ReasonFields
<1> QED
  BY <1>8, <1>10, <1>11, <1>12, <1>13 DEF IInv

(* What the invariant says of a pending transaction, for the steps below.   *)
LEMMA PendingInvariant ==
  ASSUME IInv, phase \in OpenPhases
  PROVE  /\ TypeOK /\ PendingFields
         /\ PendingPair(slots, from_slot, to_slot)
         /\ from_slot \in Slots /\ to_slot \in Slots /\ from_slot # to_slot
         /\ slots[from_slot].payload_digest = preserved_digest
         /\ slots[to_slot].payload_digest = candidate_digest
         /\ candidate_digest \in Digests
         /\ ~slots[to_slot].successful
         /\ CandidateOf(slots) = to_slot
BY PendingRoles, PendingFacts DEF IInv, PhaseFields, PendingFields

(* A transaction given up: what UnbootableSlots leaves is conforming, so    *)
(* the settled machine keeps the invariant.                                 *)
LEMMA GivenUpStep ==
  ASSUME IInv, phase \in OpenPhases, NEW ss, PendingPair(ss, from_slot, to_slot),
         ss[from_slot].payload_digest = preserved_digest,
         NEW ph \in {"rolled_back", "refused"},
         Return(UnbootableSlots(ss, from_slot, to_slot), ph, from_slot),
         rollback_reason' \in ROLLBACK_REASONS,
         ph = "refused" <=> rollback_reason' = "attempts-exhausted",
         UNCHANGED <<Opened, now, handed_at>>,
         installed' \in [Slots -> Digests \cup {NoDigest, Partial}],
         attempts' \in Seq(AttemptRecord), Len(attempts') <= MaxAttempts,
         ph = "refused" => attempts' # <<>>
  PROVE  IInv'
<1> DEFINE r == UnbootableSlots(ss, from_slot, to_slot)
<1>1. TypeOK /\ from_slot \in Slots
  BY PendingInvariant
<1>2. /\ PendingPair(r, from_slot, to_slot)
      /\ r[from_slot].payload_digest = preserved_digest
      /\ r[from_slot].boot_priority = 15 /\ r[from_slot].currently_running
      /\ r[to_slot].boot_priority = 0 /\ ~r[to_slot].successful
  BY UnbootableLemma
<1>3. ContractPair(r) /\ r[from_slot].successful /\ r \in [Slots -> SlotState]
  <2> HIDE DEF r
  <2>1. ContractPair(r)
    BY <1>2 DEF PendingPair
  <2>2. /\ r \in [Slots -> SlotState]
        /\ ConformantSlot(r[from_slot]) /\ r[from_slot].role = "active"
    BY <1>2, PendingFacts
  <2> QED  BY <2>1, <2>2 DEF ConformantSlot
<1>4. AssertInvariants(r, ph, from_slot, preserved_digest)
  BY <1>1, <1>2, <1>3, AssertHolds
<1>5. Conclude(r, ph, from_slot, preserved_digest, from_slot)
  BY DEF Return
<1> HIDE DEF r
<1>6. /\ slots' = r /\ phase' = ph /\ NeverRaises'
      /\ reply' \in [outcome : {"none", "allowed", "refused", "raised"},
                     fell_back_to : Slots \cup {NoSlot}]
  BY <1>1, <1>4, <1>5, ConcludeReturns
<1>7. TypeOK'
  <2>1. rollback_reason' \in ROLLBACK_REASONS \cup {NoReason}
    OBVIOUS
  <2> QED  BY <1>1, <1>3, <1>6, <2>1 DEF TypeOK, PHASES, Opened
<1>8. PhaseFields'
  BY <1>6 DEF PhaseFields, OpenPhases
<1>9. /\ from_slot' = from_slot /\ to_slot' = to_slot
      /\ preserved_digest' = preserved_digest
      /\ to_slot \in Slots /\ from_slot # to_slot /\ r[from_slot].role = "active"
  BY <1>2 DEF Opened, PendingPair
<1>10. SettledFields' /\ PreservedFields'
  BY <1>1, <1>2, <1>3, <1>6, <1>9 DEF SettledFields, PreservedFields
<1>11. ReasonFields'
  BY <1>6 DEF ReasonFields, ROLLBACK_REASONS, NoReason
<1> QED
  BY <1>3, <1>6, <1>7, <1>8, <1>10, <1>11 DEF IInv

(* A transaction that goes on: a conforming pair in the same roles, with    *)
(* what its new phase asks of it, keeps the invariant.                      *)
LEMMA GoesOnStep ==
  ASSUME IInv, phase \in OpenPhases, NEW r, PendingPair(r, from_slot, to_slot),
         r[from_slot].payload_digest = preserved_digest,
         r[to_slot].payload_digest = candidate_digest,
         ~r[to_slot].successful,
         NEW ph \in {"candidate_ready", "armed", "trying"},
         NEW back \in Slots \cup {NoSlot},
         Return(r, ph, back),
         UNCHANGED <<Opened, rollback_reason, now>>,
         handed_at' \in 0..MaxClock,
         installed' \in [Slots -> Digests \cup {NoDigest, Partial}],
         attempts' \in Seq(AttemptRecord), Len(attempts') <= MaxAttempts,
         installed'[to_slot] = candidate_digest,
         ph = "candidate_ready" => attempts' = <<>>,
         ph \in {"candidate_ready", "armed"} => r[to_slot].state = "written",
         ph \in {"armed", "trying"} =>
           r[from_slot].boot_priority = 14 /\ r[to_slot].boot_priority = 15,
         ph = "armed"  => /\ r[to_slot].tries_remaining > 0
                          /\ Len(attempts') + r[to_slot].tries_remaining = MaxAttempts,
         ph = "trying" => /\ r[to_slot].currently_running
                          /\ Len(attempts') + r[to_slot].tries_remaining + 1 = MaxAttempts
  PROVE  IInv'
<1>1. TypeOK /\ candidate_digest \in Digests
  BY PendingInvariant
<1>2. /\ from_slot \in Slots /\ to_slot \in Slots /\ from_slot # to_slot
      /\ r \in [Slots -> SlotState]
      /\ ConformantSlot(r[from_slot]) /\ r[from_slot].role = "active"
  BY PendingFacts
<1>3. ContractPair(r)
  BY DEF PendingPair
<1>4. r[from_slot].successful
  BY <1>2 DEF ConformantSlot
<1>5. AssertInvariants(r, ph, from_slot, preserved_digest)
  BY <1>2, <1>3, <1>4, AssertHolds
<1>6. Conclude(r, ph, from_slot, preserved_digest, back)
  BY DEF Return
<1>7. /\ slots' = r /\ phase' = ph /\ NeverRaises'
      /\ reply' \in [outcome : {"none", "allowed", "refused", "raised"},
                     fell_back_to : Slots \cup {NoSlot}]
  BY <1>5, <1>6, ConcludeReturns
<1>8. /\ from_slot' = from_slot /\ to_slot' = to_slot
      /\ preserved_digest' = preserved_digest /\ candidate_digest' = candidate_digest
      /\ rollback_reason' = rollback_reason /\ now' = now
  BY DEF Opened
<1>9. TypeOK'
  BY <1>1, <1>2, <1>7, <1>8 DEF TypeOK, PHASES
<1>10. PendingFields'
  BY <1>1, <1>7, <1>8 DEF PendingFields
<1>11. PhaseFields'
  BY <1>7, <1>8, <1>10 DEF PhaseFields, ArmedFields
<1>12. SettledFields' /\ PreservedFields' /\ ReasonFields'
  <2>1. rollback_reason = NoReason
    BY DEF IInv, ReasonFields, OpenPhases
  <2> QED
    BY <1>2, <1>4, <1>7, <1>8, <2>1 DEF SettledFields, PreservedFields, ReasonFields
<1> QED
  BY <1>3, <1>7, <1>9, <1>11, <1>12 DEF IInv

LEMMA WriteCompleteStep ==
  ASSUME IInv, NEW d \in Digests, WriteComplete(d)
  PROVE  IInv'
<1>1. PICK rule \in Offer("write_complete", d, slots) :
        /\ \/ /\ rule.to_phase = "rolled_back"
              /\ rollback_reason' = "digest-mismatch"
              /\ Return(UnbootableSlots(slots, from_slot, to_slot), rule.to_phase, from_slot)
           \/ /\ rule.to_phase # "rolled_back"
              /\ Return(WrittenSlots(slots, to_slot), rule.to_phase, NoSlot)
              /\ UNCHANGED rollback_reason
        /\ installed' = [installed EXCEPT ![to_slot] = d]
        /\ UNCHANGED <<Opened, attempts, now, handed_at>>
  BY DEF WriteComplete
<1>2. phase = "writing" /\ rule.to_phase \in {"candidate_ready", "rolled_back"}
  BY <1>1, OfferFacts
<1>3. phase \in OpenPhases
  BY <1>2 DEF OpenPhases
<1>4. /\ TypeOK /\ PendingPair(slots, from_slot, to_slot) /\ to_slot \in Slots
      /\ slots[from_slot].payload_digest = preserved_digest
      /\ slots[to_slot].payload_digest = candidate_digest
      /\ ~slots[to_slot].successful
  BY <1>3, PendingInvariant
<1>5. attempts = <<>> /\ Len(attempts) <= MaxAttempts
  BY <1>2 DEF IInv, PhaseFields
<1>6. /\ installed' \in [Slots -> Digests \cup {NoDigest, Partial}]
      /\ attempts' = <<>> /\ attempts' \in Seq(AttemptRecord) /\ Len(attempts') <= MaxAttempts
      /\ UNCHANGED <<Opened, now, handed_at>> /\ handed_at' \in 0..MaxClock
  BY <1>1, <1>4, <1>5 DEF TypeOK
<1>7. CASE rule.to_phase = "rolled_back"
  <2>1. /\ rollback_reason' \in ROLLBACK_REASONS
        /\ rollback_reason' # "attempts-exhausted"
        /\ Return(UnbootableSlots(slots, from_slot, to_slot), "rolled_back", from_slot)
    BY <1>1, <1>7 DEF ROLLBACK_REASONS
  <2> QED  BY <1>3, <1>4, <1>6, <2>1, GivenUpStep
<1>8. CASE rule.to_phase = "candidate_ready"
  <2>1. /\ UNCHANGED rollback_reason
        /\ Return(WrittenSlots(slots, to_slot), "candidate_ready", NoSlot)
    BY <1>1, <1>8
  <2> DEFINE r == WrittenSlots(slots, to_slot)
  <2>2. /\ PendingPair(r, from_slot, to_slot)
        /\ r[from_slot].payload_digest = preserved_digest
        /\ r[to_slot].payload_digest = candidate_digest
        /\ r[to_slot].state = "written" /\ ~r[to_slot].successful
    BY <1>4, WrittenLemma
  <2>3. installed'[to_slot] = candidate_digest
    BY <1>1, <1>4, <1>8, OfferFacts DEF TypeOK
  <2> HIDE DEF r
  <2> QED  BY <1>3, <1>6, <2>1, <2>2, <2>3, GoesOnStep DEF r
<1> QED  BY <1>2, <1>7, <1>8

LEMMA WriteFailedStep ==
  ASSUME IInv, WriteFailed
  PROVE  IInv'
<1>1. PICK rule \in Offer("write_failed", NoDigest, slots) :
        /\ rollback_reason' = "write-failed"
        /\ Return(UnbootableSlots(slots, from_slot, to_slot), rule.to_phase, from_slot)
        /\ UNCHANGED <<Opened, attempts, environment>>
  BY DEF WriteFailed
<1>2. phase \in OpenPhases /\ rule.to_phase = "rolled_back"
  BY <1>1, OfferFacts DEF OpenPhases
<1>3. /\ TypeOK /\ PendingPair(slots, from_slot, to_slot)
      /\ slots[from_slot].payload_digest = preserved_digest
  BY <1>2, PendingInvariant
<1>4. /\ Return(UnbootableSlots(slots, from_slot, to_slot), "rolled_back", from_slot)
      /\ rollback_reason' \in ROLLBACK_REASONS
      /\ rollback_reason' # "attempts-exhausted"
      /\ UNCHANGED <<Opened, now, handed_at>>
      /\ installed' \in [Slots -> Digests \cup {NoDigest, Partial}]
      /\ attempts' \in Seq(AttemptRecord) /\ Len(attempts') <= MaxAttempts
  BY <1>1, <1>2, <1>3 DEF TypeOK, environment, ROLLBACK_REASONS, IInv, PhaseFields
<1> QED
  BY <1>2, <1>3, <1>4, GivenUpStep

LEMMA ArmStep ==
  ASSUME IInv, Arm
  PROVE  IInv'
<1> DEFINE r == ArmedSlots(slots, from_slot, to_slot)
<1>1. PICK rule \in Offer("arm", NoDigest, slots) :
        /\ Return(r, rule.to_phase, NoSlot)
        /\ UNCHANGED <<Opened, attempts, rollback_reason, environment>>
  BY DEF Arm
<1>2. phase = "candidate_ready" /\ rule.to_phase = "armed"
  BY <1>1, OfferFacts
<1>3. phase \in OpenPhases
  BY <1>2 DEF OpenPhases
<1>4. /\ TypeOK /\ PendingPair(slots, from_slot, to_slot)
      /\ slots[from_slot].payload_digest = preserved_digest
      /\ slots[to_slot].payload_digest = candidate_digest
      /\ slots[to_slot].state = "written" /\ attempts = <<>>
      /\ installed[to_slot] = candidate_digest
  BY <1>2, <1>3, PendingInvariant DEF IInv, PhaseFields
<1>5. /\ PendingPair(r, from_slot, to_slot)
      /\ r[from_slot].payload_digest = preserved_digest
      /\ r[to_slot].payload_digest = candidate_digest
      /\ r[from_slot].boot_priority = 14 /\ r[to_slot].boot_priority = 15
      /\ r[to_slot].state = "written" /\ ~r[to_slot].successful
      /\ r[to_slot].tries_remaining = MaxAttempts
  BY <1>4, ArmedLemma
<1>6. /\ UNCHANGED <<Opened, rollback_reason, now>> /\ handed_at' \in 0..MaxClock
      /\ installed' \in [Slots -> Digests \cup {NoDigest, Partial}]
      /\ attempts' \in Seq(AttemptRecord) /\ Len(attempts') = 0
      /\ installed'[to_slot] = candidate_digest
  BY <1>1, <1>4 DEF TypeOK, environment
<1> HIDE DEF r
<1> QED
  BY <1>1, <1>2, <1>3, <1>5, <1>6, MaxAttemptsAssumption, GoesOnStep

LEMMA BootAttemptStep ==
  ASSUME IInv, BootAttempt
  PROVE  IInv'
<1> DEFINE r == TrialSlots(slots, from_slot, to_slot)
<1>1. PICK rule \in Offer("boot_attempt", NoDigest, slots) :
        /\ Return(r, rule.to_phase, NoSlot)
        /\ handed_at' = now
        /\ UNCHANGED <<Opened, attempts, rollback_reason, installed, now>>
  BY DEF BootAttempt
<1>2. phase = "armed" /\ rule.to_phase = "trying"
  BY <1>1, OfferFacts
<1>3. phase \in OpenPhases
  BY <1>2 DEF OpenPhases
<1>4. /\ TypeOK /\ PendingPair(slots, from_slot, to_slot)
      /\ slots[from_slot].payload_digest = preserved_digest
      /\ slots[to_slot].payload_digest = candidate_digest
      /\ ~slots[to_slot].successful
  BY <1>3, PendingInvariant
<1>5. /\ slots[to_slot].state = "written" /\ installed[to_slot] = candidate_digest
      /\ slots[from_slot].boot_priority = 14 /\ slots[to_slot].boot_priority = 15
      /\ slots[to_slot].tries_remaining > 0 /\ Len(attempts) <= MaxAttempts
      /\ Len(attempts) + slots[to_slot].tries_remaining = MaxAttempts
  BY <1>2 DEF IInv, PhaseFields, ArmedFields
<1>6. /\ PendingPair(r, from_slot, to_slot)
      /\ r[from_slot].payload_digest = preserved_digest
      /\ r[to_slot].payload_digest = candidate_digest
      /\ r[from_slot].boot_priority = 14 /\ r[to_slot].boot_priority = 15
      /\ ~r[to_slot].successful /\ r[to_slot].currently_running
      /\ r[to_slot].tries_remaining = slots[to_slot].tries_remaining - 1
  BY <1>4, <1>5, TrialLemma
<1>7. slots[to_slot].tries_remaining \in 0..7
  BY <1>4, PendingFacts DEF SlotState
<1>8. /\ UNCHANGED <<Opened, rollback_reason, now>> /\ handed_at' \in 0..MaxClock
      /\ installed' \in [Slots -> Digests \cup {NoDigest, Partial}]
      /\ attempts' \in Seq(AttemptRecord) /\ attempts' = attempts
      /\ installed'[to_slot] = candidate_digest
  BY <1>1, <1>4, <1>5 DEF TypeOK
<1> HIDE DEF r
<1>9. Len(attempts') + r[to_slot].tries_remaining + 1 = MaxAttempts
  BY <1>5, <1>6, <1>7, <1>8, MaxAttemptsAssumption
<1> QED
  BY <1>1, <1>2, <1>3, <1>5, <1>6, <1>8, <1>9, GoesOnStep

(* What holds of a trial under way: there is room for its entry.            *)
LEMMA TrialInvariant ==
  ASSUME IInv, phase = "trying"
  PROVE  /\ phase \in OpenPhases
         /\ slots[to_slot].tries_remaining \in 0..7
         /\ Len(attempts) < MaxAttempts /\ Len(attempts) < 7
         /\ attempts \in Seq(AttemptRecord) /\ now \in 0..MaxClock
         /\ Len(attempts) + slots[to_slot].tries_remaining + 1 = MaxAttempts
         /\ slots[to_slot].currently_running
         /\ installed[to_slot] = candidate_digest
         /\ slots[from_slot].boot_priority = 14 /\ slots[to_slot].boot_priority = 15
<1>1. phase \in OpenPhases
  BY DEF OpenPhases
<1>2. TypeOK /\ PendingPair(slots, from_slot, to_slot)
  BY <1>1, PendingInvariant
<1>3. slots[to_slot].tries_remaining \in 0..7
  BY <1>2, PendingFacts DEF SlotState
<1>4. /\ Len(attempts) + slots[to_slot].tries_remaining + 1 = MaxAttempts
      /\ slots[to_slot].currently_running /\ installed[to_slot] = candidate_digest
      /\ slots[from_slot].boot_priority = 14 /\ slots[to_slot].boot_priority = 15
  BY DEF IInv, PhaseFields, ArmedFields
<1>5. attempts \in Seq(AttemptRecord) /\ now \in 0..MaxClock /\ Len(attempts) \in Nat
  BY <1>2 DEF TypeOK
<1>6. Len(attempts) < MaxAttempts /\ Len(attempts) < 7
  <2>1. Len(attempts) + slots[to_slot].tries_remaining + 1 = MaxAttempts
    BY <1>4
  <2> QED
    BY <1>3, <1>5, <2>1, BudgetLeft, Zenon
<1> QED
  BY <1>1, <1>3, <1>4, <1>5, <1>6

LEMMA ProbePassStep ==
  ASSUME IInv, ProbePass
  PROVE  IInv'
<1> DEFINE r == PromotedSlots(slots, from_slot, to_slot)
<1>1. PICK rule \in Offer("probe_pass", NoDigest, slots) :
        /\ RecordAttempt("pass", NoSlot, slots)
        /\ rollback_reason' = NoReason
        /\ Return(r, rule.to_phase, NoSlot)
        /\ UNCHANGED <<Opened, environment>>
  BY DEF ProbePass
<1>2. phase = "trying" /\ rule.to_phase = "promoted"
  BY <1>1, OfferFacts
<1>3. /\ phase \in OpenPhases /\ Len(attempts) < MaxAttempts /\ Len(attempts) < 7
      /\ attempts \in Seq(AttemptRecord) /\ now \in 0..MaxClock
      /\ slots[to_slot].currently_running
  BY <1>2, TrialInvariant
<1>4. /\ TypeOK /\ PendingPair(slots, from_slot, to_slot)
      /\ from_slot \in Slots /\ to_slot \in Slots /\ from_slot # to_slot
      /\ slots[from_slot].payload_digest = preserved_digest
      /\ slots[to_slot].payload_digest \in Digests
  BY <1>3, PendingInvariant
<1>5. /\ ContractPair(r) /\ r[from_slot].successful
      /\ r[from_slot].payload_digest = preserved_digest
      /\ r[to_slot].role = "active" /\ r[to_slot].currently_running
      /\ r[to_slot].boot_priority = 15 /\ r[from_slot].boot_priority = 14
  BY <1>3, <1>4, PromotedLemma, DigestsAssumption
<1>6. attempts' \in Seq(AttemptRecord) /\ Len(attempts') = Len(attempts) + 1
  BY <1>1, <1>3, <1>4, RecordTyped DEF Results
<1> HIDE DEF r
<1>7. AssertInvariants(r, "promoted", from_slot, preserved_digest)
  BY <1>4, <1>5, AssertHolds
<1>8. Conclude(r, "promoted", from_slot, preserved_digest, NoSlot)
  BY <1>1, <1>2 DEF Return
<1>9. /\ slots' = r /\ phase' = "promoted" /\ NeverRaises'
      /\ reply' \in [outcome : {"none", "allowed", "refused", "raised"},
                     fell_back_to : Slots \cup {NoSlot}]
  BY <1>7, <1>8, ConcludeReturns
<1>10. TypeOK'
  BY <1>1, <1>4, <1>5, <1>6, <1>9 DEF TypeOK, PHASES, Opened, environment, ContractPair
<1>11. Len(attempts') <= MaxAttempts
  BY <1>3, <1>6, MaxAttemptsAssumption
<1>12. PhaseFields'
  BY <1>9, <1>11 DEF PhaseFields, OpenPhases
<1>13. SettledFields' /\ PreservedFields' /\ ReasonFields'
  <2>1. /\ from_slot' = from_slot /\ to_slot' = to_slot
        /\ preserved_digest' = preserved_digest /\ rollback_reason' = NoReason
    BY <1>1 DEF Opened
  <2> QED
    BY <1>4, <1>5, <1>9, <2>1 DEF SettledFields, PreservedFields, ReasonFields
<1> QED
  BY <1>5, <1>9, <1>10, <1>12, <1>13 DEF IInv

(* A failed attempt, on slots from which the watchdog may have taken the    *)
(* tries that were left.                                                    *)
LEMMA FailAttemptStep ==
  ASSUME IInv, NEW event \in {"probe_fail", "watchdog_expired"},
         NEW result \in {"probe-failed", "watchdog-expired"},
         NEW ss, ss = slots \/ (phase = "trying" /\ ss = SpentSlots(slots, to_slot)),
         FailAttempt(event, result, ss)
  PROVE  IInv'
<1> DEFINE back == FellBackSlots(ss, from_slot, to_slot)
<1>1. PICK rule \in Offer(event, NoDigest, ss) :
        /\ RecordAttempt(result, from_slot, ss)
        /\ \/ /\ rule.to_phase = "refused"
              /\ rollback_reason' = "attempts-exhausted"
              /\ Return(UnbootableSlots(back, from_slot, to_slot), rule.to_phase, from_slot)
           \/ /\ rule.to_phase # "refused"
              /\ Return(back, rule.to_phase, from_slot)
              /\ UNCHANGED rollback_reason
        /\ UNCHANGED <<Opened, environment>>
  BY DEF FailAttempt
<1>2. /\ phase = "trying"
      /\ \/ rule.to_phase = "armed" /\ ss[CandidateOf(ss)].tries_remaining > 0
         \/ rule.to_phase = "refused"
  BY <1>1, OfferFacts
<1>3. /\ phase \in OpenPhases /\ Len(attempts) < MaxAttempts /\ Len(attempts) < 7
      /\ attempts \in Seq(AttemptRecord) /\ now \in 0..MaxClock
      /\ slots[to_slot].tries_remaining \in 0..7
      /\ Len(attempts) + slots[to_slot].tries_remaining + 1 = MaxAttempts
      /\ slots[from_slot].boot_priority = 14 /\ slots[to_slot].boot_priority = 15
      /\ installed[to_slot] = candidate_digest
  BY <1>2, TrialInvariant
<1>4. /\ TypeOK /\ PendingPair(slots, from_slot, to_slot)
      /\ from_slot \in Slots /\ to_slot \in Slots
      /\ slots[from_slot].payload_digest = preserved_digest
      /\ slots[to_slot].payload_digest = candidate_digest
      /\ ~slots[to_slot].successful
  BY <1>3, PendingInvariant
<1>5. /\ PendingPair(ss, from_slot, to_slot)
      /\ ss[from_slot] = slots[from_slot]
      /\ ss[to_slot] = slots[to_slot]
           \/ ss[to_slot] = [slots[to_slot] EXCEPT !.tries_remaining = 0]
  BY <1>4, SpentLemma
<1>6. slots[to_slot] \in SlotState
  BY <1>4, PendingFacts
<1>7. /\ ss[to_slot].boot_priority = 15 /\ ~ss[to_slot].successful
      /\ ss[to_slot].payload_digest = candidate_digest
      /\ ss[to_slot].tries_remaining \in {0, slots[to_slot].tries_remaining}
  BY <1>3, <1>4, <1>5, <1>6 DEF SlotState
<1>8. /\ PendingPair(back, from_slot, to_slot)
      /\ back[from_slot].payload_digest = preserved_digest
      /\ back[to_slot].payload_digest = candidate_digest
      /\ back[from_slot].boot_priority = 14 /\ back[to_slot].boot_priority = 15
      /\ back[to_slot].state = "written" /\ ~back[to_slot].successful
      /\ back[to_slot].tries_remaining = ss[to_slot].tries_remaining
  BY <1>3, <1>4, <1>5, <1>7, FellBackLemma
<1>9. attempts' \in Seq(AttemptRecord) /\ Len(attempts') = Len(attempts) + 1
  BY <1>1, <1>3, <1>4, <1>5, RecordTyped DEF Results
<1>10. Len(attempts') <= MaxAttempts /\ attempts' # <<>>
  BY <1>3, <1>9, MaxAttemptsAssumption
<1>11. /\ UNCHANGED <<Opened, now, handed_at>> /\ handed_at' \in 0..MaxClock
       /\ installed' \in [Slots -> Digests \cup {NoDigest, Partial}]
       /\ installed'[to_slot] = candidate_digest
  BY <1>1, <1>3, <1>4 DEF TypeOK, environment
<1> HIDE DEF back
<1>12. CASE rule.to_phase = "refused"
  <2>1. /\ rollback_reason' \in ROLLBACK_REASONS
        /\ rollback_reason' = "attempts-exhausted"
        /\ Return(UnbootableSlots(back, from_slot, to_slot), "refused", from_slot)
    BY <1>1, <1>12 DEF ROLLBACK_REASONS
  <2> QED  BY <1>3, <1>8, <1>9, <1>10, <1>11, <2>1, GivenUpStep
<1>13. CASE rule.to_phase = "armed" /\ ss[CandidateOf(ss)].tries_remaining > 0
  <2>1. UNCHANGED rollback_reason /\ Return(back, "armed", from_slot)
    BY <1>1, <1>13
  <2>2. ss[to_slot].tries_remaining > 0
    BY <1>5, <1>13, PendingRoles
  <2>3. ss[to_slot].tries_remaining = slots[to_slot].tries_remaining
    BY <1>3, <1>7, <2>2
  <2>4. Len(attempts) \in Nat
    BY <1>3
  <2>5. back[to_slot].tries_remaining = slots[to_slot].tries_remaining
    BY <1>8, <2>3
  <2>6. back[to_slot].tries_remaining > 0
    BY <2>2, <2>3, <2>5
  <2>7. /\ slots[to_slot].tries_remaining \in 0..7
        /\ Len(attempts) + slots[to_slot].tries_remaining + 1 = MaxAttempts
    BY <1>3
  <2>8. Len(attempts') + back[to_slot].tries_remaining = MaxAttempts
    BY <1>9, <2>4, <2>5, <2>7, BudgetLeft
  <2> QED  BY <1>3, <1>4, <1>8, <1>9, <1>10, <1>11, <2>1, <2>6, <2>8, GoesOnStep
<1> QED  BY <1>2, <1>12, <1>13

LEMMA OperatorAbortStep ==
  ASSUME IInv, OperatorAbort
  PROVE  IInv'
<1>1. PICK rule \in Offer("operator_abort", NoDigest, slots) :
        /\ IF phase = "trying" THEN RecordAttempt("aborted", from_slot, slots)
                               ELSE UNCHANGED attempts
        /\ rollback_reason' = "operator-abort"
        /\ Return(UnbootableSlots(slots, from_slot, to_slot), rule.to_phase, from_slot)
        /\ UNCHANGED <<Opened, environment>>
  BY DEF OperatorAbort
<1>2. phase \in OpenPhases /\ rule.to_phase = "rolled_back"
  BY <1>1, OfferFacts
<1>3. /\ TypeOK /\ PendingPair(slots, from_slot, to_slot) /\ from_slot \in Slots
      /\ slots[from_slot].payload_digest = preserved_digest
  BY <1>2, PendingInvariant
<1>4. attempts' \in Seq(AttemptRecord) /\ Len(attempts') <= MaxAttempts
  <2>1. CASE phase = "trying"
    <3>1. /\ Len(attempts) < MaxAttempts /\ Len(attempts) < 7
          /\ attempts \in Seq(AttemptRecord) /\ now \in 0..MaxClock
      BY <2>1, TrialInvariant
    <3>2. attempts' \in Seq(AttemptRecord) /\ Len(attempts') = Len(attempts) + 1
      BY <1>1, <1>3, <2>1, <3>1, RecordTyped DEF Results
    <3> QED  BY <3>1, <3>2, MaxAttemptsAssumption
  <2>2. CASE phase # "trying"
    BY <1>1, <1>3, <2>2 DEF TypeOK, IInv, PhaseFields
  <2> QED  BY <2>1, <2>2
<1>5. /\ Return(UnbootableSlots(slots, from_slot, to_slot), "rolled_back", from_slot)
      /\ rollback_reason' \in ROLLBACK_REASONS
      /\ rollback_reason' # "attempts-exhausted"
      /\ UNCHANGED <<Opened, now, handed_at>>
      /\ installed' \in [Slots -> Digests \cup {NoDigest, Partial}]
  BY <1>1, <1>2, <1>3 DEF TypeOK, environment, ROLLBACK_REASONS
<1> QED
  BY <1>2, <1>3, <1>4, <1>5, GivenUpStep

(* A refused event, a tick and a stutter leave the machine as it was.       *)
LEMMA QuietStep ==
  ASSUME IInv, Refuse \/ Tick \/ UNCHANGED vars
  PROVE  IInv'
<1>1. TypeOK /\ ContractPair(slots) /\ NeverRaises /\ PhaseFields
  BY DEF IInv
<1>2. /\ slots' = slots /\ phase' = phase /\ from_slot' = from_slot /\ to_slot' = to_slot
      /\ preserved_digest' = preserved_digest /\ candidate_digest' = candidate_digest
      /\ attempts' = attempts /\ rollback_reason' = rollback_reason
      /\ installed' = installed /\ handed_at' = handed_at
  BY DEF Refuse, Tick, vars, machine, environment
<1>3. now' \in 0..MaxClock
  BY <1>1, MaxClockAssumption DEF Refuse, Tick, vars, environment, TypeOK
<1>4. reply' = reply \/ reply' = Reply("refused", NoSlot)
  BY DEF Refuse, Tick, vars
<1>5. NeverRaises' /\ reply' \in [outcome : {"none", "allowed", "refused", "raised"},
                                  fell_back_to : Slots \cup {NoSlot}]
  BY <1>1, <1>4 DEF NeverRaises, Reply, TypeOK
<1>6. TypeOK'
  BY <1>1, <1>2, <1>3, <1>5 DEF TypeOK
<1>7. PhaseFields'
  BY <1>1, <1>2 DEF PhaseFields, PendingFields, ArmedFields
<1>8. SettledFields' /\ PreservedFields' /\ ReasonFields'
  <2>1. SettledFields /\ PreservedFields /\ ReasonFields
    BY DEF IInv
  <2> QED  BY <1>2, <2>1 DEF SettledFields, PreservedFields, ReasonFields
<1> QED
  BY <1>1, <1>2, <1>5, <1>6, <1>7, <1>8 DEF IInv

LEMMA NextInvariant ==
  ASSUME IInv, [Next]_vars
  PROVE  IInv'
<1>1. ASSUME NEW d \in Digests, Begin(d) PROVE IInv'
  BY <1>1, BeginStep
<1>2. ASSUME NEW d \in Digests, WriteComplete(d) PROVE IInv'
  BY <1>2, WriteCompleteStep
<1>3. CASE WriteFailed
  BY <1>3, WriteFailedStep
<1>4. CASE Arm
  BY <1>4, ArmStep
<1>5. CASE BootAttempt
  BY <1>5, BootAttemptStep
<1>6. CASE ProbePass
  BY <1>6, ProbePassStep
<1>7. CASE ProbeFail
  BY <1>7, FailAttemptStep DEF ProbeFail
<1>8. ASSUME NEW a \in EXPIRY_ACTIONS, WatchdogExpired(a) PROVE IInv'
  <2> DEFINE ss == IF a = "reboot-to-fallback" /\ phase = "trying"
                   THEN SpentSlots(slots, to_slot) ELSE slots
  <2>1. FailAttempt("watchdog_expired", "watchdog-expired", ss)
    BY <1>8 DEF WatchdogExpired
  <2>2. ss = slots \/ (phase = "trying" /\ ss = SpentSlots(slots, to_slot))
    OBVIOUS
  <2> HIDE DEF ss
  <2> QED  BY <2>1, <2>2, FailAttemptStep
<1>9. CASE OperatorAbort
  BY <1>9, OperatorAbortStep
<1>10. CASE Refuse \/ Tick \/ UNCHANGED vars
  BY <1>10, QuietStep
<1> QED
  BY <1>1, <1>2, <1>3, <1>4, <1>5, <1>6, <1>7, <1>8, <1>9, <1>10 DEF Next, Verdict

------------------------------------------------------------------------------
(* The theorems.  ContractTarget is what they assume of the target: the     *)
(* machine is built on slots that obey UpdateSlot.json.                     *)

THEOREM Invariance ==
  ASSUME ContractTarget
  PROVE  Spec => []IInv
<1>1. Init => IInv
  BY InitInvariant
<1>2. IInv /\ [Next]_vars => IInv'
  BY NextInvariant
<1> QED
  BY <1>1, <1>2, PTL DEF Spec

(* The fields of the machine and the slots stay within the contract's types.*)
THEOREM TypeCorrect ==
  ASSUME ContractTarget
  PROVE  Spec => []TypeOK
<1>1. IInv => TypeOK
  BY DEF IInv
<1> QED
  BY <1>1, Invariance, PTL

(* No sequence of events makes an assertion of the machine fail             *)
(* (ab_update_machine.py:304-347).                                          *)
THEOREM AssertionsHold ==
  ASSUME ContractTarget
  PROVE  Spec => []NeverRaises
<1>1. IInv => NeverRaises
  BY DEF IInv
<1> QED
  BY <1>1, Invariance, PTL

(* After every event the two slot documents are a conforming pair.          *)
THEOREM SlotsStayConforming ==
  ASSUME ContractTarget
  PROVE  Spec => []SlotsConform
<1>1. IInv => SlotsConform
  BY DEF IInv, SlotsConform
<1> QED
  BY <1>1, Invariance, PTL

(* The attempts made, under way and left add up to the budget, whatever the *)
(* budget is: the retry loop is bounded.                                    *)
THEOREM BudgetAddsUp ==
  ASSUME ContractTarget
  PROVE  Spec => []AttemptBudget
<1>1. IInv => AttemptBudget
  BY DEF IInv, PhaseFields, AttemptBudget
<1> QED
  BY <1>1, Invariance, PTL

LEMMA TransactionFacts ==
  ASSUME IInv
  PROVE  TransactionConforms
<1>1. /\ PreservedFields /\ SettledFields /\ ReasonFields
      /\ ContractPair(slots) /\ phase \in PHASES
  BY DEF IInv, TypeOK
<1>2. \A s \in Slots : slots[s].role = "active" => slots[s].successful
  BY <1>1 DEF ContractPair, ConformantSlot
<1> QED
  BY <1>1, <1>2 DEF TransactionConforms, PreservedFields, SettledFields, ReasonFields,
     SettledOnSlot, OutcomeOf, TERMINAL_PHASES, PHASES, NoReason, NoSlot, Slots

(* A settled transaction document tells the truth about the slots: the slot *)
(* it names is running, active and successful, and the payload preserved at *)
(* open is still recorded where it was.                                     *)
THEOREM TransactionsConform ==
  ASSUME ContractTarget
  PROVE  Spec => []TransactionConforms
<1> QED
  BY TransactionFacts, Invariance, PTL

(* Among two selectable slots of different priority the selector takes the  *)
(* higher one; a slot that is not selectable leaves it the other.           *)
LEMMA SelectorTakes ==
  ASSUME NEW ss \in [Slots -> SlotState], NEW s \in Slots, NEW t \in Slots, s # t,
         Selectable(ss[s]),
         Selectable(ss[t]) => ss[t].boot_priority < ss[s].boot_priority
  PROVE  SelectorChoices(ss) = {s}
<1>1. \A u \in Slots : u = s \/ u = t
  BY DEF Slots
<1>2. ss[s].boot_priority \in Nat /\ ss[t].boot_priority \in Nat
  BY DEF SlotState
<1>3. s \in SelectorChoices(ss)
  BY <1>1, <1>2 DEF SelectorChoices
<1>4. t \notin SelectorChoices(ss)
  BY <1>2 DEF SelectorChoices
<1> QED
  BY <1>1, <1>3, <1>4 DEF SelectorChoices

LEMMA SelectorFacts ==
  ASSUME IInv
  PROVE  SelectorAgrees
<1>1. /\ PhaseFields /\ PreservedFields /\ SettledFields /\ TypeOK
      /\ ContractPair(slots) /\ slots \in [Slots -> SlotState]
  BY DEF IInv, TypeOK
<1>2. ASSUME phase # "idle"
      PROVE  /\ from_slot \in Slots /\ to_slot \in Slots /\ from_slot # to_slot
             /\ slots[from_slot].successful
             /\ slots[to_slot].tries_remaining \in 0..7
  <2>1. from_slot \in Slots /\ to_slot \in Slots /\ from_slot # to_slot /\ slots[from_slot].successful
    BY <1>1, <1>2 DEF PreservedFields
  <2>2. slots[to_slot] \in SlotState
    BY <1>1, <2>1
  <2> QED  BY <2>1, <2>2 DEF SlotState
<1>3. CASE phase \in {"armed", "trying"}
  <2>1. /\ slots[from_slot].boot_priority = 14 /\ slots[to_slot].boot_priority = 15
        /\ ~slots[to_slot].successful
        /\ phase = "armed" => slots[to_slot].tries_remaining > 0
    BY <1>1, <1>3 DEF PhaseFields, ArmedFields, PendingFields, OpenPhases
  <2>2. Selectable(slots[from_slot])
    BY <1>2, <1>3, <2>1 DEF Selectable
  <2>3. CASE slots[to_slot].tries_remaining > 0
    <3>1. Selectable(slots[to_slot])
      BY <2>1, <2>3 DEF Selectable
    <3>2. SelectorChoices(slots) = {to_slot}
      BY <1>1, <1>2, <1>3, <2>1, <3>1, SelectorTakes
    <3> QED  BY <1>3, <2>3, <3>2 DEF SelectorAgrees, TERMINAL_PHASES
  <2>4. CASE ~(slots[to_slot].tries_remaining > 0)
    <3>1. ~Selectable(slots[to_slot])
      BY <2>1, <2>4 DEF Selectable
    <3>2. SelectorChoices(slots) = {from_slot}
      BY <1>1, <1>2, <1>3, <2>2, <3>1, SelectorTakes
    <3> QED  BY <1>3, <2>1, <2>4, <3>2 DEF SelectorAgrees, TERMINAL_PHASES
  <2> QED  BY <2>3, <2>4
<1>4. CASE phase = "promoted"
  <2>1. /\ slots[to_slot].role = "active" /\ slots[to_slot].boot_priority = 15
        /\ slots[from_slot].boot_priority = 14
    BY <1>1, <1>4 DEF SettledFields
  <2>2. slots[to_slot].successful
    BY <1>1, <1>2, <1>4, <2>1 DEF ContractPair, ConformantSlot
  <2>3. Selectable(slots[to_slot])
    BY <2>1, <2>2 DEF Selectable
  <2>4. SelectorChoices(slots) = {to_slot}
    BY <1>1, <1>2, <1>4, <2>1, <2>3, SelectorTakes
  <2> QED  BY <1>4, <2>4 DEF SelectorAgrees, SettledOnSlot, TERMINAL_PHASES
<1>5. CASE phase \in {"rolled_back", "refused"}
  <2>1. slots[from_slot].boot_priority = 15 /\ slots[to_slot].boot_priority = 0
    BY <1>1, <1>5 DEF SettledFields
  <2>2. Selectable(slots[from_slot])
    BY <1>2, <1>5, <2>1 DEF Selectable
  <2>3. SelectorChoices(slots) = {from_slot}
    BY <1>1, <1>2, <1>5, <2>1, <2>2, SelectorTakes
  <2> QED  BY <1>5, <2>3 DEF SelectorAgrees, SettledOnSlot, TERMINAL_PHASES
<1>6. CASE phase \notin {"armed", "trying"} \cup TERMINAL_PHASES
  BY <1>6 DEF SelectorAgrees
<1> QED  BY <1>3, <1>4, <1>5, <1>6 DEF TERMINAL_PHASES

(* The rules of the table that share event and phase differ in their guards,*)
(* and guards that differ exclude one another.                              *)
LEMMA TableDetermined ==
  ASSUME NEW rule \in TRANSITION_TABLE, NEW other \in TRANSITION_TABLE,
         rule.event = other.event, rule.from_phase = other.from_phase
  PROVE  \/ rule = other
         \/ rule.guard = "digest_matches"  /\ other.guard = "digest_mismatch"
         \/ rule.guard = "digest_mismatch" /\ other.guard = "digest_matches"
         \/ rule.guard = "tries_remain"    /\ other.guard = "tries_exhausted"
         \/ rule.guard = "tries_exhausted" /\ other.guard = "tries_remain"
BY DEF TRANSITION_TABLE, Rule

LEMMA OneRule ==
  ASSUME NEW event, NEW d, NEW ss, NEW rule \in Offer(event, d, ss),
         NEW other \in Offer(event, d, ss)
  PROVE  rule = other
<1>1. /\ rule \in TRANSITION_TABLE /\ other \in TRANSITION_TABLE
      /\ rule.event = other.event /\ rule.from_phase = other.from_phase
      /\ GuardHolds(rule.guard, d, ss) /\ GuardHolds(other.guard, d, ss)
  BY DEF Offer
<1> QED
  BY <1>1, TableDetermined DEF GuardHolds

(* While the candidate is armed or on trial, each event that is due finds a *)
(* rule, in any pair of slots in which a try is left where one is needed.   *)
LEMMA DueEvents ==
  ASSUME NEW ss, ss[CandidateOf(ss)].tries_remaining \in Nat
  PROVE  /\ phase = "armed" /\ ss[CandidateOf(ss)].tries_remaining > 0 =>
              Offer("boot_attempt", NoDigest, ss) # {}
         /\ phase = "trying" =>
              \A event \in {"probe_pass", "probe_fail", "watchdog_expired"} :
                Offer(event, NoDigest, ss) # {}
<1> DEFINE tries == ss[CandidateOf(ss)].tries_remaining
           Admits(e, f, t, g) == Rule(e, f, t, g) \in Offer(e, NoDigest, ss)
<1>1. \A e, f, t, g : /\ Rule(e, f, t, g).event = e /\ Rule(e, f, t, g).from_phase = f
                      /\ Rule(e, f, t, g).guard = g
  BY DEF Rule
<1>2. /\ Rule("boot_attempt", "armed", "trying", "none") \in TRANSITION_TABLE
      /\ Rule("probe_pass", "trying", "promoted", "none") \in TRANSITION_TABLE
      /\ \A e \in {"probe_fail", "watchdog_expired"} :
           /\ Rule(e, "trying", "armed", "tries_remain") \in TRANSITION_TABLE
           /\ Rule(e, "trying", "refused", "tries_exhausted") \in TRANSITION_TABLE
  BY Zenon DEF TRANSITION_TABLE
<1>3. /\ GuardHolds("none", NoDigest, ss)
      /\ tries > 0 => GuardHolds("tries_remain", NoDigest, ss)
      /\ tries = 0 => GuardHolds("tries_exhausted", NoDigest, ss)
  BY DEF GuardHolds
<1>4. tries > 0 \/ tries = 0
  <2>1. tries \in Nat
    OBVIOUS
  <2> HIDE DEF tries
  <2> QED  BY <2>1
<1> HIDE DEF tries
<1>5. ASSUME phase = "armed", tries > 0
      PROVE  Admits("boot_attempt", "armed", "trying", "none")
  BY <1>1, <1>2, <1>3, <1>5 DEF Offer, TERMINAL_PHASES, tries
<1>6. ASSUME phase = "trying"
      PROVE  Admits("probe_pass", "trying", "promoted", "none")
  BY <1>1, <1>2, <1>3, <1>6 DEF Offer, TERMINAL_PHASES
<1>7. ASSUME phase = "trying", NEW e \in {"probe_fail", "watchdog_expired"}
      PROVE  \/ Admits(e, "trying", "armed", "tries_remain")
             \/ Admits(e, "trying", "refused", "tries_exhausted")
  BY <1>1, <1>2, <1>3, <1>4, <1>7 DEF Offer, TERMINAL_PHASES
<1> QED
  BY <1>5, <1>6, <1>7 DEF tries

LEMMA JudgedFacts ==
  ASSUME IInv
  PROVE  EveryBootIsJudged
<1>1. \A event \in EVENTS, d \in Digests :
        \A rule, other \in Offer(event, d, slots) : rule = other
  BY OneRule
<1>2. ASSUME phase \in {"armed", "trying"}
      PROVE  /\ PendingPair(slots, from_slot, to_slot) /\ slots[to_slot] \in SlotState
             /\ CandidateOf(slots) = to_slot
  <2>1. PendingPair(slots, from_slot, to_slot)
    BY <1>2, PendingInvariant DEF OpenPhases
  <2> QED
    BY <2>1, PendingFacts, PendingRoles
<1>3. ASSUME phase \in {"armed", "trying"}, NEW ss \in {slots, SpentSlots(slots, to_slot)}
      PROVE  ss[CandidateOf(ss)].tries_remaining \in Nat
  <2>1. CASE ss = slots
    BY <1>2, <1>3, <2>1 DEF SlotState
  <2>2. CASE ss = SpentSlots(slots, to_slot)
    <3>1. /\ PendingPair(ss, from_slot, to_slot)
          /\ ss[to_slot] = [slots[to_slot] EXCEPT !.tries_remaining = 0]
      BY <1>2, <1>3, <2>2, SpentLemma
    <3>2. CandidateOf(ss) = to_slot /\ slots[to_slot] \in SlotState
      BY <1>2, <1>3, <3>1, PendingRoles
    <3>3. ss[to_slot].tries_remaining = 0
      BY <3>1, <3>2, Zenon DEF SlotState
    <3> QED
      BY <3>2, <3>3
  <2> QED
    BY <1>3, <2>1, <2>2
<1>4. phase = "armed" => slots[to_slot].tries_remaining > 0
  BY DEF IInv, PhaseFields, ArmedFields
<1>5. phase = "armed" => Offer("boot_attempt", NoDigest, slots) # {}
  BY <1>2, <1>3, <1>4, DueEvents
<1>6. phase = "trying" =>
        \A event \in {"probe_pass", "probe_fail", "watchdog_expired"} :
          \A ss \in {slots, SpentSlots(slots, to_slot)} : Offer(event, NoDigest, ss) # {}
  BY <1>3, DueEvents
<1> QED
  BY <1>1, <1>5, <1>6 DEF EveryBootIsJudged

(* The order of the rules does not matter, an armed candidate is never      *)
(* refused a boot and no trial its verdict: with the contract's promise of  *)
(* resets and probes the boot cycle goes on until it is over.               *)
THEOREM BootsAreJudged ==
  ASSUME ContractTarget
  PROVE  Spec => []EveryBootIsJudged
<1>1. IInv => EveryBootIsJudged
  BY JudgedFacts
<1> QED
  BY <1>1, Invariance, PTL

(* From arming on the slot selector and the machine agree on the slot that  *)
(* boots next, and there is exactly one.                                    *)
THEOREM SelectorAlwaysAgrees ==
  ASSUME ContractTarget
  PROVE  Spec => []SelectorAgrees
<1> QED
  BY SelectorFacts, Invariance, PTL

(* What every step leaves alone while a transaction is pending.             *)
LEMMA PendingFrame ==
  ASSUME IInv, Next, phase \in OpenPhases
  PROVE  /\ from_slot' = from_slot /\ preserved_digest' = preserved_digest
         /\ phase' # "idle"
         /\ installed'[from_slot] = installed[from_slot]
<1>1. /\ from_slot \in Slots /\ to_slot \in Slots /\ from_slot # to_slot
      /\ installed \in [Slots -> Digests \cup {NoDigest, Partial}]
  BY PendingInvariant DEF TypeOK
<1>2. ASSUME NEW d, Begin(d) PROVE FALSE
  <2>1. PICK rule \in Offer("begin", NoDigest, slots) : TRUE
    BY <1>2 DEF Begin
  <2> QED  BY <2>1, OfferFacts DEF OpenPhases
<1>3. ASSUME NEW d, WriteComplete(d)
      PROVE  /\ UNCHANGED Opened /\ installed' = [installed EXCEPT ![to_slot] = d]
             /\ phase' # "idle"
  BY <1>3, OfferFacts DEF WriteComplete, Return, Conclude
<1>4. CASE WriteFailed \/ Arm \/ ProbePass \/ OperatorAbort
  BY <1>1, <1>4, OfferFacts DEF WriteFailed, Arm, ProbePass, OperatorAbort,
     Return, Conclude, Opened, environment
<1>5. CASE BootAttempt
  BY <1>1, <1>5, OfferFacts DEF BootAttempt, Return, Conclude, Opened
<1>6. ASSUME NEW e \in {"probe_fail", "watchdog_expired"}, NEW res, NEW ss, FailAttempt(e, res, ss)
      PROVE  /\ UNCHANGED <<Opened, installed>> /\ phase' # "idle"
  BY <1>6, OfferFacts DEF FailAttempt, Return, Conclude, environment
<1>7. CASE Refuse \/ Tick
  BY <1>7 DEF Refuse, Tick, machine, environment, OpenPhases
<1>8. (\E d \in Digests : WriteComplete(d)) => installed'[from_slot] = installed[from_slot]
  BY <1>1, <1>3
<1> QED
  BY <1>1, <1>2, <1>3, <1>4, <1>5, <1>6, <1>7, <1>8
     DEF Next, Verdict, ProbeFail, WatchdogExpired, Opened

(* What begin does when the machine is fresh: only the candidate is touched.*)
LEMMA BeginFrame ==
  ASSUME IInv, NEW d \in Digests, Begin(d)
  PROVE  LET from == ActiveOf(slots) IN
         /\ phase = "idle" /\ phase' = "writing"
         /\ from \in Slots /\ from_slot' = from /\ candidate_digest' = d
         /\ slots'[from] = slots[from]
         /\ installed'[from] = installed[from]
         /\ UNCHANGED <<attempts, rollback_reason>>
<1> DEFINE from == ActiveOf(slots)
           to   == CandidateOf(slots)
<1>1. ContractPair(slots) /\ installed \in [Slots -> Digests \cup {NoDigest, Partial}]
  BY DEF IInv, TypeOK
<1>2. /\ from \in Slots /\ to \in Slots /\ from # to
      /\ slots \in [Slots -> SlotState]
  BY <1>1, RolesLemma DEF ContractPair, SlotState
<1>3. phase = "idle"
  <2>1. PICK rule \in Offer("begin", NoDigest, slots) : TRUE
    BY DEF Begin
  <2> QED  BY <2>1, OfferFacts
<1>4. /\ from_slot' = from /\ candidate_digest' = d /\ slots' = WritingSlots(slots, to, d)
      /\ phase' = "writing"
      /\ installed' = [installed EXCEPT ![to] = Partial]
      /\ UNCHANGED <<attempts, rollback_reason>>
  BY OfferFacts DEF Begin, Conclude
<1>5. slots'[from] = slots[from]
  BY <1>2, <1>4 DEF WritingSlots
<1> QED
  BY <1>1, <1>2, <1>3, <1>4, <1>5

(* Nothing but a refusal or a tick happens to a settled machine.            *)
LEMMA SettledFrame ==
  ASSUME Next, phase \in TERMINAL_PHASES
  PROVE  Refuse \/ Tick
<1>1. \A event, d, ss : Offer(event, d, ss) = {}
  BY DEF Offer
<1> QED
  BY <1>1 DEF Next, Verdict, Begin, WriteComplete, WriteFailed, Arm, BootAttempt,
     ProbePass, ProbeFail, WatchdogExpired, FailAttempt, OperatorAbort

(* What a step may not do to the slot that is active.                       *)
ActiveKept ==
  \A s \in Slots : slots[s].role = "active" =>
    /\ installed'[s] = installed[s]
    /\ slots'[s].payload_digest = slots[s].payload_digest
    /\ slots'[s].successful

LEMMA KeptStep ==
  ASSUME IInv, IInv', [Next]_vars
  PROVE  ActiveKept
<1> USE DEF ActiveKept
<1>1. CASE UNCHANGED vars
  <2>1. \A s \in Slots : slots[s].role = "active" => slots[s].successful
    BY DEF IInv, ContractPair, SlotState, ConformantSlot
  <2> QED  BY <1>1, <2>1 DEF vars, environment
<1>2. CASE Next
  <2>1. /\ ContractPair(slots) /\ OneActive(slots)
        /\ \A s \in Slots : /\ slots[s].role \in {"active", "candidate"}
                            /\ slots[s].role = "active" => slots[s].successful
    BY DEF IInv, ContractPair, SlotState, ConformantSlot
  <2>2. CASE Refuse \/ Tick
    BY <2>1, <2>2 DEF Refuse, Tick, environment
  <2>3. CASE phase \in OpenPhases
    <3>1. /\ from_slot' = from_slot /\ preserved_digest' = preserved_digest /\ phase' # "idle"
          /\ installed'[from_slot] = installed[from_slot]
      BY <1>2, <2>3, PendingFrame
    <3>2. \A s \in Slots : slots[s].role = "active" => s = from_slot
      BY <2>1, <2>3, PendingInvariant, PendingRoles, RolesLemma
    <3>3. slots[from_slot].payload_digest = preserved_digest
      BY <2>3, PendingInvariant
    <3>4. /\ slots'[from_slot].payload_digest = preserved_digest
          /\ slots'[from_slot].successful
      BY <3>1 DEF IInv, PreservedFields
    <3> QED  BY <3>1, <3>2, <3>3, <3>4
  <2>4. ASSUME NEW d \in Digests, Begin(d) PROVE ActiveKept
    <3>1. \A s \in Slots : slots[s].role = "active" => s = ActiveOf(slots)
      BY <2>1, RolesLemma
    <3> QED  BY <2>1, <2>4, <3>1, BeginFrame
  <2>5. CASE phase = "idle"
    <3>1. (\E d \in Digests : Begin(d)) \/ Refuse \/ Tick
      BY <1>2, <2>5, OfferFacts DEF Next, Verdict, WriteComplete, WriteFailed, Arm,
         BootAttempt, ProbePass, ProbeFail, WatchdogExpired, FailAttempt, OperatorAbort,
         OpenPhases
    <3> QED  BY <2>2, <2>4, <3>1
  <2>6. CASE phase \in TERMINAL_PHASES
    BY <1>2, <2>2, <2>6, SettledFrame
  <2>7. phase \in {"idle"} \cup OpenPhases \cup TERMINAL_PHASES
    BY DEF IInv, TypeOK, PHASES, OpenPhases, TERMINAL_PHASES
  <2> QED  BY <2>3, <2>5, <2>6, <2>7
<1> QED  BY <1>1, <1>2

(* THE INVARIANT of the code (ab_update_machine.py:18-29), as a step can    *)
(* break it: the slot that is active keeps its content, the digest recorded *)
(* for it and its marking in every step, for every target that conforms.    *)
THEOREM ActiveSlotIsNeverWritten ==
  ASSUME ContractTarget
  PROVE  Spec => ActiveSlotNeverWritten
<1>1. IInv /\ IInv' /\ [Next]_vars => [ActiveKept]_vars
  BY KeptStep
<1> QED
  BY <1>1, Invariance, PTL DEF Spec, ActiveSlotNeverWritten, ActiveKept
==============================================================================
