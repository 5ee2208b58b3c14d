---------------------------- MODULE KnowledgeProofs ----------------------------
(***************************************************************************)
(* Proofs about Knowledge, for any saves, sweeps, readers, likenesses and  *)
(* faults. What one step may do to a row is one predicate, RowMove; what a *)
(* save has looked up stands until it writes (LookStands), because the     *)
(* advisory lock lets nobody else insert or merge meanwhile (OneHolder)    *)
(* and the row lock keeps the match as it was read. UsesKnown says where   *)
(* each use answered with is: in the row's count, or with a usage task.    *)
(* The last part is about SessionSummaries, a module whose names are       *)
(* disjoint from those of Knowledge.                                       *)
(***************************************************************************)
EXTENDS Knowledge, SessionSummaries, TLAPS

\* The clocks of a row never run ahead.
Ages ==
  \A i \in Save : Stored(i) =>
    rows[i].created <= rows[i].updated /\ rows[i].updated <= week

\* The part of ConfidenceAccounted that is not about types.
Accounted ==
  \A i \in Save : Stored(i) =>
    /\ InitialConfidence - (rows[i].updated - rows[i].created) <= rows[i].confidence
    /\ rows[i].confidence <= InitialConfidence + UsageBonus * rows[i].usage

OneHolder == \A c, d \in Save : Holds(c) /\ Holds(d) => c = d

\* No row has the title of save c, and no live one a similar title.
Unlike(c) ==
  \A j \in Save : Stored(j) =>
    <<c, j>> \notin SameTitle /\ (<<c, j>> \in AlikeTitle => ~Live(j))

\* What c read of its match is still what the match says.
MatchAsRead(c) ==
  Stored(call[c].match) /\ call[c].read = rows[call[c].match].sources

LookStands ==
  \A c \in Save :
    /\ call[c].pc = "write" /\ call[c].match = None => Unlike(c)
    /\ call[c].pc = "write" /\ call[c].match # None => MatchAsRead(c)
    /\ call[c].pc = "link" => call[c].match # None

\* Every use answered with and not lost is in the row or still to be counted.
Recorded(i) == IF Stored(i) THEN rows[i].usage ELSE 0
UsesKnown == \A i \in Save : used[i] = reads[i] + Recorded(i)

IInv == TypeOK /\ Ages /\ Accounted /\ OneHolder /\ LookStands /\ UsesKnown

-----------------------------------------------------------------------------
(* What a step may do to a row *)

Inserted(i) ==
  /\ call[i].pc = "write" /\ call[i].match = None /\ call'[i].pc # "write"
  /\ rows'[i] = FreshRow(i)
Merges(i) ==
  \E c \in Save : /\ call[c].pc = "write" /\ call[c].match = i /\ call'[c].pc # "write"
                  /\ rows'[i] = MergedRow(c)
Linked(i) ==
  /\ Live(i) /\ ~Locked(i)
  /\ \E o \in Observation : rows'[i] = [rows[i] EXCEPT !.sources = @ \cup {o}, !.updated = week]
Counted(i) ==
  Live(i) /\ ~Locked(i) /\ rows'[i] = Used(rows[i]) /\ reads'[i] = reads[i] - 1
Decay(i) == Decays(i) /\ ~Locked(i) /\ rows'[i] = Decayed(rows[i])
Archived(i) ==
  /\ Archivable(i) /\ ~Locked(i)
  /\ rows'[i] = [rows[i] EXCEPT !.archived = TRUE, !.updated = week]
Deleted(i) == Stored(i) /\ ~Locked(i) /\ rows'[i] = None /\ used'[i] = reads[i]

RowMove(i) ==
  \/ Inserted(i) \/ Merges(i) \/ Linked(i) \/ Counted(i)
  \/ Decay(i) \/ Archived(i) \/ Deleted(i)

\* Every step keeps the clock and moves each row so or leaves it alone, or is a
\* tick, which leaves all rows alone.
RowStep ==
  \/ week' = week /\ \A i \in Save : rows'[i] = rows[i] \/ RowMove(i)
  \/ week' \in week..MaxWeek /\ UNCHANGED <<rows, call>>

LEMMA SaveRows ==
  ASSUME TypeOK, NEW c \in Save, Commit(c) \/ CommitUnanswered(c)
  PROVE  RowStep
<1>1. call[c].pc = "write" /\ save_knowledge_inner(c) /\ week' = week
  BY DEF Commit, CommitUnanswered
<1>2. call'[c].pc # "write"
  BY DEF Commit, CommitUnanswered, Ended, Outside, TypeOK, Call
<1>3. CASE call[c].match = None
  BY <1>1, <1>2, <1>3 DEF save_knowledge_inner, RowStep, RowMove, Inserted, TypeOK
<1>4. CASE call[c].match # None
  BY <1>1, <1>2, <1>4 DEF save_knowledge_inner, RowStep, RowMove, Merges, TypeOK
<1>. QED
  BY <1>3, <1>4

LEMMA LinkRows ==
  ASSUME TypeOK, LookStands, NEW c \in Save, link_source_observation(c)
  PROVE  RowStep
<1> DEFINE i == call[c].match
<1>1. i \in Save /\ ~Locked(i) /\ week' = week
  BY DEF link_source_observation, LookStands, TypeOK, Call
<1>2. CASE UNCHANGED rows
  BY <1>1, <1>2 DEF RowStep
<1>3. CASE \E o \in Observation :
             Live(i) /\ rows' = [rows EXCEPT ![i].sources = @ \cup {o}, ![i].updated = week]
  BY <1>1, <1>3 DEF RowStep, RowMove, Linked, TypeOK
<1>. QED
  BY <1>2, <1>3 DEF link_source_observation

LEMMA RowSteps ==
  ASSUME TypeOK, LookStands, Next
  PROVE  RowStep
<1>1. ASSUME NEW c \in Save, save_knowledge_with_id(c) \/ Begin(c) \/ Match(c) \/ Rollback(c)
      PROVE  RowStep
  BY <1>1 DEF save_knowledge_with_id, Begin, Match, Rollback, RowStep
<1>2. ASSUME NEW i \in Save, get_knowledge(i) \/ UsageLost(i)
      PROVE  RowStep
  BY <1>2 DEF get_knowledge, UsageLost, RowStep
<1>3. ASSUME NEW i \in Save, update_knowledge_usage_batch(i)
      PROVE  RowStep
  BY <1>3 DEF update_knowledge_usage_batch, RowStep, RowMove, Counted, TypeOK
<1>4. ASSUME NEW i \in Save, delete_knowledge(i)
      PROVE  RowStep
  BY <1>4 DEF delete_knowledge, RowStep, RowMove, Deleted, TypeOK
<1>5. ASSUME NEW w \in Sweep, decay_confidence(w)
      PROVE  RowStep
  BY <1>5 DEF decay_confidence, RowStep, RowMove, Decay
<1>6. ASSUME NEW w \in Sweep, auto_archive(w)
      PROVE  RowStep
  BY <1>6 DEF auto_archive, RowStep, RowMove, Archived
<1>7. ASSUME NEW w \in Sweep, SweepFails(w)
      PROVE  RowStep
  BY <1>7 DEF SweepFails, RowStep
<1>8. CASE Tick
  <2>1. PICK gap \in Gaps : week + gap <= MaxWeek /\ week' = week + gap
    BY <1>8 DEF Tick
  <2>2. week \in Nat /\ gap \in Nat /\ MaxWeek \in Nat
    BY ClockAssumption DEF TypeOK
  <2>. QED
    BY <1>8, <2>1, <2>2 DEF Tick, RowStep
<1>. QED
  BY <1>1, <1>2, <1>3, <1>4, <1>5, <1>6, <1>7, <1>8, SaveRows, LinkRows DEF Next

-----------------------------------------------------------------------------
(* The rows *)

\* A row as it should be at a given time.
Sound(row, now) ==
  /\ row \in Row
  /\ row.created <= row.updated /\ row.updated <= now
  /\ InitialConfidence - (row.updated - row.created) <= row.confidence
  /\ row.confidence <= InitialConfidence + UsageBonus * row.usage

LEMMA RowsSound ==
  ASSUME TypeOK, Ages, Accounted, NEW i \in Save, Stored(i)
  PROVE  Sound(rows[i], week)
  BY DEF TypeOK, Ages, Accounted, Stored, Sound

LEMMA MatchSound ==
  ASSUME IInv, NEW c \in Save, call[c].pc = "write", call[c].match # None
  PROVE  /\ call[c].match \in Save
         /\ Sound(rows[call[c].match], week)
         /\ call[c].read = rows[call[c].match].sources
<1>1. call[c].match \in Save
  BY DEF IInv, TypeOK, Call
<1>2. MatchAsRead(c)
  BY DEF IInv, LookStands
<1>. QED
  BY <1>1, <1>2, RowsSound DEF IInv, MatchAsRead

LEMMA Amounts ==
  /\ InitialConfidence = 10 /\ FloorConfidence = 2 /\ FullConfidence = 20 /\ UsageBonus = 2
  BY DEF InitialConfidence, FloorConfidence, FullConfidence, UsageBonus

LEMMA FreshSound ==
  ASSUME TypeOK, NEW c \in Save
  PROVE  Sound(FreshRow(c), week)
<1>1. SourcesOf(c) \subseteq Observation
  BY SourceAssumption DEF SourcesOf
<1>2. week \in Nat /\ call[c].vector \in BOOLEAN
  BY ClockAssumption DEF TypeOK, Call
<1>. QED
  BY <1>1, <1>2, Amounts DEF FreshRow, Sound, Row

\* What a change of a row must keep for the row to stay sound: it loses no more
\* confidence than the weeks that updated_at moves over, and gains no more than
\* the uses it counts.
Gentle(row, new, now) ==
  /\ new \in Row /\ new.created = row.created /\ new.updated = now
  /\ new.confidence >= row.confidence - (now - row.updated) \/ new.confidence = FullConfidence
  /\ new.confidence - row.confidence <= UsageBonus * (new.usage - row.usage)

LEMMA GentleSound ==
  ASSUME NEW row, NEW new, NEW now \in Nat, Sound(row, now), Gentle(row, new, now)
  PROVE  Sound(new, now)
<1>1. /\ row.created \in Nat /\ row.updated \in Nat /\ row.confidence \in Int /\ row.usage \in Nat
      /\ new.confidence \in Int /\ new.usage \in Nat
  BY Amounts DEF Sound, Gentle, Row
<1>. QED
  BY <1>1, Amounts DEF Sound, Gentle

LEMMA LinkedSound ==
  ASSUME NEW row, NEW now \in Nat, Sound(row, now), NEW X \in SUBSET Observation
  PROVE  Sound([row EXCEPT !.sources = X, !.updated = now], now)
<1> DEFINE new == [row EXCEPT !.sources = X, !.updated = now]
<1>1. row \in Row
  BY DEF Sound
<1>2. new \in Row
  BY <1>1 DEF Row
<1>3. /\ new.created = row.created /\ new.updated = now
      /\ new.confidence = row.confidence /\ new.usage = row.usage
  BY <1>1 DEF Row
<1>4. row.updated \in Nat /\ row.updated <= now /\ row.confidence \in Int /\ row.usage \in Nat
  BY <1>1, Amounts DEF Row, Sound
<1>5. Gentle(row, new, now)
  BY <1>2, <1>3, <1>4, Amounts DEF Gentle
<1>. QED
  BY <1>5, GentleSound

LEMMA MergedSound ==
  ASSUME NEW row, NEW now \in Nat, Sound(row, now), NEW X \in SUBSET Observation
  PROVE  Sound([row EXCEPT !.sources = X, !.updated = now, !.archived = FALSE], now)
<1> DEFINE new == [row EXCEPT !.sources = X, !.updated = now, !.archived = FALSE]
<1>1. row \in Row
  BY DEF Sound
<1>2. new \in Row
  BY <1>1 DEF Row
<1>3. /\ new.created = row.created /\ new.updated = now
      /\ new.confidence = row.confidence /\ new.usage = row.usage
  BY <1>1 DEF Row
<1>4. row.updated \in Nat /\ row.updated <= now /\ row.confidence \in Int /\ row.usage \in Nat
  BY <1>1, Amounts DEF Row, Sound
<1>5. Gentle(row, new, now)
  BY <1>2, <1>3, <1>4, Amounts DEF Gentle
<1>. QED
  BY <1>5, GentleSound

LEMMA ArchivedSound ==
  ASSUME NEW row, NEW now \in Nat, Sound(row, now)
  PROVE  Sound([row EXCEPT !.archived = TRUE, !.updated = now], now)
<1> DEFINE new == [row EXCEPT !.archived = TRUE, !.updated = now]
<1>1. row \in Row
  BY DEF Sound
<1>2. new \in Row
  BY <1>1 DEF Row
<1>3. /\ new.created = row.created /\ new.updated = now
      /\ new.confidence = row.confidence /\ new.usage = row.usage
  BY <1>1 DEF Row
<1>4. row.updated \in Nat /\ row.updated <= now /\ row.confidence \in Int /\ row.usage \in Nat
  BY <1>1, Amounts DEF Row, Sound
<1>5. Gentle(row, new, now)
  BY <1>2, <1>3, <1>4, Amounts DEF Gentle
<1>. QED
  BY <1>5, GentleSound

LEMMA UsedSound ==
  ASSUME week \in Nat, NEW row, Sound(row, week)
  PROVE  Sound(Used(row), week)
<1> DEFINE more == Smaller(FullConfidence, row.confidence + UsageBonus)
<1> DEFINE uses == row.usage + 1
<1> DEFINE new == [row EXCEPT !.usage = uses, !.updated = week, !.confidence = more]
<1>1. row \in Row /\ row.confidence \in 2..20 /\ row.usage \in Nat /\ row.updated <= week
      /\ row.updated \in Nat
  BY Amounts DEF Sound, Row
<1>2. /\ more \in FloorConfidence..FullConfidence
      /\ more >= row.confidence \/ more = FullConfidence
      /\ more - row.confidence <= UsageBonus
      /\ uses \in Nat /\ uses - row.usage = 1
  BY <1>1, Amounts DEF Smaller
<1> HIDE DEF more, uses
<1>3. new \in Row
  BY <1>1, <1>2 DEF Row
<1>4. /\ new.created = row.created /\ new.updated = week
      /\ new.confidence = more /\ new.usage = uses
  BY <1>1 DEF Row
<1>5. Gentle(row, new, week)
  BY <1>1, <1>2, <1>3, <1>4, Amounts DEF Gentle
<1>6. Used(row) = new
  BY DEF Used, more, uses
<1>. QED
  BY <1>5, <1>6, GentleSound

LEMMA DecayedSound ==
  ASSUME week \in Nat, NEW row, Sound(row, week)
  PROVE  Sound(Decayed(row), week)
<1> DEFINE less == Greater(FloorConfidence, row.confidence - Since(row.updated))
<1> DEFINE new == [row EXCEPT !.confidence = less, !.updated = week]
<1>1. row \in Row /\ row.confidence \in 2..20 /\ row.usage \in Nat /\ row.updated <= week
      /\ row.updated \in Nat
  BY Amounts DEF Sound, Row
<1>2. /\ less \in FloorConfidence..FullConfidence
      /\ less >= row.confidence - (week - row.updated)
      /\ less <= row.confidence
  BY <1>1, Amounts DEF Greater, Since
<1> HIDE DEF less
<1>3. new \in Row
  BY <1>1, <1>2 DEF Row
<1>4. /\ new.created = row.created /\ new.updated = week
      /\ new.confidence = less /\ new.usage = row.usage
  BY <1>1 DEF Row
<1>5. Gentle(row, new, week)
  BY <1>1, <1>2, <1>3, <1>4, Amounts DEF Gentle
<1>6. Decayed(row) = new
  BY DEF Decayed, less
<1>. QED
  BY <1>5, <1>6, GentleSound

LEMMA MoveSound ==
  ASSUME IInv, NEW i \in Save, RowMove(i)
  PROVE  Deleted(i) \/ Sound(rows'[i], week)
<1>. week \in Nat
  BY ClockAssumption DEF IInv, TypeOK
<1>0. ASSUME Stored(i) PROVE Sound(rows[i], week)
  BY <1>0, RowsSound DEF IInv
<1>1. CASE Inserted(i)
  BY <1>1, FreshSound DEF Inserted, IInv
<1>2. CASE Merges(i)
  <2>1. PICK c \in Save : /\ call[c].pc = "write" /\ call[c].match = i
                          /\ rows'[i] = MergedRow(c)
    BY <1>2 DEF Merges
  <2>2. call[c].match # None
    BY <2>1, NoneAssumption
  <2>3. Sound(rows[i], week) /\ call[c].read = rows[i].sources
    BY <2>1, <2>2, MatchSound
  <2>4. call[c].read \cup SourcesOf(c) \in SUBSET Observation
    BY <2>3, SourceAssumption DEF SourcesOf, Sound, Row
  <2>5. rows'[i] = [rows[i] EXCEPT !.sources = call[c].read \cup SourcesOf(c),
                                   !.updated = week, !.archived = FALSE]
    BY <2>1 DEF MergedRow
  <2>. QED
    <3>1. Sound([rows[i] EXCEPT !.sources = call[c].read \cup SourcesOf(c),
                                !.updated = week, !.archived = FALSE], week)
      BY <2>3, <2>4, MergedSound
    <3>. QED
      BY <2>5, <3>1
<1>3. CASE Linked(i)
  <2>1. PICK o \in Observation :
          rows'[i] = [rows[i] EXCEPT !.sources = @ \cup {o}, !.updated = week]
    BY <1>3 DEF Linked
  <2>2. Sound(rows[i], week)
    BY <1>0, <1>3 DEF Linked, Live
  <2>3. rows[i].sources \cup {o} \in SUBSET Observation
    BY <2>2 DEF Sound, Row
  <2>. QED
    <3>1. Sound([rows[i] EXCEPT !.sources = rows[i].sources \cup {o}, !.updated = week], week)
      BY <2>2, <2>3, LinkedSound
    <3>. QED
      BY <2>1, <3>1
<1>4. CASE Counted(i)
  BY <1>0, <1>4, UsedSound DEF Counted, Live, IInv
<1>5. CASE Decay(i)
  BY <1>0, <1>5, DecayedSound DEF Decay, Decays, Live, IInv
<1>6. CASE Archived(i)
  BY <1>0, <1>6, ArchivedSound DEF Archived, Archivable, Live
<1>. QED
  BY <1>1, <1>2, <1>3, <1>4, <1>5, <1>6 DEF RowMove

\* Rows that were sound stay so as the clock advances.
LEMMA LaterSound ==
  ASSUME NEW row, NEW now \in Nat, NEW later \in Nat, now <= later, Sound(row, now)
  PROVE  Sound(row, later)
  BY DEF Sound, Row

-----------------------------------------------------------------------------
(* The calls and the clocks *)

LEMMA CallsTyped ==
  ASSUME TypeOK, LookStands, Next
  PROVE  call' \in [Save -> Call]
<1>0. ASSUME NEW c \in Save, NEW one \in Call, call' = [call EXCEPT ![c] = one]
      PROVE  call' \in [Save -> Call]
  BY <1>0 DEF TypeOK
<1>1. ASSUME NEW c \in Save, save_knowledge_with_id(c) \/ Begin(c)
      PROVE  call' \in [Save -> Call]
  BY <1>1 DEF save_knowledge_with_id, Begin, At, TypeOK, Call
<1>2. ASSUME NEW c \in Save, Match(c)
      PROVE  call' \in [Save -> Call]
  <2>1. CASE Matches(c) = {}
    BY <1>2, <2>1 DEF Match, TypeOK, Call
  <2>2. CASE Matches(c) # {}
    <3>1. PICK i \in Matches(c) :
            call' = [call EXCEPT ![c].pc = "write", ![c].match = i, ![c].read = rows[i].sources]
      BY <1>2, <2>2 DEF Match
    <3>2. i \in Save /\ Stored(i)
      BY <3>1 DEF Matches, SameTitled, find_trigram_similar_in_tx, find_semantic_similar_in_tx, Live
    <3>3. rows[i].sources \in SUBSET Observation
      BY <3>2 DEF TypeOK, Stored, Row
    <3> DEFINE X == rows[i].sources
    <3> HIDE DEF X
    <3>4. X \in SUBSET Observation /\ i \in Save \cup {None}
      BY <3>2, <3>3 DEF X
    <3>5. call' = [call EXCEPT ![c] = [@ EXCEPT !.pc = "write", !.match = i, !.read = X]]
      BY <3>1 DEF X, TypeOK, Call
    <3>6. \A one \in Call : [one EXCEPT !.pc = "write", !.match = i, !.read = X] \in Call
      BY <3>4 DEF Call
    <3>. QED
      BY <1>0, <3>5, <3>6 DEF TypeOK
  <2>. QED
    BY <2>1, <2>2
<1>3. ASSUME NEW c \in Save, CommitUnanswered(c) \/ Rollback(c) \/ link_source_observation(c)
      PROVE  call' \in [Save -> Call]
  <2>1. Outside("idle") \in Call /\ Outside("done") \in Call
    BY DEF Outside, Call
  <2>2. \E one \in {Outside("idle"), Outside("done")} : call' = [call EXCEPT ![c] = one]
    BY <1>3 DEF CommitUnanswered, Rollback, link_source_observation, Ended
  <2>. QED
    BY <1>0, <2>1, <2>2
<1>4. ASSUME NEW c \in Save, Commit(c)
      PROVE  call' \in [Save -> Call]
  <2> DEFINE saved == IF call[c].match = None THEN c ELSE call[c].match
  <2>1. saved \in Save
    BY DEF TypeOK, Call
  <2> HIDE DEF saved
  <2>2. /\ [Outside("link") EXCEPT !.match = saved] \in Call
        /\ Outside("done") \in Call
    BY <2>1 DEF Outside, Call
  <2>3. \/ call' = [call EXCEPT ![c] = [Outside("link") EXCEPT !.match = saved]]
        \/ call' = [call EXCEPT ![c] = Outside("done")]
    BY <1>4 DEF Commit, Ended, saved
  <2>. QED
    BY <1>0, <2>2, <2>3
<1>. QED
  <2>1. CASE UNCHANGED call
    BY <2>1 DEF TypeOK
  <2>. QED
    BY <1>1, <1>2, <1>3, <1>4, <2>1 DEF Next, get_knowledge, update_knowledge_usage_batch,
       UsageLost, delete_knowledge, decay_confidence, auto_archive, SweepFails, Tick

LEMMA RestTyped ==
  ASSUME TypeOK, LookStands, UsesKnown, Next
  PROVE  /\ reads' \in [Save -> Nat] /\ used' \in [Save -> Nat]
         /\ sweep' \in [Sweep -> {"idle", "archive"}]
         /\ touched' \subseteq Save /\ faults' \in 0..MaxFaults
<1>. USE DEF TypeOK
<1>1. ASSUME NEW c \in Save,
             \/ save_knowledge_with_id(c) \/ Begin(c) \/ Match(c) \/ Commit(c)
             \/ CommitUnanswered(c) \/ Rollback(c)
      PROVE  UNCHANGED <<reads, used, sweep>> /\ touched' \subseteq Save
  BY <1>1 DEF save_knowledge_with_id, Begin, Match, Commit, CommitUnanswered, Rollback,
     save_knowledge_inner, Call
<1>2. ASSUME NEW c \in Save, link_source_observation(c)
      PROVE  UNCHANGED <<reads, used, sweep>> /\ touched' \subseteq Save
  BY <1>2 DEF link_source_observation, LookStands, Call
<1>3. ASSUME NEW i \in Save,
             get_knowledge(i) \/ update_knowledge_usage_batch(i) \/ UsageLost(i) \/ delete_knowledge(i)
      PROVE  /\ reads' \in [Save -> Nat] /\ used' \in [Save -> Nat]
             /\ sweep' = sweep /\ touched' = touched
  <2>1. Recorded(i) \in Nat
    BY DEF Recorded, Stored, Row
  <2>2. reads[i] > 0 => used[i] > 0
    BY <2>1 DEF UsesKnown
  <2>. QED
    BY <1>3, <2>2 DEF get_knowledge, update_knowledge_usage_batch, UsageLost, delete_knowledge
<1>4. ASSUME NEW w \in Sweep, decay_confidence(w) \/ auto_archive(w) \/ SweepFails(w)
      PROVE  /\ UNCHANGED <<reads, used>> /\ sweep' \in [Sweep -> {"idle", "archive"}]
             /\ touched' = touched
  BY <1>4 DEF decay_confidence, auto_archive, SweepFails
<1>5. CASE Tick
  BY <1>5 DEF Tick
<1>6. faults' = faults \/ Fault
  BY DEF Next, save_knowledge_with_id, Begin, Match, Commit, CommitUnanswered, Rollback,
     link_source_observation, get_knowledge, update_knowledge_usage_batch, UsageLost,
     delete_knowledge, decay_confidence, auto_archive, SweepFails, Tick
<1>7. faults' \in 0..MaxFaults
  BY <1>6, ClockAssumption DEF Fault
<1>. QED
  BY <1>1, <1>2, <1>3, <1>4, <1>5, <1>7 DEF Next

LEMMA RowsMapped ==
  ASSUME TypeOK, LookStands, Next, NEW S, \A i \in Save : rows[i] \in S /\ rows'[i] \in S
  PROVE  rows' \in [Save -> S]
<1>0. rows \in [Save -> S]
  BY DEF TypeOK
<1>1. ASSUME NEW c \in Save, Commit(c) \/ CommitUnanswered(c)
      PROVE  rows' \in [Save -> S]
  <2>1. \E i \in Save : \E row \in {FreshRow(c), MergedRow(c)} : rows' = [rows EXCEPT ![i] = row]
    BY <1>1 DEF Commit, CommitUnanswered, save_knowledge_inner, TypeOK, Call
  <2>. QED
    BY <1>0, <2>1
<1>2. ASSUME NEW c \in Save, link_source_observation(c)
      PROVE  rows' \in [Save -> S]
  <2>1. CASE rows' = rows
    BY <1>0, <2>1
  <2>2. CASE rows' # rows
    <3>1. PICK o \in Observation :
            rows' = [rows EXCEPT ![call[c].match].sources = @ \cup {o}, ![call[c].match].updated = week]
      BY <1>2, <2>2 DEF link_source_observation
    <3>2. call[c].match \in Save
      BY <1>2 DEF link_source_observation, LookStands, TypeOK, Call
    <3>. QED
      BY <1>0, <3>1, <3>2
  <2>. QED
    BY <2>1, <2>2
<1>3. ASSUME NEW i \in Save, update_knowledge_usage_batch(i) \/ delete_knowledge(i)
      PROVE  rows' \in [Save -> S]
  BY <1>0, <1>3 DEF update_knowledge_usage_batch, delete_knowledge
<1>4. ASSUME NEW w \in Sweep, decay_confidence(w) \/ auto_archive(w)
      PROVE  rows' \in [Save -> S]
  <2>1. CASE decay_confidence(w)
    <3>1. rows' = [i \in Save |-> IF Decays(i) THEN Decayed(rows[i]) ELSE rows[i]]
      BY <2>1 DEF decay_confidence
    <3>. QED
      BY <3>1
  <2>2. CASE auto_archive(w)
    <3>1. rows' = [i \in Save |-> IF Archivable(i)
                                 THEN [rows[i] EXCEPT !.archived = TRUE, !.updated = week]
                                 ELSE rows[i]]
      BY <2>2 DEF auto_archive
    <3>. QED
      BY <3>1
  <2>. QED
    BY <1>4, <2>1, <2>2
<1>5. CASE rows' = rows
  BY <1>0, <1>5
<1>. QED
  BY <1>1, <1>2, <1>3, <1>4, <1>5 DEF Next, save_knowledge_with_id, Begin, Match, Rollback,
     get_knowledge, UsageLost, SweepFails, Tick

LEMMA ClockTyped ==
  ASSUME TypeOK, RowStep
  PROVE  week \in Nat /\ week' \in 0..MaxWeek /\ week <= week'
  BY ClockAssumption DEF TypeOK, RowStep

\* Every row is sound after a step.
LEMMA AllSound ==
  ASSUME IInv, RowStep, NEW i \in Save
  PROVE  rows'[i] = None \/ Sound(rows'[i], week')
<1>1. week \in Nat /\ week' \in Nat /\ week <= week'
  BY ClockTyped, ClockAssumption DEF IInv
<1>2. rows[i] = None \/ Sound(rows[i], week)
  BY RowsSound DEF IInv, Stored
<1>3. CASE rows'[i] = rows[i]
  BY <1>1, <1>2, <1>3, LaterSound
<1>4. CASE week' = week /\ RowMove(i)
  BY <1>4, MoveSound DEF Deleted
<1>. QED
  BY <1>3, <1>4 DEF RowStep

LEMMA RowsTyped ==
  ASSUME IInv, Next, RowStep
  PROVE  /\ rows' \in [Save -> Row \cup {None}] /\ week' \in 0..MaxWeek
         /\ Ages' /\ Accounted'
<1>1. \A i \in Save : rows'[i] \in Row \cup {None}
  BY AllSound DEF Sound
<1>2. \A i \in Save : rows[i] \in Row \cup {None}
  BY DEF IInv, TypeOK
<1>3. rows' \in [Save -> Row \cup {None}]
  BY <1>1, <1>2, RowsMapped DEF IInv
<1>4. week' \in 0..MaxWeek
  BY ClockTyped DEF IInv
<1>5. Ages' /\ Accounted'
  BY AllSound DEF Ages, Accounted, Stored, Sound
<1>. QED
  BY <1>3, <1>4, <1>5

-----------------------------------------------------------------------------
(* The lock and what is looked up under it *)

\* A save's own step: it gets the lock only if nobody else has it.
OwnStep(c) ==
  /\ \A d \in Save \ {c} : call'[d] = call[d]
  /\ call'[c].pc \in {"match", "write"} => Holds(c) \/ LockFree(c)

LEMMA CallSteps ==
  ASSUME TypeOK, Next
  PROVE  UNCHANGED call \/ \E c \in Save : OwnStep(c)
<1>1. ASSUME NEW c \in Save, save_knowledge_with_id(c) \/ Begin(c)
      PROVE  OwnStep(c)
  BY <1>1 DEF save_knowledge_with_id, Begin, At, OwnStep, TypeOK, Call
<1>2. ASSUME NEW c \in Save, Match(c)
      PROVE  OwnStep(c)
  <2>1. Holds(c)
    BY <1>2 DEF Match, Holds
  <2>2. CASE Matches(c) = {}
    BY <1>2, <2>1, <2>2 DEF Match, OwnStep, TypeOK
  <2>3. CASE Matches(c) # {}
    BY <1>2, <2>1, <2>3 DEF Match, OwnStep, TypeOK
  <2>. QED
    BY <2>2, <2>3
<1>3. ASSUME NEW c \in Save, Commit(c) \/ CommitUnanswered(c) \/ Rollback(c)
      PROVE  OwnStep(c)
  <2>1. Holds(c)
    BY <1>3 DEF Commit, CommitUnanswered, Rollback, Holds
  <2>2. \A d \in Save \ {c} : call'[d] = call[d]
    BY <1>3 DEF Commit, CommitUnanswered, Rollback, Ended, TypeOK
  <2>. QED
    BY <2>1, <2>2 DEF OwnStep
<1>4. ASSUME NEW c \in Save, link_source_observation(c)
      PROVE  OwnStep(c)
  BY <1>4 DEF link_source_observation, Ended, Outside, OwnStep, TypeOK
<1>. QED
  BY <1>1, <1>2, <1>3, <1>4 DEF Next, get_knowledge, update_knowledge_usage_batch,
     UsageLost, delete_knowledge, decay_confidence, auto_archive, SweepFails, Tick

LEMMA LockKept ==
  ASSUME IInv, Next
  PROVE  OneHolder'
<1>1. CASE UNCHANGED call
  BY <1>1 DEF IInv, OneHolder, Holds
<1>2. ASSUME NEW c \in Save, OwnStep(c)
      PROVE  OneHolder'
  BY <1>2 DEF IInv, OneHolder, Holds, OwnStep, LockFree
<1>. QED
  BY <1>1, <1>2, CallSteps DEF IInv

\* While a save holds the lock and goes on, no row is inserted or merged.
LEMMA OnlyTheHolderWrites ==
  ASSUME IInv, NEW c \in Save, Holds(c), call'[c] = call[c], NEW j \in Save, RowMove(j)
  PROVE  /\ Linked(j) \/ Counted(j) \/ Decay(j) \/ Archived(j) \/ Deleted(j)
         /\ ~Locked(j)
<1>1. ~Inserted(j)
  BY DEF IInv, OneHolder, Inserted, Holds
<1>2. ~Merges(j)
  BY DEF IInv, OneHolder, Merges, Holds
<1>. QED
  BY <1>1, <1>2 DEF RowMove, Linked, Counted, Decay, Archived, Deleted

\* Such moves neither store nor revive a row.
LEMMA NothingRevived ==
  ASSUME IInv, NEW c \in Save, Holds(c), call'[c] = call[c], RowStep, NEW j \in Save
  PROVE  /\ Stored(j)' => Stored(j)
         /\ Live(j)' => Live(j)
<1>1. CASE rows'[j] = rows[j]
  BY <1>1 DEF Stored, Live
<1>2. CASE RowMove(j)
  <2>1. Stored(j)
    BY <1>2, OnlyTheHolderWrites DEF Linked, Counted, Decay, Decays, Archived, Archivable, Deleted, Live
  <2>2. CASE Deleted(j)
    BY <2>1, <2>2 DEF Deleted, Live, Stored
  <2>3. CASE ~Deleted(j)
    BY <1>2, <2>1, <2>3, OnlyTheHolderWrites
    DEF Linked, Counted, Decay, Decays, Archived, Archivable
  <2>. QED
    BY <2>2, <2>3
<1>. QED
  BY <1>1, <1>2 DEF RowStep

LEMMA LockedRowKept ==
  ASSUME IInv, NEW c \in Save, call[c].pc = "write", call'[c] = call[c],
         call[c].match \in Save, RowStep
  PROVE  rows'[call[c].match] = rows[call[c].match]
<1>1. Holds(c) /\ Locked(call[c].match)
  BY DEF Holds, Locked
<1>. QED
  BY <1>1, OnlyTheHolderWrites DEF RowStep

\* What stands for one save after a step.
Stands(c) ==
  /\ call[c].pc = "write" /\ call[c].match = None => Unlike(c)
  /\ call[c].pc = "write" /\ call[c].match # None => MatchAsRead(c)
  /\ call[c].pc = "link" => call[c].match # None

LEMMA OthersStand ==
  ASSUME IInv, RowStep, NEW c \in Save, call'[c] = call[c]
  PROVE  Stands(c)'
<1>1. Stands(c)
  BY DEF IInv, LookStands, Stands
<1>2. CASE call[c].pc = "write" /\ call[c].match = None
  <2>1. Unlike(c) /\ Holds(c)
    BY <1>1, <1>2 DEF Stands, Holds
  <2>2. Unlike(c)'
    BY <2>1, NothingRevived DEF Unlike
  <2>. QED
    BY <1>2, <2>2 DEF Stands
<1>3. CASE call[c].pc = "write" /\ call[c].match # None
  <2>1. MatchAsRead(c) /\ call[c].match \in Save
    BY <1>1, <1>3 DEF Stands, IInv, TypeOK, Call
  <2>2. rows'[call[c].match] = rows[call[c].match]
    BY <1>3, <2>1, LockedRowKept
  <2>. QED
    BY <1>3, <2>1, <2>2 DEF Stands, MatchAsRead, Stored
<1>4. CASE call[c].pc # "write"
  BY <1>1, <1>4 DEF Stands
<1>. QED
  BY <1>2, <1>3, <1>4

LEMMA MatchStands ==
  ASSUME IInv, NEW c \in Save, Match(c)
  PROVE  Stands(c)'
<1>0. UNCHANGED rows
  BY DEF Match
<1>1. CASE Matches(c) = {}
  <2>1. call'[c].pc = "write" /\ call'[c].match = None
    BY <1>1 DEF Match, IInv, TypeOK, Call
  <2>2. SameTitled(c) = {} /\ find_trigram_similar_in_tx(c) = {}
    BY <1>1 DEF Matches
  <2>3. Unlike(c)
    BY <2>2 DEF SameTitled, find_trigram_similar_in_tx, Unlike
  <2>. QED
    BY <1>0, <2>1, <2>3 DEF Stands, Unlike, Stored, Live
<1>2. CASE Matches(c) # {}
  <2>1. PICK i \in Matches(c) :
          call' = [call EXCEPT ![c].pc = "write", ![c].match = i, ![c].read = rows[i].sources]
    BY <1>2 DEF Match
  <2>2. i \in Save /\ Stored(i)
    BY <2>1 DEF Matches, SameTitled, find_trigram_similar_in_tx, find_semantic_similar_in_tx, Live
  <2> DEFINE X == rows[i].sources
  <2> HIDE DEF X
  <2>3. call' = [call EXCEPT ![c] = [@ EXCEPT !.pc = "write", !.match = i, !.read = X]]
    BY <2>1 DEF X, IInv, TypeOK, Call
  <2>4. call[c] \in Call /\ call \in [Save -> Call]
    BY DEF IInv, TypeOK
  <2>5. call'[c] = [call[c] EXCEPT !.pc = "write", !.match = i, !.read = X]
    BY <2>3, <2>4
  <2>6. call'[c].pc = "write" /\ call'[c].match = i /\ call'[c].read = X
    BY <2>4, <2>5 DEF Call
  <2>7. i # None
    BY <2>2, NoneAssumption
  <2>. QED
    BY <1>0, <2>2, <2>6, <2>7 DEF Stands, MatchAsRead, Stored, X
<1>. QED
  BY <1>1, <1>2

\* A save that does not write, and names a match if it is to link it.
Away(c) == call'[c].pc # "write" /\ (call'[c].pc = "link" => call'[c].match # None)

LEMMA OwnStepsStand ==
  ASSUME IInv, NEW c \in Save,
         \/ save_knowledge_with_id(c) \/ Begin(c) \/ Match(c) \/ Commit(c)
         \/ CommitUnanswered(c) \/ Rollback(c) \/ link_source_observation(c)
  PROVE  /\ Stands(c)'
         /\ \A d \in Save \ {c} : call'[d] = call[d]
<1>. USE DEF IInv, TypeOK
<1>1. CASE save_knowledge_with_id(c) \/ Begin(c)
  <2>1. Away(c) /\ \A d \in Save \ {c} : call'[d] = call[d]
    BY <1>1 DEF save_knowledge_with_id, Begin, At, Away, Call
  <2>. QED
    BY <2>1 DEF Away, Stands
<1>2. CASE Match(c)
  <2>1. \A d \in Save \ {c} : call'[d] = call[d]
    BY <1>2 DEF Match
  <2>. QED
    BY <1>2, <2>1, MatchStands
<1>3. CASE CommitUnanswered(c) \/ Rollback(c) \/ link_source_observation(c)
  <2>1. \E pc \in {"idle", "done"} : call' = [call EXCEPT ![c] = Outside(pc)]
    BY <1>3 DEF CommitUnanswered, Rollback, link_source_observation, Ended
  <2>2. Away(c) /\ \A d \in Save \ {c} : call'[d] = call[d]
    BY <2>1 DEF Outside, Away
  <2>. QED
    BY <2>2 DEF Away, Stands
<1>4. CASE Commit(c)
  <2> DEFINE saved == IF call[c].match = None THEN c ELSE call[c].match
  <2>1. saved # None
    BY NoneAssumption
  <2> HIDE DEF saved
  <2>2. \/ call' = [call EXCEPT ![c] = [Outside("link") EXCEPT !.match = saved]]
        \/ call' = [call EXCEPT ![c] = Outside("done")]
    BY <1>4 DEF Commit, Ended, saved
  <2>3. Away(c) /\ \A d \in Save \ {c} : call'[d] = call[d]
    BY <2>1, <2>2 DEF Outside, Away
  <2>. QED
    BY <2>3 DEF Away, Stands
<1>. QED
  BY <1>1, <1>2, <1>3, <1>4

LEMMA LookKept ==
  ASSUME IInv, Next
  PROVE  LookStands'
<1>1. RowStep
  BY RowSteps DEF IInv
<1>2. \A c \in Save : Stands(c)'
  <2>1. CASE UNCHANGED call
    BY <1>1, <2>1, OthersStand
  <2>2. ASSUME NEW c \in Save,
               \/ save_knowledge_with_id(c) \/ Begin(c) \/ Match(c) \/ Commit(c)
               \/ CommitUnanswered(c) \/ Rollback(c) \/ link_source_observation(c)
        PROVE  \A d \in Save : Stands(d)'
    BY <1>1, <2>2, OwnStepsStand, OthersStand
  <2>. QED
    BY <2>1, <2>2 DEF Next, get_knowledge, update_knowledge_usage_batch,
       UsageLost, delete_knowledge, decay_confidence, auto_archive, SweepFails, Tick
<1>. QED
  BY <1>2 DEF Stands, LookStands

-----------------------------------------------------------------------------
(* Uses *)

\* What a step of the specification does to the rows.
LEMMA StepRows ==
  ASSUME IInv, [Next]_vars, NEW i \in Save
  PROVE  rows'[i] = rows[i] \/ RowMove(i)
<1>1. CASE Next
  BY <1>1, RowSteps DEF IInv, RowStep
<1>2. CASE UNCHANGED vars
  BY <1>2 DEF vars
<1>. QED
  BY <1>1, <1>2

\* Only an existing row is merged into, and only a missing one is inserted.
LEMMA WriteMeetsLook ==
  ASSUME IInv, NEW i \in Save
  PROVE  /\ Inserted(i) => ~Stored(i) /\ Unlike(i)
         /\ Merges(i) => /\ Stored(i)
                         /\ \E X : rows'[i] = [rows[i] EXCEPT !.sources = rows[i].sources \cup X,
                                                            !.updated = week, !.archived = FALSE]
<1>1. ASSUME Inserted(i) PROVE ~Stored(i) /\ Unlike(i)
  <2>1. Unlike(i)
    BY <1>1 DEF IInv, LookStands, Inserted
  <2>. QED
    BY <2>1, PairsAssumption DEF Unlike
<1>2. ASSUME NEW c \in Save, call[c].pc = "write", call[c].match = i, rows'[i] = MergedRow(c)
      PROVE  /\ Stored(i)
             /\ rows'[i] = [rows[i] EXCEPT !.sources = rows[i].sources \cup SourcesOf(c),
                                           !.updated = week, !.archived = FALSE]
  <2>1. MatchAsRead(c)
    BY <1>2, NoneAssumption DEF IInv, LookStands
  <2>. QED
    BY <1>2, <2>1 DEF MatchAsRead, MergedRow
<1>. QED
  BY <1>1, <1>2 DEF Merges

\* A step that runs no usage task answers nobody and leaves the counts alone.
LEMMA RecordKept ==
  ASSUME IInv, RowStep, NEW i \in Save, UNCHANGED <<reads, used>>
  PROVE  used'[i] = reads'[i] + Recorded(i)'
<1>1. used[i] = reads[i] + Recorded(i) /\ reads[i] \in Nat
  BY DEF IInv, UsesKnown, TypeOK
<1>2. SUFFICES ASSUME Recorded(i)' # Recorded(i)
               PROVE  used[i] = reads[i] + Recorded(i)'
  BY <1>1
<1>3. rows'[i] # rows[i] /\ RowMove(i)
  BY <1>2 DEF RowStep, Recorded, Stored
<1>4. ~Inserted(i)
  <2>1. SUFFICES ASSUME Inserted(i) PROVE FALSE
    OBVIOUS
  <2>2. Recorded(i) = 0
    BY <2>1, WriteMeetsLook DEF Recorded
  <2>3. rows'[i].usage = 0
    BY <2>1 DEF Inserted, FreshRow
  <2>. QED
    BY <1>2, <2>2, <2>3 DEF Recorded
<1>5. Stored(i) /\ rows[i] \in Row /\ Recorded(i) = rows[i].usage
  BY <1>3, <1>4, WriteMeetsLook
     DEF RowMove, Linked, Counted, Decay, Decays, Archived, Archivable, Deleted, Live,
         Stored, Recorded, IInv, TypeOK
<1>6. ~Counted(i)
  BY <1>1 DEF Counted
<1>7. CASE Deleted(i)
  BY <1>1, <1>7 DEF Deleted, Recorded, Stored
<1>8. CASE ~Deleted(i)
  <2>1. rows'[i] # None
    BY <1>3, <1>8, MoveSound, NoneAssumption DEF Sound
  <2>2. CASE Merges(i)
    <3>1. ASSUME NEW X, rows'[i] = [rows[i] EXCEPT !.sources = rows[i].sources \cup X,
                                            !.updated = week, !.archived = FALSE]
          PROVE  rows'[i].usage = rows[i].usage
      BY <1>5, <3>1 DEF Row
    <3>. QED
      BY <1>2, <1>5, <2>1, <2>2, <3>1, WriteMeetsLook DEF Recorded, Stored
  <2>3. CASE Linked(i) \/ Decay(i) \/ Archived(i)
    <3>1. rows'[i].usage = rows[i].usage
      BY <1>5, <2>3 DEF Linked, Decay, Decayed, Archived, Row
    <3>. QED
      BY <1>2, <1>5, <2>1, <3>1 DEF Recorded, Stored
  <2>. QED
    BY <1>3, <1>4, <1>6, <1>8, <2>2, <2>3 DEF RowMove
<1>. QED
  BY <1>7, <1>8

LEMMA UsesKept ==
  ASSUME IInv, Next
  PROVE  UsesKnown'
<1>1. RowStep /\ TypeOK /\ UsesKnown
  BY RowSteps DEF IInv
<1>2. SUFFICES ASSUME NEW i \in Save
               PROVE  used'[i] = reads'[i] + Recorded(i)'
  BY DEF UsesKnown
<1>3. used[i] = reads[i] + Recorded(i) /\ reads[i] \in Nat /\ Recorded(i) \in Nat
  BY <1>1 DEF UsesKnown, TypeOK, Recorded, Stored, Row
<1>4. CASE UNCHANGED <<reads, used>>
  BY <1>1, <1>4, RecordKept
<1>5. ASSUME NEW j \in Save, get_knowledge(j) \/ UsageLost(j)
      PROVE  used'[i] = reads'[i] + Recorded(i)'
  BY <1>1, <1>3, <1>5 DEF get_knowledge, UsageLost, Recorded, Stored, TypeOK
<1>6. ASSUME NEW j \in Save, update_knowledge_usage_batch(j)
      PROVE  used'[i] = reads'[i] + Recorded(i)'
  <2>1. CASE ~Live(j) \/ i # j
    BY <1>1, <1>3, <1>6, <2>1
       DEF update_knowledge_usage_batch, Recorded, Stored, TypeOK
  <2>2. CASE Live(j) /\ i = j
    <3>1. /\ rows'[i] = Used(rows[i]) /\ used' = used /\ reads'[i] = reads[i] - 1
          /\ rows[i] \in Row /\ Stored(i)
      BY <1>1, <1>6, <2>2 DEF update_knowledge_usage_batch, Live, Stored, TypeOK
    <3>2. rows'[i].usage = rows[i].usage + 1
      BY <3>1 DEF Used, Row
    <3>3. Sound(Used(rows[i]), week)
      BY <1>1, <3>1, RowsSound, UsedSound, ClockAssumption DEF IInv, TypeOK
    <3>4. rows'[i] # None
      BY <3>1, <3>3, NoneAssumption DEF Sound
    <3>. QED
      BY <1>3, <3>1, <3>2, <3>4 DEF Recorded, Stored
  <2>. QED
    BY <2>1, <2>2
<1>7. ASSUME NEW j \in Save, delete_knowledge(j)
      PROVE  used'[i] = reads'[i] + Recorded(i)'
  BY <1>1, <1>3, <1>7 DEF delete_knowledge, Recorded, Stored, TypeOK
<1>. QED
  BY <1>4, <1>5, <1>6, <1>7 DEF Next, save_knowledge_with_id, Begin, Match, Commit,
     CommitUnanswered, Rollback, link_source_observation, decay_confidence, auto_archive,
     SweepFails, Tick

-----------------------------------------------------------------------------
(* The invariant and the theorems *)

LEMMA InitInv ==
  ASSUME Init
  PROVE  IInv
<1>1. TypeOK
  BY ClockAssumption DEF Init, TypeOK, Call, Outside
<1>2. Ages /\ Accounted
  BY DEF Init, Ages, Accounted, Stored
<1>3. OneHolder /\ LookStands
  BY DEF Init, OneHolder, Holds, LookStands, Outside
<1>4. UsesKnown
  BY DEF Init, UsesKnown, Recorded, Stored
<1>. QED
  BY <1>1, <1>2, <1>3, <1>4 DEF IInv

LEMMA NextInv ==
  ASSUME IInv, [Next]_vars
  PROVE  IInv'
<1>1. CASE Next
  <2>1. RowStep
    BY <1>1, RowSteps DEF IInv
  <2>2. /\ rows' \in [Save -> Row \cup {None}] /\ week' \in 0..MaxWeek
        /\ Ages' /\ Accounted'
    BY <1>1, <2>1, RowsTyped
  <2>3. TypeOK'
    BY <1>1, <2>2, CallsTyped, RestTyped DEF IInv, TypeOK
  <2>. QED
    BY <1>1, <2>2, <2>3, LockKept, LookKept, UsesKept DEF IInv
<1>2. CASE UNCHANGED vars
  <2>1. TypeOK'
    BY <1>2 DEF IInv, TypeOK, vars
  <2>2. Ages' /\ Accounted'
    BY <1>2 DEF IInv, Ages, Accounted, Stored, vars
  <2>3. OneHolder'
    BY <1>2 DEF IInv, OneHolder, Holds, vars
  <2>4. LookStands'
    BY <1>2 DEF IInv, LookStands, Unlike, MatchAsRead, Stored, Live, vars
  <2>5. UsesKnown'
    BY <1>2 DEF IInv, UsesKnown, Recorded, Stored, vars
  <2>. QED
    BY <2>1, <2>2, <2>3, <2>4, <2>5 DEF IInv
<1>. QED
  BY <1>1, <1>2

(* Every reachable state is typed, its rows' clocks are in order, at most  *)
(* one save holds the advisory lock, what it looked up still stands when   *)
(* save_knowledge_inner writes, and every use is known.                    *)
THEOREM Inductive == Spec => []IInv
<1>1. Init => IInv
  BY InitInv
<1>2. IInv /\ [Next]_vars => IInv'
  BY NextInv
<1>. QED
  BY <1>1, <1>2, PTL DEF Spec

(* Uses, decays, merges and links of any number of savers, readers and     *)
(* sweeps never take more confidence from a row than the weeks its         *)
(* updated_at has moved over, nor give it more than its uses.              *)
THEOREM ConfidenceIsAccounted == Spec => []ConfidenceAccounted
<1>1. IInv => ConfidenceAccounted
  BY DEF IInv, Accounted, ConfidenceAccounted
<1>. QED
  BY <1>1, Inductive, PTL

(* The column usage_count forgets no use: a sweep archives a row only when *)
(* every use answered with so far and not lost is a task still to be run,  *)
(* however sweeps, uses, merges, links, deletions and failures interleave. *)
THEOREM UsedRowsStay == Spec => UsedStays
<1>1. ASSUME IInv, [Next]_vars, NEW i \in Save,
             Live(i), rows'[i] # None, rows'[i].archived
      PROVE  used[i] <= reads[i]
  <2>1. rows[i] \in Row /\ ~rows[i].archived
    BY <1>1 DEF IInv, TypeOK, Live, Stored
  <2>2. rows'[i] # rows[i]
    BY <1>1, <2>1
  <2>3. ~Inserted(i) /\ ~Merges(i)
    <3>1. ~Inserted(i)
      BY <1>1, WriteMeetsLook DEF Live
    <3>2. CASE Merges(i)
      <4>1. PICK X : rows'[i] = [rows[i] EXCEPT !.sources = rows[i].sources \cup X,
                                                !.updated = week, !.archived = FALSE]
        BY <1>1, <3>2, WriteMeetsLook
      <4>. QED
        BY <1>1, <2>1, <4>1 DEF Row
    <3>. QED
      BY <3>1, <3>2
  <2>4. ~Linked(i) /\ ~Counted(i) /\ ~Decay(i) /\ ~Deleted(i)
    BY <1>1, <2>1 DEF Linked, Counted, Used, Decay, Decayed, Deleted, Row
  <2>5. Archivable(i)
    BY <1>1, <2>2, <2>3, <2>4, StepRows DEF RowMove, Archived
  <2>. QED
    BY <1>1, <2>5 DEF Archivable, Live, IInv, UsesKnown, Recorded, TypeOK
<1>2. IInv /\ [Next]_vars =>
        [\A i \in Save : (Live(i) /\ rows'[i] # None /\ rows'[i].archived)
                            => used[i] <= reads[i]]_vars
  BY <1>1
<1>. QED
  BY <1>2, Inductive, PTL DEF Spec, UsedStays

(* No merge loses a source: the list it writes back is the one it read,    *)
(* because the row lock keeps links out meanwhile.                         *)
THEOREM NoSourceLost == Spec => SourcesKept
<1>1. ASSUME IInv, [Next]_vars, NEW i \in Save, Stored(i), rows'[i] # None
      PROVE  rows[i].sources \subseteq rows'[i].sources
  <2>1. rows[i] \in Row
    BY <1>1 DEF IInv, TypeOK, Stored
  <2>2. CASE rows'[i] = rows[i]
    BY <2>2
  <2>3. CASE Inserted(i) \/ Merges(i)
    <3>1. PICK X : rows'[i] = [rows[i] EXCEPT !.sources = rows[i].sources \cup X,
                                            !.updated = week, !.archived = FALSE]
      BY <1>1, <2>3, WriteMeetsLook
    <3>2. rows'[i].sources = rows[i].sources \cup X
      BY <2>1, <3>1 DEF Row
    <3>. QED
      BY <3>2
  <2>4. CASE Linked(i)
    BY <2>1, <2>4 DEF Linked, Row
  <2>5. CASE Counted(i) \/ Decay(i) \/ Archived(i)
    BY <2>1, <2>5 DEF Counted, Used, Decay, Decayed, Archived, Row
  <2>. QED
    BY <1>1, <2>2, <2>3, <2>4, <2>5, StepRows DEF RowMove, Deleted
<1>2. IInv /\ [Next]_vars =>
        [\A i \in Save : (Stored(i) /\ rows'[i] # None)
                            => rows[i].sources \subseteq rows'[i].sources]_vars
  BY <1>1
<1>. QED
  BY <1>2, Inductive, PTL DEF Spec, SourcesKept

(* A row is inserted only where no row has its title and no live one a     *)
(* similar title: what the look found still holds at the insert.           *)
THEOREM InsertedIsNews == Spec => InsertsAreNews
<1>1. ASSUME IInv, [Next]_vars, NEW i \in Save, ~Stored(i), rows'[i] # None
      PROVE  \A j \in Save \ {i} : Stored(j) =>
               /\ <<i, j>> \notin SameTitle
               /\ <<i, j>> \in AlikeTitle => ~Live(j)
  <2>1. RowMove(i)
    BY <1>1, StepRows DEF Stored
  <2>2. Inserted(i)
    BY <1>1, <2>1, WriteMeetsLook
    DEF RowMove, Linked, Counted, Decay, Decays, Archived, Archivable, Deleted, Live
  <2>3. Unlike(i)
    BY <1>1, <2>2, WriteMeetsLook
  <2>. QED
    BY <2>3 DEF Unlike
<1>2. IInv /\ [Next]_vars =>
        [\A i \in Save : (~Stored(i) /\ rows'[i] # None) =>
           \A j \in Save \ {i} : Stored(j) =>
             /\ <<i, j>> \notin SameTitle
             /\ <<i, j>> \in AlikeTitle => ~Live(j)]_vars
  BY <1>1
<1>. QED
  BY <1>2, Inductive, PTL DEF Spec, InsertsAreNews

-----------------------------------------------------------------------------
(* What a lifecycle pass leaves behind *)

\* Of a row nobody used, saved or linked again: a step of confidence is gone for
\* each week that updated_at has moved over, down to the floor.
Faint(row) ==
  row.confidence <= Greater(FloorConfidence, InitialConfidence - (row.updated - row.created))
Faded == \A i \in Save \ touched : Live(i) /\ rows[i].usage = 0 => Faint(rows[i])

\* Between the statements of a sweep every live row has been decayed up to now.
UpToDate ==
  (\E w \in Sweep : sweep[w] = "archive") =>
    \A i \in Save : Live(i) =>
      rows[i].confidence = FloorConfidence \/ rows[i].updated = week

PassInv == IInv /\ Faded /\ UpToDate

\* What a step does to a row that stays untouched.
Unattended(i) ==
  \/ Inserted(i)
  \/ /\ i \notin touched
     /\ rows'[i] = rows[i] \/ Counted(i) \/ Decay(i) \/ Archived(i) \/ Deleted(i)

LEMMA UntouchedBySave ==
  ASSUME TypeOK, NEW c \in Save, Commit(c) \/ CommitUnanswered(c),
         NEW i \in Save \ touched'
  PROVE  Unattended(i)
<1>1. call[c].pc = "write" /\ save_knowledge_inner(c)
  BY DEF Commit, CommitUnanswered
<1>2. call'[c].pc # "write"
  BY DEF Commit, CommitUnanswered, Ended, Outside, TypeOK, Call
<1>3. CASE call[c].match = None
  BY <1>1, <1>2, <1>3 DEF save_knowledge_inner, Unattended, Inserted, TypeOK
<1>4. CASE call[c].match # None
  BY <1>1, <1>4 DEF save_knowledge_inner, Unattended, TypeOK
<1>. QED
  BY <1>3, <1>4

LEMMA UntouchedByLink ==
  ASSUME TypeOK, LookStands, NEW c \in Save, link_source_observation(c),
         NEW i \in Save \ touched'
  PROVE  Unattended(i)
<1>1. CASE UNCHANGED <<rows, touched>>
  BY <1>1 DEF Unattended
<1>2. CASE \E o \in Observation :
             /\ rows' = [rows EXCEPT ![call[c].match].sources = @ \cup {o},
                                     ![call[c].match].updated = week]
             /\ touched' = touched \cup {call[c].match}
  BY <1>2 DEF Unattended, TypeOK
<1>. QED
  BY <1>1, <1>2 DEF link_source_observation

LEMMA Untouched ==
  ASSUME TypeOK, LookStands, Next, NEW i \in Save \ touched'
  PROVE  Unattended(i)
<1>1. ASSUME NEW c \in Save, save_knowledge_with_id(c) \/ Begin(c) \/ Match(c) \/ Rollback(c)
      PROVE  Unattended(i)
  BY <1>1 DEF save_knowledge_with_id, Begin, Match, Rollback, Unattended
<1>2. ASSUME NEW j \in Save, get_knowledge(j) \/ UsageLost(j)
      PROVE  Unattended(i)
  BY <1>2 DEF get_knowledge, UsageLost, Unattended
<1>3. ASSUME NEW j \in Save, update_knowledge_usage_batch(j)
      PROVE  Unattended(i)
  BY <1>3 DEF update_knowledge_usage_batch, Unattended, Counted, TypeOK
<1>4. ASSUME NEW j \in Save, delete_knowledge(j)
      PROVE  Unattended(i)
  BY <1>4 DEF delete_knowledge, Unattended, Deleted, TypeOK
<1>5. ASSUME NEW w \in Sweep, decay_confidence(w)
      PROVE  Unattended(i)
  BY <1>5 DEF decay_confidence, Unattended, Decay
<1>6. ASSUME NEW w \in Sweep, auto_archive(w)
      PROVE  Unattended(i)
  BY <1>6 DEF auto_archive, Unattended, Archived
<1>7. ASSUME NEW w \in Sweep, SweepFails(w)
      PROVE  Unattended(i)
  BY <1>7 DEF SweepFails, Unattended
<1>8. CASE Tick
  BY <1>8 DEF Tick, Unattended
<1>. QED
  BY <1>1, <1>2, <1>3, <1>4, <1>5, <1>6, <1>7, <1>8, UntouchedBySave, UntouchedByLink DEF Next

LEMMA DecayedFaint ==
  ASSUME week \in Nat, NEW row, Sound(row, week), Faint(row)
  PROVE  Faint(Decayed(row))
<1> DEFINE less == Greater(FloorConfidence, row.confidence - Since(row.updated))
<1>1. /\ row \in Row /\ row.confidence \in 2..20 /\ row.updated \in Nat
      /\ row.created \in Nat /\ row.updated <= week
  BY Amounts DEF Sound, Row
<1>2. less <= Greater(FloorConfidence, InitialConfidence - (week - row.created))
  BY <1>1, Amounts DEF Faint, Greater, Since
<1> HIDE DEF less
<1>3. Decayed(row) = [row EXCEPT !.confidence = less, !.updated = week]
  BY DEF Decayed, less
<1>4. /\ Decayed(row).confidence = less /\ Decayed(row).updated = week
      /\ Decayed(row).created = row.created
  BY <1>1, <1>3 DEF Row
<1>. QED
  BY <1>2, <1>4 DEF Faint

LEMMA FadedKept ==
  ASSUME IInv, Faded, Next
  PROVE  Faded'
<1>. week \in Nat
  BY ClockAssumption DEF IInv, TypeOK
<1>1. SUFFICES ASSUME NEW i \in Save \ touched', Stored(i)', ~rows'[i].archived, rows'[i].usage = 0
               PROVE  Faint(rows'[i])
  BY DEF Faded, Live, Faint
<1>2. Unattended(i)
  BY Untouched DEF IInv
<1>3. ASSUME Stored(i) PROVE rows[i] \in Row /\ Sound(rows[i], week)
  BY <1>3, RowsSound DEF IInv, Sound
<1>4. CASE Inserted(i)
  <2>1. /\ rows'[i].confidence = InitialConfidence
        /\ rows'[i].updated = week /\ rows'[i].created = week
    BY <1>4 DEF Inserted, FreshRow
  <2>. QED
    BY <2>1, Amounts DEF Faint, Greater
<1>5. CASE i \notin touched /\ rows'[i] = rows[i]
  BY <1>1, <1>5 DEF Faded, Live, Stored
<1>6. CASE Counted(i)
  BY <1>1, <1>3, <1>6 DEF Counted, Live, Used, Row
<1>7. CASE i \notin touched /\ Decay(i)
  <2>1. Live(i) /\ rows'[i] = Decayed(rows[i])
    BY <1>7 DEF Decay, Decays
  <2>2. rows[i] \in Row /\ Sound(rows[i], week)
    BY <1>3, <2>1 DEF Live
  <2>3. rows[i].usage = 0
    BY <1>1, <2>1, <2>2 DEF Decayed, Row
  <2>4. Faint(rows[i])
    BY <1>7, <2>1, <2>3 DEF Faded
  <2>. QED
    BY <2>1, <2>2, <2>4, DecayedFaint
<1>8. CASE Archived(i)
  BY <1>1, <1>3, <1>8 DEF Archived, Archivable, Live, Row
<1>9. CASE Deleted(i)
  BY <1>1, <1>9 DEF Deleted, Stored
<1>. QED
  BY <1>2, <1>4, <1>5, <1>6, <1>7, <1>8, <1>9 DEF Unattended

\* Whatever changes a row brings its updated_at to the present.
LEMMA MovedNow ==
  ASSUME IInv, NEW i \in Save, RowMove(i), rows'[i] # None
  PROVE  rows'[i].updated = week
<1>1. ASSUME Stored(i) PROVE rows[i] \in Row
  BY <1>1, RowsSound DEF IInv, Sound
<1>2. CASE Inserted(i)
  BY <1>2 DEF Inserted, FreshRow
<1>3. CASE Merges(i)
  <2>1. rows[i] \in Row
    BY <1>1, <1>3, WriteMeetsLook
  <2>2. PICK X : rows'[i] = [rows[i] EXCEPT !.sources = rows[i].sources \cup X,
                                          !.updated = week, !.archived = FALSE]
    BY <1>3, WriteMeetsLook
  <2>. QED
    BY <2>1, <2>2 DEF Row
<1>4. CASE Linked(i) \/ Counted(i)
  BY <1>1, <1>4 DEF Linked, Counted, Live, Used, Row
<1>5. CASE Decay(i) \/ Archived(i)
  BY <1>1, <1>5 DEF Decay, Decays, Decayed, Archived, Archivable, Live, Row
<1>. QED
  BY <1>2, <1>3, <1>4, <1>5 DEF RowMove, Deleted

LEMMA UpToDateKept ==
  ASSUME IInv, UpToDate, Next
  PROVE  UpToDate'
<1>1. SUFFICES ASSUME NEW v \in Sweep, sweep'[v] = "archive",
                      NEW i \in Save, Stored(i)', ~rows'[i].archived
               PROVE  rows'[i].confidence = FloorConfidence \/ rows'[i].updated = week'
  BY DEF UpToDate, Live
<1>2. rows'[i] = rows[i] \/ (rows'[i].updated = week /\ week' = week)
  BY <1>1, RowSteps, MovedNow DEF IInv, RowStep, Stored
<1>3. ASSUME NEW w \in Sweep, decay_confidence(w)
      PROVE  rows'[i].confidence = FloorConfidence \/ rows'[i].updated = week'
  <2>1. week' = week /\ rows'[i] = IF Decays(i) THEN Decayed(rows[i]) ELSE rows[i]
    BY <1>3 DEF decay_confidence
  <2>2. CASE Decays(i)
    <3>1. rows[i] \in Row
      BY <2>2, RowsSound DEF Decays, Live, IInv, Sound
    <3>. QED
      BY <2>1, <2>2, <3>1 DEF Decayed, Row
  <2>3. CASE ~Decays(i)
    <3>1. rows'[i] = rows[i] /\ Live(i)
      BY <1>1, <2>1, <2>3 DEF Live, Stored
    <3>2. /\ rows[i].confidence \in 2..20 /\ rows[i].updated \in Nat
          /\ rows[i].updated <= week /\ week \in Nat
      BY <3>1, RowsSound, Amounts, ClockAssumption DEF Live, IInv, TypeOK, Sound, Row
    <3>3. ~(rows[i].confidence > FloorConfidence /\ Since(rows[i].updated) >= 1)
      BY <2>3, <3>1 DEF Decays
    <3>. QED
      BY <2>1, <3>1, <3>2, <3>3, Amounts DEF Since
  <2>. QED
    BY <2>2, <2>3
<1>4. ASSUME sweep[v] = "archive", week' = week
      PROVE  rows'[i].confidence = FloorConfidence \/ rows'[i].updated = week'
  <2>1. CASE rows'[i] = rows[i]
    BY <1>1, <1>4, <2>1 DEF UpToDate, Live, Stored
  <2>2. CASE rows'[i] # rows[i]
    BY <1>2, <1>4, <2>2
  <2>. QED
    BY <2>1, <2>2
<1>5. ASSUME NEW w \in Sweep, auto_archive(w) \/ SweepFails(w)
      PROVE  sweep[v] = "archive" /\ week' = week
  BY <1>1, <1>5 DEF auto_archive, SweepFails, IInv, TypeOK
<1>6. ~Tick
  BY <1>1 DEF Tick
<1>7. CASE UNCHANGED <<sweep, week>>
  BY <1>1, <1>4, <1>7
<1>. QED
  BY <1>3, <1>4, <1>5, <1>6, <1>7 DEF Next, save_knowledge_with_id, Begin, Match, Commit,
     CommitUnanswered, Rollback, link_source_observation, get_knowledge,
     update_knowledge_usage_batch, UsageLost, delete_knowledge

LEMMA PassInductive == Spec => []PassInv
<1>1. Init => PassInv
  BY InitInv DEF Init, PassInv, Faded, UpToDate, Live, Stored
<1>2. ASSUME PassInv, [Next]_vars PROVE PassInv'
  <2>1. CASE Next
    BY <1>2, <2>1, NextInv, FadedKept, UpToDateKept DEF PassInv
  <2>2. CASE UNCHANGED vars
    <3>1. IInv'
      BY <1>2, NextInv DEF PassInv
    <3>2. Faded'
      BY <1>2, <2>2 DEF PassInv, Faded, Live, Stored, vars
    <3>3. UpToDate'
      BY <1>2, <2>2 DEF PassInv, UpToDate, Live, Stored, vars
    <3>. QED
      BY <3>1, <3>2, <3>3 DEF PassInv
  <2>. QED
    BY <1>2, <2>1, <2>2
<1>. QED
  BY <1>1, <1>2, PTL DEF Spec

(* However sweeps overlap with each other and with saves, links, uses and  *)
(* deletions, after auto_archive no live row is left that is old enough,   *)
(* was never used and never saved or linked again: by then the decay that  *)
(* ran before, in this pass or another, has faded it below ArchiveBelow.   *)
THEOREM PassLeavesNoOldRow == Spec => PassArchives
<1>1. ASSUME PassInv, [Next]_vars, NEW w \in Sweep,
             sweep[w] = "archive", sweep'[w] = "idle", faults' = faults,
             NEW i \in Save \ touched, rows'[i] # None, ~rows'[i].archived,
             ~(rows'[i].usage > 0)
      PROVE  Since(rows'[i].created) < ArchiveAge
  <2>1. PICK v \in Sweep : auto_archive(v)
    <3>1. faults \in Nat /\ sweep' # sweep
      BY <1>1, ClockAssumption DEF PassInv, IInv, TypeOK
    <3>2. ASSUME NEW v \in Sweep PROVE ~SweepFails(v)
      BY <1>1, <3>1 DEF SweepFails, Fault
    <3>3. ASSUME NEW v \in Sweep PROVE ~decay_confidence(v)
      BY <1>1 DEF decay_confidence, PassInv, IInv, TypeOK
    <3>. QED
      BY <1>1, <3>1, <3>2, <3>3 DEF vars, Next, save_knowledge_with_id, Begin, Match, Commit,
         CommitUnanswered, Rollback, link_source_observation, get_knowledge,
         update_knowledge_usage_batch, UsageLost, delete_knowledge, Tick
  <2>2. rows'[i] = IF Archivable(i) THEN [rows[i] EXCEPT !.archived = TRUE, !.updated = week]
                   ELSE rows[i]
    BY <2>1 DEF auto_archive
  <2>3. ~Archivable(i)
    <3>1. SUFFICES ASSUME Archivable(i) PROVE FALSE
      OBVIOUS
    <3>2. rows[i] \in Row
      BY <1>1, <3>1, RowsSound DEF Archivable, Live, PassInv, IInv, Sound
    <3>. QED
      BY <1>1, <2>2, <3>1, <3>2 DEF Row
  <2>4. rows'[i] = rows[i] /\ Live(i)
    BY <1>1, <2>2, <2>3 DEF Live, Stored
  <2>5. Sound(rows[i], week) /\ rows[i] \in Row
    BY <1>1, <2>4, RowsSound DEF Live, PassInv, IInv, Sound
  <2>6. /\ rows[i].confidence \in 2..20 /\ rows[i].updated \in Nat /\ rows[i].created \in Nat
        /\ rows[i].usage \in Nat /\ week \in Nat
    BY <1>1, <2>5, Amounts, ClockAssumption DEF Row, PassInv, IInv, TypeOK
  <2>7. rows[i].usage = 0
    BY <1>1, <2>4, <2>6
  <2>8. rows[i].confidence <= Greater(2, 10 - (rows[i].updated - rows[i].created))
    BY <1>1, <2>4, <2>7, Amounts DEF PassInv, Faded, Faint
  <2>9. rows[i].confidence = 2 \/ rows[i].updated = week
    BY <1>1, <2>4, Amounts DEF PassInv, UpToDate
  <2>10. rows[i].confidence < 4 => ~(week - rows[i].created >= 13)
    BY <2>3, <2>4, <2>7 DEF Archivable, ArchiveBelow, ArchiveAge, Since
  <2>. QED
    BY <2>4, <2>6, <2>8, <2>9, <2>10 DEF Since, ArchiveAge, Greater
<1>2. PassInv /\ [Next]_vars =>
        [\A w \in Sweep : sweep[w] = "archive" /\ sweep'[w] = "idle" /\ faults' = faults =>
           \A i \in Save \ touched : rows'[i] # None /\ ~rows'[i].archived =>
             \/ rows'[i].usage > 0
             \/ Since(rows'[i].created) < ArchiveAge]_vars
  BY <1>1
<1>. QED
  BY <1>2, PassInductive, PTL DEF Spec, PassArchives

-----------------------------------------------------------------------------
(***************************************************************************)
(* Session summaries, which are made by sweeps and requests too (the       *)
(* module SessionSummaries, whose names are all others than Knowledge's).  *)
(* That a placeholder has an owner and that a summary is lost only to a    *)
(* sweep that looked too early are both matters of what a sweep may do to  *)
(* its own session (SweepMoves) and of what anybody else may do            *)
(* (OtherMoves).                                                           *)
(***************************************************************************)

\* The part of PlaceholderOwned that is not about types.
Owned ==
  \A s \in Session :
    failures = 0 /\ summary[s] \in Placeholder =>
      \E w \in Working(s) : sweeper[w].pc \notin {"drop", "claim"}

\* A sweep at work on a session that has its summary by now is overtaken.
AllOvertaken == \A s \in Session : summary[s] = "final" => Working(s) \subseteq overtaken

SIInv == STypeOK /\ Owned /\ AllOvertaken

-----------------------------------------------------------------------------
(* Types *)

SweepStates == [pc: {"idle", "next", "drop", "claim", "fetch", "error", "skip", "llm", "final", "undo"},
                session: Session \cup {NoSession}, todo: SUBSET Session]
RequestStates == [pc: {"idle", "close", "llm", "status", "save"}, session: Session \cup {NoSession}]

\* A sweep goes on with its session, or ends with it, or begins another.
SweepGoes(w) ==
  \/ \E pc \in {"claim", "fetch", "error", "skip", "llm", "final", "undo"} : Proceed(w, pc)
  \/ Continue(w)
  \/ \E X \in SUBSET Session : sweeper' = [sweeper EXCEPT ![w].todo = X]
  \/ \E state \in SweepStates : sweeper' = [sweeper EXCEPT ![w] = state]

LEMMA SweepTyped ==
  ASSUME sweeper \in [Sweeper -> SweepStates], NEW w \in Sweeper, SweepGoes(w)
  PROVE  sweeper' \in [Sweeper -> SweepStates]
<1>1. CASE \E pc \in {"claim", "fetch", "error", "skip", "llm", "final", "undo"} : Proceed(w, pc)
  BY <1>1 DEF Proceed, SweepStates
<1>2. CASE Continue(w)
  <2>1. [[sweeper[w] EXCEPT !.pc = "next"] EXCEPT !.session = NoSession] \in SweepStates
    BY DEF SweepStates
  <2>2. sweeper' = [sweeper EXCEPT ![w] = [[sweeper[w] EXCEPT !.pc = "next"] EXCEPT !.session = NoSession]]
    BY <1>2 DEF Continue
  <2>. QED
    BY <2>1, <2>2
<1>3. CASE \E X \in SUBSET Session : sweeper' = [sweeper EXCEPT ![w].todo = X]
  BY <1>3 DEF SweepStates
<1>4. CASE \E state \in SweepStates : sweeper' = [sweeper EXCEPT ![w] = state]
  BY <1>4
<1>. QED
  BY <1>1, <1>2, <1>3, <1>4 DEF SweepGoes

LEMMA RequestTyped ==
  ASSUME request \in [Request -> RequestStates], NEW q \in Request,
         Answer(q) \/ \E pc \in {"status", "save"} : Goto(q, pc)
  PROVE  request' \in [Request -> RequestStates]
<1>1. CASE Answer(q)
  BY <1>1 DEF Answer, NoRequest, RequestStates
<1>2. CASE \E pc \in {"status", "save"} : Goto(q, pc)
  BY <1>2 DEF Goto, RequestStates
<1>. QED
  BY <1>1, <1>2

\* The types by what they are of.
TableTypes ==
  /\ status \in [Session -> Status] /\ observed \in [Session -> 0..MaxObserved]
  /\ quiet \subseteq Session
  /\ summary \in [Session -> Kind] /\ overtaken \subseteq Sweeper
CountTypes == failures \in 0..MaxFailures /\ badCalls \in 0..MaxBadCalls

LEMMA TypeParts ==
  /\ STypeOK <=> /\ TableTypes /\ CountTypes
                /\ sweeper \in [Sweeper -> SweepStates] /\ request \in [Request -> RequestStates]
  /\ STypeOK' <=> /\ TableTypes' /\ CountTypes'
                 /\ sweeper' \in [Sweeper -> SweepStates] /\ request' \in [Request -> RequestStates]
BY DEF STypeOK, TableTypes, CountTypes, SweepStates, RequestStates

LEMMA CountsTyped ==
  ASSUME CountTypes, Failure \/ failures' = failures, BadCall \/ badCalls' = badCalls
  PROVE  CountTypes'
BY BoundAssumption DEF CountTypes, Failure, BadCall

LEMMA RequestTypes ==
  ASSUME STypeOK, NEW q \in Request, RequestStep(q)
  PROVE  STypeOK'
<1>. USE TypeParts
<1>1. ASSUME NEW s \in Session, FetchObservations(q, s)
      PROVE  STypeOK'
  <2>1. request' \in [Request -> RequestStates]
    BY <1>1 DEF FetchObservations, RequestStates
  <2>. QED
    BY <1>1, <2>1 DEF FetchObservations, TableTypes, CountTypes, world, history
<1>2. CASE Generate(q)
  <2>1. request' \in [Request -> RequestStates]
    BY <1>2, RequestTyped DEF Generate
  <2>2. CountTypes'
    BY <1>2, CountsTyped DEF Generate
  <2>. QED
    BY <1>2, <2>1, <2>2 DEF Generate, TableTypes, world
<1>3. CASE UpdateStatus(q)
  <2>1. request' \in [Request -> RequestStates]
    BY <1>3, RequestTyped DEF UpdateStatus
  <2>2. CountTypes'
    BY <1>3, CountsTyped DEF UpdateStatus
  <2>3. status' \in [Session -> Status]
    BY <1>3 DEF UpdateStatus, update_session_status_with_summary, TableTypes, Status
  <2>4. summary' \in [Session -> Kind] /\ overtaken' \subseteq Sweeper
    BY <1>3
    DEF UpdateStatus, update_session_status_with_summary, save_summary, Working, TableTypes, Kind
  <2>. QED
    BY <1>3, <2>1, <2>2, <2>3, <2>4 DEF UpdateStatus, TableTypes, world
<1>4. CASE SaveSummary(q)
  <2>1. request' \in [Request -> RequestStates]
    BY <1>4, RequestTyped DEF SaveSummary
  <2>2. CountTypes'
    BY <1>4, CountsTyped DEF SaveSummary
  <2>3. summary' \in [Session -> Kind] /\ overtaken' \subseteq Sweeper
    BY <1>4 DEF SaveSummary, save_summary, Working, TableTypes, Kind
  <2>. QED
    BY <1>4, <2>1, <2>2, <2>3 DEF SaveSummary, TableTypes, world
<1>. QED
  BY <1>1, <1>2, <1>3, <1>4 DEF RequestStep

LEMMA SweepTypes ==
  ASSUME STypeOK, NEW w \in Sweeper, SweepStep(w) \/ Crash(w)
  PROVE  STypeOK'
<1>. USE TypeParts
<1>1. SweepGoes(w)
  <2>1. Rest \in SweepStates
    BY DEF Rest, SweepStates
  <2>2. CASE ListSessions(w)
    <3>1. [pc |-> "next", session |-> NoSession, todo |-> get_sessions_without_summaries] \in SweepStates
      BY DEF SweepStates, get_sessions_without_summaries
    <3>. QED
      BY <2>2, <3>1 DEF ListSessions, SweepGoes
  <2>3. CASE check_existing_summary(w)
    <3>1. PICK s \in sweeper[w].todo :
            \/ sweeper' = [sweeper EXCEPT ![w] =
                 [pc |-> AfterCheck(s), todo |-> @.todo \ {s},
                  session |-> IF AfterCheck(s) = "next" THEN NoSession ELSE s]]
            \/ sweeper' = [sweeper EXCEPT ![w].todo = @ \ {s}]
      BY <2>3 DEF check_existing_summary
    <3>2. s \in Session /\ sweeper[w].todo \ {s} \in SUBSET Session
      BY <3>1 DEF SweepStates
    <3>3. AfterCheck(s) \in {"claim", "drop", "next"}
      BY DEF AfterCheck
    <3>4. [pc |-> AfterCheck(s), todo |-> sweeper[w].todo \ {s},
           session |-> IF AfterCheck(s) = "next" THEN NoSession ELSE s] \in SweepStates
      BY <3>2, <3>3 DEF SweepStates
    <3>. QED
      BY <3>1, <3>2, <3>4 DEF SweepGoes
  <2>4. CASE EndSweep(w) \/ Crash(w)
    BY <2>1, <2>4 DEF EndSweep, Crash, SweepGoes
  <2>5. CASE DropStale(w) \/ DropPlaceholder(w) \/ claim_summary_slot(w)
    BY <2>5 DEF DropStale, DropPlaceholder, claim_summary_slot, SweepGoes
  <2>6. CASE fetch_session_observations(w)
    BY <2>6 DEF fetch_session_observations, SweepGoes
  <2>7. CASE generate_session_summary(w) \/ Settle(w)
    BY <2>7 DEF generate_session_summary, Settle, SweepGoes
  <2>. QED
    BY <2>2, <2>3, <2>4, <2>5, <2>6, <2>7 DEF SweepStep
<1>2. CountTypes'
  <2>1. Failure \/ failures' = failures
    BY DEF SweepStep, Crash, ListSessions, check_existing_summary, EndSweep, DropStale, DropPlaceholder,
       claim_summary_slot, fetch_session_observations, generate_session_summary, Settle, history
  <2>2. BadCall \/ badCalls' = badCalls
    BY DEF SweepStep, Crash, ListSessions, check_existing_summary, EndSweep, DropStale, DropPlaceholder,
       claim_summary_slot, fetch_session_observations, generate_session_summary, Settle, history
  <2>. QED
    BY <2>1, <2>2, CountsTyped
<1>3. TableTypes'
  <2>1. UNCHANGED <<status, observed, quiet>>
    BY DEF SweepStep, Crash, ListSessions, check_existing_summary, EndSweep, DropStale, DropPlaceholder,
       claim_summary_slot, fetch_session_observations, generate_session_summary, Settle, world
  <2>2. overtaken' \subseteq Sweeper
    BY DEF SweepStep, Crash, ListSessions, check_existing_summary, EndSweep, DropStale, DropPlaceholder,
       claim_summary_slot, fetch_session_observations, generate_session_summary, Settle,
       delete_summary, save_summary, Working, TableTypes
  <2>3. \/ summary' = summary
        \/ \E s, kind : kind \in Kind /\ summary' = [summary EXCEPT ![s] = kind]
    BY DEF SweepStep, Crash, ListSessions, check_existing_summary, EndSweep, DropStale, DropPlaceholder,
       claim_summary_slot, fetch_session_observations, generate_session_summary, Settle,
       delete_summary, save_summary, Kind
  <2>. QED
    BY <2>1, <2>2, <2>3 DEF TableTypes
<1>4. request' = request
  BY DEF SweepStep, Crash, ListSessions, check_existing_summary, EndSweep, DropStale, DropPlaceholder,
     claim_summary_slot, fetch_session_observations, generate_session_summary, Settle
<1>. QED
  BY <1>1, <1>2, <1>3, <1>4, SweepTyped

LEMMA TypeStep ==
  ASSUME STypeOK, [SNext]_svars
  PROVE  STypeOK'
<1>1. ASSUME NEW s \in Session, init_session(s) \/ session_delete(s) \/ HourPasses(s) \/ PlaceholderAges(s)
      PROVE  STypeOK'
  BY <1>1 DEF init_session, session_delete, HourPasses, PlaceholderAges, save_session,
     delete_session, STypeOK, Status, Kind, world, tasks, history
<1>2. ASSUME NEW s \in Session, Observe(s) \/ Forget(s)
      PROVE  STypeOK'
  BY <1>2, BoundAssumption DEF Observe, Forget, STypeOK, tasks, history
<1>3. CASE StartupRecovery
  BY <1>3 DEF StartupRecovery, close_stale_sessions, STypeOK, Status, world, tasks, history
<1>4. CASE UNCHANGED svars
  BY <1>4 DEF svars, STypeOK
<1>. QED
  BY <1>1, <1>2, <1>3, <1>4, RequestTypes, SweepTypes DEF SNext

-----------------------------------------------------------------------------
(* Who touches a summary *)

\* Sweep w has claimed s and will replace or delete its placeholder.
Owns(w, s) == sweeper[w].session = s /\ sweeper[w].pc \in {"fetch", "error", "skip", "llm", "final", "undo"}

LEMMA OwnersWork ==
  ASSUME STypeOK
  PROVE  Owned <=> \A s \in Session :
           failures = 0 /\ summary[s] \in Placeholder => \E w \in Sweeper : Owns(w, s)
BY DEF STypeOK, Owned, Owns, Working

\* Anybody but a sweep only saves whole summaries, which overtakes the sweeps at
\* work on the session, and lets placeholders grow old.
OtherMoves ==
  /\ UNCHANGED sweeper /\ failures' \in {failures, failures + 1}
  /\ \/ UNCHANGED <<summary, overtaken>>
     \/ \E s : save_summary(s, "final")
     \/ \E s \in Session : /\ summary[s] = "processing" /\ UNCHANGED overtaken
                            /\ summary' = [summary EXCEPT ![s] = "stale"]

\* What a sweep does, by its next step.
SweepMoves(w) ==
  LET at == sweeper[w].pc
      s == sweeper[w].session
  IN
  \/ /\ at = "idle" /\ sweeper'[w].pc = "next"
     /\ UNCHANGED <<summary, overtaken>>
  \/ /\ at = "next" /\ sweeper'[w].pc \in {"next", "idle"}
     /\ UNCHANGED summary /\ overtaken \ {w} \subseteq overtaken'
  \/ /\ at = "next" /\ sweeper'[w].pc \in {"drop", "claim"}
     /\ UNCHANGED summary /\ overtaken' = overtaken \ {w}
     /\ summary[sweeper'[w].session] # "final"
  \/ /\ at = "drop" /\ sweeper'[w].pc = "claim" /\ sweeper'[w].session = s
     /\ delete_summary(s)
  \/ /\ at = "claim" /\ sweeper'[w].pc = "fetch" /\ sweeper'[w].session = s
     /\ save_summary(s, "processing")
  \/ /\ at \in {"fetch", "llm"} /\ sweeper'[w].session = s
     /\ sweeper'[w].pc \in {"error", "skip", "llm", "final", "undo"}
     /\ UNCHANGED <<summary, overtaken>>
  \/ /\ at \in {"final", "error", "skip"} /\ sweeper'[w].pc = "next"
     /\ save_summary(s, at)
  \/ /\ at = "undo" /\ sweeper'[w].pc = "next"
     /\ delete_summary(s)

\* A failed query, or a crash: the sweep goes on from where it stands with the
\* same session, or goes to another.
FaultyMove(w) ==
  /\ Failure /\ UNCHANGED summary
  /\ \/ UNCHANGED overtaken
     \/ overtaken' = overtaken \ {w} /\ sweeper[w].pc = "next"
  /\ \/ sweeper'[w].pc \in {"idle", "next"}
     \/ sweeper'[w].session = sweeper[w].session /\ sweeper[w].pc \notin {"idle", "next"}

LEMMA OtherSteps ==
  ASSUME STypeOK, SNext
  PROVE  OtherMoves \/ \E w \in Sweeper : SweepStep(w) \/ Crash(w)
<1>1. ASSUME NEW s \in Session,
             \/ init_session(s) \/ session_delete(s) \/ Observe(s) \/ Forget(s)
             \/ HourPasses(s) \/ PlaceholderAges(s)
      PROVE  OtherMoves
  BY <1>1 DEF init_session, session_delete, Observe, Forget, HourPasses, PlaceholderAges,
     OtherMoves, tasks, history
<1>2. CASE StartupRecovery
  BY <1>2 DEF StartupRecovery, OtherMoves, tasks, history
<1>3. ASSUME NEW q \in Request, RequestStep(q)
      PROVE  OtherMoves
  BY <1>3 DEF RequestStep, FetchObservations, Generate, UpdateStatus, SaveSummary,
     update_session_status_with_summary, OtherMoves, Failure, history
<1>. QED
  BY <1>1, <1>2, <1>3 DEF SNext

LEMMA SweepSteps ==
  ASSUME STypeOK, NEW w \in Sweeper, SweepStep(w) \/ Crash(w)
  PROVE  /\ \A v \in Sweeper \ {w} : sweeper'[v] = sweeper[v]
         /\ (SweepMoves(w) /\ failures' = failures) \/ FaultyMove(w)
<1>. USE DEF SweepMoves, FaultyMove, Proceed, Continue, Rest, Owns
<1>. sweeper \in [Sweeper -> SweepStates]
  BY TypeParts
<1>1. CASE ListSessions(w)
  BY <1>1 DEF ListSessions, history
<1>2. CASE check_existing_summary(w)
  <2>1. PICK s \in sweeper[w].todo :
          \/ /\ sweeper' = [sweeper EXCEPT ![w] =
                  [pc |-> AfterCheck(s), todo |-> @.todo \ {s},
                   session |-> IF AfterCheck(s) = "next" THEN NoSession ELSE s]]
             /\ UNCHANGED failures
          \/ sweeper' = [sweeper EXCEPT ![w].todo = @ \ {s}] /\ Failure
    BY <1>2 DEF check_existing_summary
  <2>2. \/ AfterCheck(s) = "next"
        \/ AfterCheck(s) \in {"claim", "drop"} /\ summary[s] # "final"
    BY DEF AfterCheck
  <2>. QED
    BY <1>2, <2>1, <2>2 DEF check_existing_summary, SweepStates
<1>3. CASE EndSweep(w) \/ Crash(w)
  BY <1>3 DEF EndSweep, Crash, history
<1>4. CASE DropStale(w) \/ DropPlaceholder(w)
  BY <1>4 DEF DropStale, DropPlaceholder, SweepStates
<1>5. CASE claim_summary_slot(w)
  BY <1>5 DEF claim_summary_slot, SweepStates
<1>6. CASE fetch_session_observations(w)
  BY <1>6 DEF fetch_session_observations, SweepStates
<1>7. CASE generate_session_summary(w)
  BY <1>7 DEF generate_session_summary, SweepStates
<1>8. CASE Settle(w)
  BY <1>8 DEF Settle, SweepStates
<1>. QED
  BY <1>1, <1>2, <1>3, <1>4, <1>5, <1>6, <1>7, <1>8 DEF SweepStep

-----------------------------------------------------------------------------
(* The invariant *)

\* A placeholder that is there after a step of w, without a failure, was claimed
\* by w in that step, or was there before and has its owner still.
LEMMA OwnedStep ==
  ASSUME SIInv, SNext
  PROVE  Owned'
<1>0. STypeOK /\ STypeOK'
  BY TypeStep DEF SIInv
<1> SUFFICES ASSUME NEW s \in Session, failures' = 0, summary'[s] \in Placeholder
             PROVE  \E w \in Sweeper : Owns(w, s)'
  BY <1>0, OwnersWork DEF Owned, Owns, Working, STypeOK
<1>1. summary \in [Session -> Kind] /\ failures \in Nat
  BY <1>0, BoundAssumption DEF STypeOK
<1>2. ASSUME failures = 0, summary[s] \in Placeholder
      PROVE  \E w \in Sweeper : Owns(w, s)
  BY <1>0, <1>2, OwnersWork DEF SIInv
<1>3. CASE OtherMoves
  <2>1. failures = 0
    BY <1>1, <1>3 DEF OtherMoves
  <2>2. summary[s] \in Placeholder
    BY <1>1, <1>3 DEF OtherMoves, save_summary, Placeholder
  <2>. QED
    BY <1>2, <1>3, <2>1, <2>2 DEF OtherMoves, Owns
<1>4. ASSUME NEW w \in Sweeper, SweepStep(w) \/ Crash(w)
      PROVE  \E v \in Sweeper : Owns(v, s)'
  <2>1. /\ \A v \in Sweeper \ {w} : sweeper'[v] = sweeper[v]
        /\ SweepMoves(w) /\ failures' = failures
    BY <1>0, <1>1, <1>4, SweepSteps DEF FaultyMove, Failure
  <2>2. CASE Owns(w, s)'
    BY <2>2
  <2>3. CASE ~Owns(w, s)'
    <3>1. summary[s] \in Placeholder /\ ~Owns(w, s)
      BY <1>1, <2>1, <2>3 DEF SweepMoves, Owns, save_summary, delete_summary, Placeholder
    <3>. QED
      BY <1>2, <2>1, <3>1 DEF Owns
  <2>. QED
    BY <2>2, <2>3
<1>. QED
  BY <1>0, <1>3, <1>4, OtherSteps

LEMMA OvertakenStep ==
  ASSUME SIInv, SNext
  PROVE  AllOvertaken'
<1> SUFFICES ASSUME NEW s \in Session, summary'[s] = "final", NEW v \in Working(s)'
             PROVE  v \in overtaken'
  BY DEF AllOvertaken
<1>1. summary \in [Session -> Kind]
  BY DEF SIInv, STypeOK
<1>2. ASSUME summary[s] = "final", v \in Working(s)
      PROVE  v \in overtaken
  BY <1>2 DEF SIInv, AllOvertaken
<1>3. CASE OtherMoves
  BY <1>1, <1>2, <1>3 DEF OtherMoves, save_summary, Working
<1>4. ASSUME NEW w \in Sweeper, SweepStep(w) \/ Crash(w)
      PROVE  v \in overtaken'
  <2>1. /\ \A u \in Sweeper \ {w} : sweeper'[u] = sweeper[u]
        /\ SweepMoves(w) \/ FaultyMove(w)
    BY <1>4, SweepSteps DEF SIInv
  <2>2. CASE v = w
    BY <1>1, <1>2, <2>1, <2>2
    DEF SweepMoves, FaultyMove, save_summary, delete_summary, Working, Owns
  <2>3. CASE v # w
    BY <1>1, <1>2, <2>1, <2>3
    DEF SweepMoves, FaultyMove, save_summary, delete_summary, Working
  <2>. QED
    BY <2>2, <2>3
<1>. QED
  BY <1>3, <1>4, OtherSteps DEF SIInv

LEMMA InvStep ==
  ASSUME SIInv, [SNext]_svars
  PROVE  SIInv'
<1>1. CASE SNext
  BY <1>1, TypeStep, OwnedStep, OvertakenStep DEF SIInv
<1>2. CASE UNCHANGED svars
  BY <1>2, TypeStep DEF SIInv, Owned, AllOvertaken, Working, svars
<1>. QED
  BY <1>1, <1>2

LEMMA InvInit ==
  ASSUME SInit
  PROVE  SIInv
<1>1. STypeOK
  BY BoundAssumption DEF SInit, STypeOK, Rest, NoRequest, Status, Kind
<1>. QED
  BY <1>1 DEF SInit, SIInv, Owned, AllOvertaken, Placeholder

(* The types, the owners of placeholders and the overtaken sweeps hold in  *)
(* every reachable state.                                                  *)
THEOREM SInductive == SSpec => []SIInv
<1>1. SInit => SIInv
  BY InvInit
<1>2. SIInv /\ [SNext]_svars => SIInv'
  BY InvStep
<1>. QED
  BY <1>1, <1>2, PTL DEF SSpec

(* As long as nothing fails, every placeholder of                          *)
(* generate_pending_summaries has a sweep that will replace or delete it,  *)
(* for any number of overlapping sweeps, requests and bad calls of the LLM.*)
THEOREM PlaceholdersOwned == SSpec => []PlaceholderOwned
<1>1. SIInv => PlaceholderOwned
  BY DEF SIInv, Owned, PlaceholderOwned
<1>. QED
  BY <1>1, SInductive, PTL

(* A summary is overwritten or deleted by nobody but a sweep at work on    *)
(* its session that had checked before the summary was there.              *)
THEOREM SummariesKept == SSpec => SummaryKept
<1>1. ASSUME SIInv, [SNext]_svars, NEW s \in Session, summary[s] = "final", summary'[s] # "final"
      PROVE  \E w \in overtaken : sweeper[w].session = s
  <2>1. summary \in [Session -> Kind] /\ SNext
    BY <1>1 DEF SIInv, STypeOK, svars
  <2>2. PICK w \in Sweeper : SweepStep(w) \/ Crash(w)
    BY <1>1, <2>1, OtherSteps DEF SIInv, OtherMoves, save_summary
  <2>3. SweepMoves(w) \/ FaultyMove(w)
    BY <1>1, <2>2, SweepSteps DEF SIInv
  <2>4. w \in Working(s)
    BY <1>1, <2>1, <2>3
    DEF SweepMoves, FaultyMove, save_summary, delete_summary, Working
  <2>5. w \in overtaken
    BY <1>1, <2>4 DEF SIInv, AllOvertaken
  <2>. QED
    BY <2>4, <2>5 DEF Working
<1>2. SIInv /\ [SNext]_svars =>
        [\A s \in Session : summary[s] = "final" /\ summary'[s] # "final" =>
           \E w \in overtaken : sweeper[w].session = s]_svars
  BY <1>1
<1>. QED
  BY <1>2, SInductive, PTL DEF SSpec, SummaryKept

=============================================================================
