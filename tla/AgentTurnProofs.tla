-------------------------- MODULE AgentTurnProofs --------------------------
(***************************************************************************)
(* What TLAPS proves of the agent's turn and the transcripts under it, for *)
(* every set of users, every number of turns and every set of messages;    *)
(* and of the compaction of a transcript, for every conversation.          *)
(***************************************************************************)
EXTENDS AgentTurn, Compaction, FiniteSetTheorems, SequenceTheorems, WellFoundedInduction,
        TLAPS

StorePCs == {"idle", "thinking", "create", "copy", "remove", "user", "assistant", "clear"}
Working == {"thinking", "create", "copy", "remove", "user", "assistant"}

StoreTyped ==
  /\ pc \in [Users -> StorePCs]
  /\ turn \in [Users -> Nat] /\ cleared \in [Users -> Nat]
  /\ DOMAIN disk \subseteq Users \X {"new", "old"}
  /\ \A f \in DOMAIN disk : disk[f] \in Seq(Lines)
  /\ copy \in [Users -> Seq(Lines)] /\ seen \in [Users -> Seq(Entries)]
  /\ cut \in [Users -> SUBSET Nat] /\ long \in [Users -> BOOLEAN]

\* A question of turn n that is written before line i, or ran on from a line that was
\* cut off.
Asked(s, i, n) ==
  /\ i > 1 /\ s[i - 1].turn = n
  /\ s[i - 1].role = "user" \/ (i > 2 /\ ~s[i - 2].ended)

\* A sequence of lines in which every answer follows its question.
Whole(s) == \A i \in DOMAIN s : s[i].role = "assistant" => Asked(s, i, s[i].turn)

\* A turn about to write its answer has written its question last.
Exchanged ==
  /\ \A f \in DOMAIN disk : Whole(disk[f])
  /\ \A u \in Users : Whole(copy[u])
  /\ \A u \in Users : pc[u] = "assistant" =>
       /\ Asked(LinesOf(New(u)), Len(LinesOf(New(u))) + 1, turn[u])
       /\ LinesOf(New(u))[Len(LinesOf(New(u)))].ended

\* Lines of before the migration, or of after the last Clear.
Since(s, n) == \A i \in DOMAIN s : s[i].turn > 0 => s[i].turn > n

\* What a session may still write or read is newer than its last Clear.
Fresh ==
  \A u \in Users :
    /\ Since(LinesOf(New(u)), cleared[u])
    /\ \A n \in Nat : Since(LinesOf(Old(u)), n) /\ Since(copy[u], n)
    /\ cleared[u] <= turn[u]
    /\ pc[u] \in Working => cleared[u] < turn[u]
    /\ pc[u] = "thinking" => Since(seen[u], cleared[u])

StoreInv == StoreTyped /\ Exchanged /\ Fresh

-----------------------------------------------------------------------------
(* Files and lines.                                                        *)

Roles == {"user", "assistant", "none"}

LEMMA LineTyped ==
  ASSUME StoreTyped, NEW u \in Users, NEW role \in Roles
  PROVE  /\ Line(u, role, TRUE) \in Lines /\ Line(u, role, FALSE) \in Lines
         /\ Line(u, role, TRUE).turn = turn[u] /\ Line(u, role, FALSE).turn = turn[u]
         /\ Line(u, role, TRUE).role = role /\ Line(u, role, FALSE).role = role
         /\ Line(u, role, TRUE).ended /\ ~Line(u, role, FALSE).ended
<1>1. turn[u] \in Nat BY DEF StoreTyped
<1> QED BY <1>1 DEF Line, Lines, Roles

LEMMA LinesTyped ==
  ASSUME StoreTyped, NEW f PROVE LinesOf(f) \in Seq(Lines)
BY DEF StoreTyped, LinesOf

LEMMA FieldsTyped ==
  /\ \A x \in Lines : x.turn \in Nat /\ x.role \in Roles /\ x.ended \in BOOLEAN
  /\ \A x \in Entries : x.turn \in Nat /\ x.role \in Roles
BY DEF Lines, Entries, Roles

LEMMA AppendLines ==
  ASSUME NEW S, NEW s \in Seq(S), NEW x \in S
  PROVE  /\ Append(s, x) \in Seq(S) /\ Len(s) \in Nat /\ Len(Append(s, x)) = Len(s) + 1
         /\ DOMAIN s = 1..Len(s) /\ DOMAIN Append(s, x) = 1..(Len(s) + 1)
         /\ Append(s, x)[Len(s) + 1] = x /\ \A i \in DOMAIN s : Append(s, x)[i] = s[i]
         /\ Append(s, x) # <<>> /\ s = <<>> <=> Len(s) = 0
OBVIOUS

\* A line that is written adds one line, and spoils no more than the one before it.
LEMMA RunOnLines ==
  ASSUME NEW s \in Seq(Lines), NEW line \in Lines
  PROVE  /\ RunOn(s, line) \in Seq(Lines) /\ Len(s) \in Nat /\ Len(RunOn(s, line)) = Len(s) + 1
         /\ DOMAIN s = 1..Len(s) /\ DOMAIN RunOn(s, line) = 1..(Len(s) + 1)
         /\ RunOn(s, line)[Len(s) + 1].turn = line.turn
         /\ RunOn(s, line)[Len(s) + 1].ended = line.ended
         /\ RunOn(s, line)[Len(s) + 1].role = IF CutOff(s) THEN "none" ELSE line.role
         /\ \A i \in DOMAIN s :
              /\ RunOn(s, line)[i].turn = s[i].turn /\ RunOn(s, line)[i].ended = s[i].ended
              /\ RunOn(s, line)[i].role \in {s[i].role, "none"}
              /\ i # Len(s) \/ s[i].ended => RunOn(s, line)[i] = s[i]
<1>1. CASE ~CutOff(s)
  <2>1. RunOn(s, line) = Append(s, line) BY <1>1 DEF RunOn
  <2> QED BY <1>1, <2>1, AppendLines
<1>2. CASE CutOff(s)
  <2> DEFINE old == [s EXCEPT ![Len(s)].role = "none"]
             new == [line EXCEPT !.role = "none"]
  <2>1. Len(s) \in Nat /\ DOMAIN s = 1..Len(s) /\ \A i \in DOMAIN s : s[i] \in Lines OBVIOUS
  <2>2. s # <<>> /\ ~s[Len(s)].ended BY <1>2 DEF CutOff, Last
  <2>3. Len(s) \in DOMAIN s BY <2>1, <2>2
  <2>4. [s[Len(s)] EXCEPT !.role = "none"] \in Lines /\ new \in Lines
        /\ new.turn = line.turn /\ new.ended = line.ended /\ new.role = "none"
    BY <2>1, <2>3 DEF Lines
  <2>5. /\ DOMAIN old = DOMAIN s /\ \A i \in DOMAIN s : i # Len(s) => old[i] = s[i]
        /\ old[Len(s)] = [s[Len(s)] EXCEPT !.role = "none"]
    BY <2>3
  <2>6. old \in Seq(Lines) /\ Len(old) = Len(s)
    <3>1. \A i \in 1..Len(s) : old[i] \in Lines BY <2>1, <2>4, <2>5
    <3>2. old \in [1..Len(s) -> Lines] BY <2>1, <2>5, <3>1
    <3> HIDE DEF old
    <3> QED BY <2>1, <3>2
  <2>7. \A i \in DOMAIN s : /\ old[i].turn = s[i].turn /\ old[i].ended = s[i].ended
                            /\ old[i].role \in {s[i].role, "none"}
    <3>1. \A x \in Lines : /\ [x EXCEPT !.role = "none"].turn = x.turn /\ [x EXCEPT !.role = "none"].ended = x.ended
                           /\ [x EXCEPT !.role = "none"].role = "none"
      BY DEF Lines
    <3> HIDE DEF old
    <3> QED BY <2>1, <2>3, <2>5, <3>1
  <2>8. RunOn(s, line) = Append(old, new) BY <1>2 DEF RunOn
  <2> HIDE DEF old, new
  <2> QED BY <1>2, <2>1, <2>2, <2>4, <2>5, <2>6, <2>7, <2>8, AppendLines
<1> QED BY <1>1, <1>2

\* A copy that is cut off has the first lines of the original, the last one perhaps torn.
LEMMA CutOffLines ==
  ASSUME NEW s \in Seq(Lines), NEW t \in CutOffs(s)
  PROVE  /\ t \in Seq(Lines) /\ DOMAIN t \subseteq DOMAIN s /\ DOMAIN t = 1..Len(t) /\ Len(t) \in Nat
         /\ \A i \in DOMAIN t : /\ t[i].turn = s[i].turn /\ t[i].role \in {s[i].role, "none"}
                                /\ i # Len(t) => t[i] = s[i]
<1>0. /\ Len(s) \in Nat /\ DOMAIN s = 1..Len(s) /\ \A i \in DOMAIN s : s[i] \in Lines
      /\ \A n \in 0..Len(s) : /\ SubSeq(s, 1, n) \in Seq(Lines) /\ Len(SubSeq(s, 1, n)) = n
                              /\ \A i \in 1..n : SubSeq(s, 1, n)[i] = s[i]
  OBVIOUS
<1>1. CASE t \in {SubSeq(s, 1, n) : n \in 0..Len(s)}
  <2>1. PICK n \in 0..Len(s) : t = SubSeq(s, 1, n) BY <1>1
  <2>2. t \in Seq(Lines) /\ Len(t) = n /\ DOMAIN t = 1..n /\ \A i \in 1..n : t[i] = s[i] BY <1>0, <2>1
  <2> QED BY <1>0, <2>2
<1>2. CASE \E n \in DOMAIN s : \E role \in {s[n].role, "none"} :
             t = Append(SubSeq(s, 1, n - 1), [s[n] EXCEPT !.role = role, !.ended = FALSE])
  <2> PICK n \in DOMAIN s : \E role \in {s[n].role, "none"} :
             t = Append(SubSeq(s, 1, n - 1), [s[n] EXCEPT !.role = role, !.ended = FALSE])
    BY <1>2
  <2>1. PICK role \in {s[n].role, "none"} :
          t = Append(SubSeq(s, 1, n - 1), [s[n] EXCEPT !.role = role, !.ended = FALSE])
    OBVIOUS
  <2> DEFINE start == SubSeq(s, 1, n - 1)
             piece == [s[n] EXCEPT !.role = role, !.ended = FALSE]
  <2>2. piece \in Lines /\ piece.turn = s[n].turn /\ piece.role = role
    <3>1. s[n] \in Lines BY <1>0
    <3>2. \A x \in Lines : \A r \in {x.role, "none"} :
            /\ [x EXCEPT !.role = r, !.ended = FALSE] \in Lines
            /\ [x EXCEPT !.role = r, !.ended = FALSE].turn = x.turn
            /\ [x EXCEPT !.role = r, !.ended = FALSE].role = r
      BY DEF Lines
    <3> QED BY <3>1, <3>2
  <2>3. n - 1 \in 0..Len(s) /\ n \in Nat BY <1>0
  <2>4. start \in Seq(Lines) /\ Len(start) = n - 1 /\ \A i \in 1..(n - 1) : start[i] = s[i]
    BY <1>0, <2>3
  <2>5. t = Append(start, piece) BY <2>1
  <2> HIDE DEF start, piece
  <2>6. t \in Seq(Lines) /\ Len(t) = n /\ DOMAIN t = 1..n /\ t[n] = piece /\ \A i \in 1..(n - 1) : t[i] = s[i]
    BY <2>2, <2>3, <2>4, <2>5, AppendLines
  <2> QED BY <1>0, <2>2, <2>3, <2>6
<1> QED BY <1>1, <1>2 DEF CutOffs

\* What Load makes of the lines.
LEMMA MessagesOf ==
  ASSUME NEW s \in Seq(Lines)
  PROVE  /\ Messages(s) \in Seq(Entries) /\ DOMAIN Messages(s) = DOMAIN s /\ Len(Messages(s)) = Len(s)
         /\ \A i \in DOMAIN s : Messages(s)[i] = [turn |-> s[i].turn, role |-> s[i].role]
<1>1. Len(s) \in Nat /\ DOMAIN s = 1..Len(s) /\ \A i \in DOMAIN s : s[i] \in Lines OBVIOUS
<1>2. /\ DOMAIN Messages(s) = DOMAIN s
      /\ \A i \in DOMAIN s : Messages(s)[i] = [turn |-> s[i].turn, role |-> s[i].role]
  BY DEF Messages, Message
<1>3. \A i \in DOMAIN s : Messages(s)[i] \in Entries BY <1>1, <1>2, FieldsTyped DEF Entries, Roles
<1>4. Messages(s) \in [1..Len(s) -> Entries] BY <1>1, <1>2, <1>3 DEF Messages
<1> HIDE DEF Messages
<1>5. Messages(s) \in Seq(Entries) /\ Len(Messages(s)) = Len(s) BY <1>1, <1>4
<1> QED BY <1>2, <1>5

LEMMA MessagesSince ==
  ASSUME NEW s \in Seq(Lines), NEW n, Since(s, n) PROVE Since(Messages(s), n)
<1>1. /\ DOMAIN Messages(s) = DOMAIN s
      /\ \A i \in DOMAIN s : Messages(s)[i] = [turn |-> s[i].turn, role |-> s[i].role]
  BY MessagesOf
<1>2. \A i \in DOMAIN s : Messages(s)[i].turn = s[i].turn BY <1>1
<1> QED BY <1>1, <1>2 DEF Since

LEMMA RunOnWhole ==
  ASSUME NEW s \in Seq(Lines), NEW line \in Lines, Whole(s),
         line.role = "assistant" => Asked(s, Len(s) + 1, line.turn) /\ s[Len(s)].ended
  PROVE  Whole(RunOn(s, line))
<1> DEFINE t == RunOn(s, line)
<1>1. /\ Len(s) \in Nat /\ DOMAIN t = 1..(Len(s) + 1) /\ DOMAIN s = 1..Len(s)
      /\ t[Len(s) + 1].turn = line.turn /\ t[Len(s) + 1].role \in {line.role, "none"}
      /\ \A i \in DOMAIN s : /\ t[i].turn = s[i].turn /\ t[i].ended = s[i].ended
                             /\ t[i].role \in {s[i].role, "none"}
                             /\ i # Len(s) \/ s[i].ended => t[i] = s[i]
  BY RunOnLines
<1> HIDE DEF t
<1>2. ASSUME NEW i \in DOMAIN t, t[i].role = "assistant" PROVE Asked(t, i, t[i].turn)
  <2>1. CASE i = Len(s) + 1
    <3>1. Asked(s, i, line.turn) /\ s[Len(s)].ended BY <1>1, <1>2, <2>1
    <3>2. i - 1 = Len(s) /\ i - 1 \in DOMAIN s /\ (i > 2 => i - 2 \in DOMAIN s) BY <1>1, <2>1, <3>1 DEF Asked
    <3> QED BY <1>1, <2>1, <3>1, <3>2 DEF Asked
  <2>2. CASE i \in DOMAIN s
    <3>1. Asked(s, i, s[i].turn) BY <1>1, <1>2, <2>2 DEF Whole
    <3>2. i - 1 \in DOMAIN s /\ i - 1 # Len(s) /\ (i > 2 => i - 2 \in DOMAIN s) BY <1>1, <2>2, <3>1 DEF Asked
    <3> QED BY <1>1, <2>2, <3>1, <3>2 DEF Asked
  <2> QED BY <1>1, <2>1, <2>2
<1> QED BY <1>2 DEF Whole, t

LEMMA CutOffWhole ==
  ASSUME NEW s \in Seq(Lines), Whole(s), NEW t \in CutOffs(s)
  PROVE  Whole(t)
<1>1. /\ DOMAIN t \subseteq DOMAIN s /\ DOMAIN t = 1..Len(t) /\ Len(t) \in Nat
      /\ \A i \in DOMAIN t : /\ t[i].turn = s[i].turn /\ t[i].role \in {s[i].role, "none"}
                             /\ i # Len(t) => t[i] = s[i]
  BY CutOffLines
<1>2. ASSUME NEW i \in DOMAIN t, t[i].role = "assistant" PROVE Asked(t, i, t[i].turn)
  <2>1. Asked(s, i, s[i].turn) BY <1>1, <1>2 DEF Whole
  <2>2. i - 1 \in DOMAIN t /\ i - 1 # Len(t) /\ (i > 2 => i - 2 \in DOMAIN t /\ i - 2 # Len(t))
    BY <1>1, <2>1 DEF Asked
  <2> QED BY <1>1, <2>1, <2>2 DEF Asked
<1> QED BY <1>2 DEF Whole

LEMMA RunOnSince ==
  ASSUME NEW s \in Seq(Lines), NEW line \in Lines, NEW n \in Nat, Since(s, n), line.turn > n
  PROVE  Since(RunOn(s, line), n)
<1>1. /\ Len(s) \in Nat /\ DOMAIN s = 1..Len(s) /\ DOMAIN RunOn(s, line) = 1..(Len(s) + 1)
      /\ RunOn(s, line)[Len(s) + 1].turn = line.turn
      /\ \A i \in DOMAIN s : RunOn(s, line)[i].turn = s[i].turn
  BY RunOnLines
<1>2. ASSUME NEW i \in DOMAIN RunOn(s, line), RunOn(s, line)[i].turn > 0 PROVE RunOn(s, line)[i].turn > n
  <2>1. CASE i = Len(s) + 1 BY <1>1, <2>1
  <2>2. CASE i \in DOMAIN s BY <1>1, <1>2, <2>2 DEF Since
  <2> QED BY <1>1, <2>1, <2>2
<1> QED BY <1>2 DEF Since

-----------------------------------------------------------------------------
(* The steps of the store.                                                 *)

\* The steps of Append that write a line, or fail to.
Encodes(u) == EncodeUser(u) \/ EncodeAssistant(u) \/ EncodeFails(u)

LEMMA EncodesALine ==
  ASSUME StoreTyped, NEW u \in Users, Encodes(u)
  PROVE  /\ UNCHANGED <<turn, copy, seen, cleared, damaged>>
         /\ pc[u] \in {"user", "assistant"}
         /\ pc' = [pc EXCEPT ![u] = IF EncodeUser(u) THEN "assistant" ELSE "idle"]
         /\ cut' = cut \/ cut' = [cut EXCEPT ![u] = @ \cup {turn[u]}]
         /\ long' = long \/ long' = [long EXCEPT ![u] = TRUE]
         /\ \/ disk' \in {disk, Put(New(u), LinesOf(New(u)))}
            \/ \E line \in Lines :
                 /\ line.turn = turn[u] /\ (line.role = "assistant" => pc[u] = "assistant")
                 /\ disk' = Extend(New(u), line)
<1> USE DEF StoreTyped, StorePCs, Goto
<1>1. CASE EncodeUser(u)
  <2>1. disk' = Extend(New(u), Line(u, "user", TRUE)) /\ long' \in {long, [long EXCEPT ![u] = TRUE]}
    BY <1>1 DEF EncodeUser, Write
  <2>2. Line(u, "user", TRUE) \in Lines /\ Line(u, "user", TRUE).turn = turn[u] /\ Line(u, "user", TRUE).role = "user"
    BY LineTyped DEF Roles
  <2>3. /\ UNCHANGED <<turn, copy, seen, cleared, damaged, cut>> /\ pc[u] = "user"
        /\ pc' = [pc EXCEPT ![u] = "assistant"]
    BY <1>1 DEF EncodeUser
  <2> QED BY <1>1, <2>1, <2>2, <2>3
<1>2. CASE EncodeAssistant(u)
  <2>1. disk' = Extend(New(u), Line(u, "assistant", TRUE)) /\ long' \in {long, [long EXCEPT ![u] = TRUE]}
    BY <1>2 DEF EncodeAssistant, Write
  <2>2. Line(u, "assistant", TRUE) \in Lines /\ Line(u, "assistant", TRUE).turn = turn[u]
    BY LineTyped DEF Roles
  <2>3. /\ UNCHANGED <<turn, copy, seen, cleared, damaged, cut>> /\ pc[u] = "assistant"
        /\ pc' = [pc EXCEPT ![u] = "idle"] /\ ~EncodeUser(u)
    BY <1>2 DEF EncodeAssistant, EncodeUser
  <2> QED BY <2>1, <2>2, <2>3
<1>3. CASE EncodeFails(u)
  <2>1. PICK role \in {"user", "assistant"} :
          /\ pc[u] = role /\ pc' = [pc EXCEPT ![u] = "idle"]
          /\ \/ disk' \in {disk, Put(New(u), LinesOf(New(u)))} /\ UNCHANGED <<cut, long>>
             \/ /\ \E read \in {role, "none"} : Write(u, Line(u, read, FALSE))
                /\ cut' = [cut EXCEPT ![u] = @ \cup {turn[u]}]
    BY <1>3 DEF EncodeFails
  <2>2. UNCHANGED <<turn, copy, seen, cleared, damaged>> BY <1>3 DEF EncodeFails
  <2>3. ~EncodeUser(u) BY <2>1 DEF EncodeUser
  <2>4. CASE disk' \in {disk, Put(New(u), LinesOf(New(u)))} /\ UNCHANGED <<cut, long>>
    BY <2>1, <2>2, <2>3, <2>4
  <2>5. CASE /\ \E read \in {role, "none"} : Write(u, Line(u, read, FALSE))
             /\ cut' = [cut EXCEPT ![u] = @ \cup {turn[u]}]
    <3>1. PICK read \in {role, "none"} : Write(u, Line(u, read, FALSE)) BY <2>5
    <3>2. /\ Line(u, read, FALSE) \in Lines /\ Line(u, read, FALSE).turn = turn[u]
          /\ Line(u, read, FALSE).role = "assistant" => pc[u] = "assistant"
      <4>1. read \in Roles /\ (read = "assistant" => pc[u] = "assistant") BY <2>1 DEF Roles
      <4>2. Line(u, read, FALSE).role = read BY <4>1, LineTyped
      <4> QED BY <4>1, <4>2, LineTyped
    <3>3. disk' = Extend(New(u), Line(u, read, FALSE)) /\ long' \in {long, [long EXCEPT ![u] = TRUE]}
      BY <3>1 DEF Write
    <3> QED BY <2>1, <2>2, <2>3, <2>5, <3>2, <3>3
  <2> QED BY <2>1, <2>4, <2>5
<1> QED BY <1>1, <1>2, <1>3 DEF Encodes

LEMMA TypedStep == StoreTyped /\ [Next]_vars => StoreTyped'
<1> SUFFICES ASSUME StoreTyped, [Next]_vars PROVE StoreTyped'
  OBVIOUS
<1>0. ASSUME NEW u \in Users, Encodes(u) PROVE StoreTyped'
  <2> DEFINE Typed == DOMAIN disk' \subseteq Users \X {"new", "old"} /\ \A g \in DOMAIN disk' : disk'[g] \in Seq(Lines)
  <2>1. New(u) \in Users \X {"new", "old"} /\ LinesOf(New(u)) \in Seq(Lines) BY LinesTyped DEF New
  <2>2. ASSUME NEW s \in Seq(Lines), disk' = Put(New(u), s) PROVE Typed
    BY <2>1, <2>2 DEF Put, StoreTyped
  <2>3. Typed
    <3>1. CASE disk' = disk BY <3>1 DEF StoreTyped
    <3>2. CASE disk' = Put(New(u), LinesOf(New(u))) BY <2>1, <2>2, <3>2
    <3>3. CASE \E line \in Lines : disk' = Extend(New(u), line) BY <2>1, <2>2, <3>3, RunOnLines DEF Extend
    <3> QED BY <1>0, <3>1, <3>2, <3>3, EncodesALine
  <2>4. turn[u] \in Nat /\ cut \in [Users -> SUBSET Nat] BY DEF StoreTyped
  <2>5. cut' \in [Users -> SUBSET Nat] BY <1>0, <2>4, EncodesALine
  <2> QED BY <1>0, <2>3, <2>5, EncodesALine DEF StoreTyped, StorePCs
<1> USE DEF StoreTyped, StorePCs, Goto
<1>1. ASSUME NEW f, NEW s \in Seq(Lines), f \in Users \X {"new", "old"}, disk' = Put(f, s)
      PROVE  DOMAIN disk' \subseteq Users \X {"new", "old"} /\ \A g \in DOMAIN disk' : disk'[g] \in Seq(Lines)
  BY <1>1 DEF Put
<1>2. ASSUME NEW f, disk' = Without(f)
      PROVE  DOMAIN disk' \subseteq Users \X {"new", "old"} /\ \A g \in DOMAIN disk' : disk'[g] \in Seq(Lines)
  BY <1>2 DEF Without, Restrict
<1>4. ASSUME NEW u \in Users PROVE New(u) \in Users \X {"new", "old"} /\ Messages(Loaded(u)) \in Seq(Entries)
  <2>1. Loaded(u) \in Seq(Lines) BY LinesTyped DEF Loaded
  <2> QED BY <2>1, MessagesOf DEF New
<1>5. ASSUME NEW u \in Users, Load(u) PROVE StoreTyped'
  BY <1>4, <1>5 DEF Load
<1>6. ASSUME NEW u \in Users, TurnEndsSilently(u) PROVE StoreTyped'
  BY <1>6 DEF TurnEndsSilently
<1>7. ASSUME NEW u \in Users, AppendStarts(u) PROVE StoreTyped'
  <2>1. copy' \in [Users -> Seq(Lines)]
    BY <1>7, LinesTyped DEF AppendStarts
  <2> QED BY <1>7, <2>1 DEF AppendStarts
<1>8. ASSUME NEW u \in Users, CopyCreates(u) \/ CopyWrites(u) PROVE StoreTyped'
  <2>1. <<>> \in Seq(Lines) /\ copy[u] \in Seq(Lines)
    OBVIOUS
  <2> QED BY <1>1, <1>4, <1>8, <2>1 DEF CopyCreates, CopyWrites
<1>9. ASSUME NEW u \in Users, CopyFails(u) PROVE StoreTyped'
  <2>1. CASE disk' = disk BY <1>9, <2>1 DEF CopyFails
  <2>2. CASE \E lines \in CutOffs(copy[u]) : disk' = Put(New(u), lines)
    <3>1. PICK lines \in CutOffs(copy[u]) : disk' = Put(New(u), lines) BY <2>2
    <3>2. lines \in Seq(Lines) BY CutOffLines
    <3>3. DOMAIN disk' \subseteq Users \X {"new", "old"} /\ \A g \in DOMAIN disk' : disk'[g] \in Seq(Lines)
      BY <1>1, <1>4, <3>1, <3>2
    <3> QED BY <1>9, <3>3 DEF CopyFails
  <2> QED BY <1>9, <2>1, <2>2 DEF CopyFails
<1>10. ASSUME NEW u \in Users, RemoveOld(u) \/ ClearOld(u) PROVE StoreTyped'
  BY <1>2, <1>10 DEF RemoveOld, ClearOld
<1>12. ASSUME NEW u \in Users, Clear(u) PROVE StoreTyped'
  <2>1. cut' = [cut EXCEPT ![u] = {}] /\ {} \in SUBSET Nat BY <1>12 DEF Clear, Cleared
  <2> QED BY <1>2, <1>12, <2>1 DEF Clear, Cleared
<1>13. ASSUME NEW u \in Users, ClearFails(u) PROVE StoreTyped'
  BY <1>13 DEF ClearFails
<1>14. CASE Crash
  BY <1>14 DEF Crash
<1>15. CASE UNCHANGED vars
  BY <1>15 DEF vars
<1> QED BY <1>0, <1>5, <1>6, <1>7, <1>8, <1>9, <1>10, <1>12, <1>13, <1>14, <1>15
           DEF Next, AppendExchange, Encodes

\* Old files and copies hold no answer without its question, and neither does a file
\* a turn has written to.
LEMMA ExchangedStep == StoreTyped /\ Exchanged /\ [Next]_vars => Exchanged'
<1> SUFFICES ASSUME StoreTyped, Exchanged, [Next]_vars PROVE Exchanged'
  OBVIOUS
<1>0. /\ \A f : Whole(LinesOf(f)) /\ LinesOf(f) \in Seq(Lines)
      /\ \A u, v \in Users : New(u) = New(v) => u = v
      /\ \A u, v \in Users : New(u) # Old(v)
      /\ Whole(<<>>)
  BY LinesTyped DEF LinesOf, Exchanged, Whole, New, Old
\* A step that writes no file.
<1>1. ASSUME disk' = disk, \A v \in Users : Whole(copy'[v]),
             \A v \in Users : pc'[v] = "assistant" => pc[v] = "assistant" /\ turn'[v] = turn[v]
      PROVE  Exchanged'
  BY <1>1 DEF Exchanged, LinesOf
\* A step that writes or removes a file of u.
<1>2. ASSUME NEW u \in Users, NEW f \in {New(u), Old(u)}, UNCHANGED <<turn, copy>>,
             pc'[u] # "assistant", \A v \in Users : v # u => pc'[v] = pc[v],
             \/ disk' = Without(f)
             \/ \E s : disk' = Put(f, s) /\ Whole(s)
      PROVE  Exchanged'
  <2>1. \A g \in DOMAIN disk' : Whole(disk'[g])
    BY <1>2 DEF Exchanged, Put, Without, Restrict
  <2>2. \A v \in Users : v # u => LinesOf(New(v))' = LinesOf(New(v))
    BY <1>0, <1>2 DEF LinesOf, Put, Without, Restrict
  <2> QED BY <1>2, <2>1, <2>2 DEF Exchanged
\* A question that is written last is the one that is asked.
<1>3. ASSUME NEW u \in Users, EncodeUser(u) PROVE Exchanged'
  <2> DEFINE s == LinesOf(New(u))
             line == Line(u, "user", TRUE)
             t == RunOn(s, line)
  <2>1. disk' = Put(New(u), t) /\ UNCHANGED <<turn, copy>>
    BY <1>3 DEF EncodeUser, Write, Extend
  <2>2. pc' = [pc EXCEPT ![u] = "assistant"] BY <1>3 DEF EncodeUser, Goto
  <2>3. line \in Lines /\ line.turn = turn[u] /\ line.role = "user" /\ line.ended
    BY LineTyped DEF Roles
  <2>4. Whole(t) BY <1>0, <2>3, RunOnWhole
  <2>5. Asked(t, Len(t) + 1, turn[u]) /\ t[Len(t)].ended
    <3>0. s \in Seq(Lines) BY <1>0
    <3> HIDE DEF line, s
    <3>1. /\ Len(s) \in Nat /\ Len(t) = Len(s) + 1 /\ t[Len(s) + 1].turn = turn[u] /\ t[Len(s) + 1].ended
          /\ t[Len(s) + 1].role = IF CutOff(s) THEN "none" ELSE "user"
          /\ DOMAIN s = 1..Len(s) /\ \A i \in DOMAIN s : t[i].ended = s[i].ended
      <4>1. line \in Lines /\ line.turn = turn[u] /\ line.role = "user" /\ line.ended = TRUE
        BY <2>3, FieldsTyped
      <4>2. t[Len(s) + 1].ended = TRUE BY <3>0, <4>1, RunOnLines
      <4>3. /\ Len(s) \in Nat /\ Len(t) = Len(s) + 1 /\ t[Len(s) + 1].turn = turn[u]
            /\ DOMAIN s = 1..Len(s) /\ \A i \in DOMAIN s : t[i].ended = s[i].ended
        BY <3>0, <4>1, RunOnLines
      <4>4. t[Len(s) + 1].role = IF CutOff(s) THEN "none" ELSE "user" BY <3>0, <4>1, RunOnLines
      <4> QED BY <4>2, <4>3, <4>4
    <3>2. CutOff(s) => Len(s) \in DOMAIN s /\ ~s[Len(s)].ended
      <4>1. \A q \in Seq(Lines) : q # <<>> => Len(q) \in DOMAIN q OBVIOUS
      <4> QED BY <3>0, <4>1 DEF CutOff, Last
    <3> HIDE DEF t
    <3>3. CutOff(s) => Len(t) + 1 > 2 /\ ~t[Len(t) + 1 - 2].ended BY <3>1, <3>2
    <3> QED BY <3>1, <3>3 DEF Asked
  <2>6. \A g \in DOMAIN disk' : Whole(disk'[g]) BY <2>1, <2>4 DEF Exchanged, Put
  <2>7. LinesOf(New(u))' = t /\ \A v \in Users : v # u => LinesOf(New(v))' = LinesOf(New(v))
    BY <1>0, <2>1 DEF LinesOf, Put
  <2> HIDE DEF s, t, line
  <2>8. ASSUME NEW v \in Users, pc'[v] = "assistant"
        PROVE  /\ Asked(LinesOf(New(v))', Len(LinesOf(New(v))') + 1, turn'[v])
               /\ LinesOf(New(v))'[Len(LinesOf(New(v))')].ended
    <3>1. CASE v = u BY <2>1, <2>5, <2>7, <3>1
    <3>2. CASE v # u
      <4>1. pc[v] = "assistant" BY <2>2, <2>8, <3>2 DEF StoreTyped
      <4>2. LinesOf(New(v))' = LinesOf(New(v)) /\ turn'[v] = turn[v] BY <2>1, <2>7, <3>2
      <4>3. /\ Asked(LinesOf(New(v)), Len(LinesOf(New(v))) + 1, turn[v])
            /\ LinesOf(New(v))[Len(LinesOf(New(v)))].ended
        BY <4>1 DEF Exchanged
      <4> QED BY <4>2, <4>3
    <3> QED BY <3>1, <3>2
  <2>9. \A v \in Users : Whole(copy'[v]) BY <2>1 DEF Exchanged
  <2>10. \A v \in Users : pc'[v] = "assistant" =>
           /\ Asked(LinesOf(New(v)), Len(LinesOf(New(v))) + 1, turn[v])'
           /\ (LinesOf(New(v))[Len(LinesOf(New(v)))].ended)'
    BY <2>8 DEF Asked
  <2> QED BY <2>6, <2>9, <2>10 DEF Exchanged
\* What comes after it, whole or cut off, is its answer.
<1>4. ASSUME NEW u \in Users, Encodes(u), ~EncodeUser(u) PROVE Exchanged'
  <2>1. /\ UNCHANGED <<turn, copy>> /\ pc' = [pc EXCEPT ![u] = "idle"]
        /\ \/ disk' \in {disk, Put(New(u), LinesOf(New(u)))}
           \/ \E line \in Lines :
                /\ line.turn = turn[u] /\ (line.role = "assistant" => pc[u] = "assistant")
                /\ disk' = Extend(New(u), line)
    BY <1>4, EncodesALine
  <2>2. /\ \A v \in Users : v # u => pc'[v] = pc[v]
        /\ \A v \in Users : pc'[v] = "assistant" => pc[v] = "assistant"
        /\ pc'[u] # "assistant"
    BY <2>1 DEF StoreTyped
  <2>3. CASE disk' = disk
    <3>1. \A v \in Users : Whole(copy'[v]) BY <2>1 DEF Exchanged
    <3> QED BY <1>1, <2>1, <2>2, <2>3, <3>1
  <2>4. CASE disk' = Put(New(u), LinesOf(New(u))) BY <1>0, <1>2, <2>1, <2>2, <2>4
  <2>5. ASSUME NEW line \in Lines, line.turn = turn[u], line.role = "assistant" => pc[u] = "assistant",
               disk' = Extend(New(u), line)
        PROVE  Exchanged'
    <3>1. line.role = "assistant" =>
            /\ Asked(LinesOf(New(u)), Len(LinesOf(New(u))) + 1, line.turn)
            /\ LinesOf(New(u))[Len(LinesOf(New(u)))].ended
      BY <2>5 DEF Exchanged
    <3>2. Whole(RunOn(LinesOf(New(u)), line)) BY <1>0, <3>1, RunOnWhole
    <3> QED BY <1>2, <2>1, <2>2, <2>5, <3>2 DEF Extend
  <2> QED BY <2>1, <2>3, <2>4, <2>5
<1> USE DEF StoreTyped, StorePCs, Goto
<1>5. ASSUME NEW u \in Users, Load(u) \/ TurnEndsSilently(u) \/ ClearFails(u) PROVE Exchanged'
  <2>1. \A v \in Users : Whole(copy[v])
    BY DEF Exchanged
  <2> QED BY <1>1, <1>5, <2>1 DEF Load, TurnEndsSilently, ClearFails
<1>6. ASSUME NEW u \in Users, AppendStarts(u) PROVE Exchanged'
  <2>1. \A v \in Users : Whole(copy'[v])
    BY <1>0, <1>6 DEF Exchanged, AppendStarts
  <2> QED BY <1>1, <1>6, <2>1 DEF AppendStarts
<1>7. ASSUME NEW u \in Users, CopyCreates(u) \/ CopyWrites(u) PROVE Exchanged'
  <2>1. Whole(copy[u])
    BY DEF Exchanged
  <2> QED BY <1>0, <1>2, <1>7, <2>1 DEF CopyCreates, CopyWrites
<1>8. ASSUME NEW u \in Users, CopyFails(u) PROVE Exchanged'
  <2>1. Whole(copy[u]) /\ copy[u] \in Seq(Lines) /\ \A v \in Users : Whole(copy[v])
    BY DEF Exchanged
  <2>2. CASE disk' = disk BY <1>1, <1>8, <2>1, <2>2 DEF CopyFails
  <2>3. CASE \E lines \in CutOffs(copy[u]) : disk' = Put(New(u), lines)
    <3>1. \E lines : disk' = Put(New(u), lines) /\ Whole(lines) BY <2>1, <2>3, CutOffWhole
    <3> QED BY <1>2, <1>8, <3>1 DEF CopyFails
  <2> QED BY <1>8, <2>2, <2>3 DEF CopyFails
<1>9. ASSUME NEW u \in Users, RemoveOld(u) \/ ClearOld(u) PROVE Exchanged'
  <2>1. CASE disk' = disk
    <3>1. \A v \in Users : Whole(copy[v])
      BY DEF Exchanged
    <3> QED BY <1>1, <1>9, <2>1, <3>1 DEF RemoveOld, ClearOld
  <2>2. CASE disk' = Without(Old(u))
    BY <1>2, <1>9, <2>2 DEF RemoveOld, ClearOld
  <2> QED BY <1>9, <2>1, <2>2 DEF RemoveOld, ClearOld
<1>10. ASSUME NEW u \in Users, Clear(u) PROVE Exchanged'
  <2>1. disk' = Without(New(u)) /\ copy' = copy /\ pc'[u] # "assistant"
        /\ \A v \in Users : v # u => pc'[v] = pc[v] /\ turn'[v] = turn[v]
    BY <1>10 DEF Clear
  <2>2. \A g \in DOMAIN disk' : Whole(disk'[g])
    BY <2>1 DEF Exchanged, Without, Restrict
  <2>3. \A v \in Users : v # u => LinesOf(New(v))' = LinesOf(New(v))
    BY <1>0, <2>1 DEF LinesOf, Without, Restrict
  <2> QED BY <2>1, <2>2, <2>3 DEF Exchanged
<1>11. CASE Crash
  <2>1. \A v \in Users : Whole(copy[v])
    BY DEF Exchanged
  <2> QED BY <1>1, <1>11, <2>1 DEF Crash
<1>12. CASE UNCHANGED vars
  BY <1>12 DEF vars, Exchanged, LinesOf
<1> QED BY <1>3, <1>4, <1>5, <1>6, <1>7, <1>8, <1>9, <1>10, <1>11, <1>12
           DEF Next, AppendExchange, Encodes

\* What a session may still load is of before the migration or newer than its last
\* Clear, because every turn has a number of its own.
LEMMA FreshStep == StoreTyped /\ Fresh /\ [Next]_vars => Fresh'
<1> SUFFICES ASSUME StoreTyped, Fresh, [Next]_vars PROVE Fresh'
  OBVIOUS
<1> DEFINE FreshOf(u) ==
      /\ Since(LinesOf(New(u)), cleared[u])
      /\ \A n \in Nat : Since(LinesOf(Old(u)), n) /\ Since(copy[u], n)
      /\ cleared[u] <= turn[u]
      /\ pc[u] \in Working => cleared[u] < turn[u]
      /\ pc[u] = "thinking" => Since(seen[u], cleared[u])
<1>0. /\ \A f : LinesOf(f) \in Seq(Lines)
      /\ \A u, v \in Users : (New(u) = New(v) => u = v) /\ (Old(u) = Old(v) => u = v) /\ New(u) # Old(v)
      /\ \A n : Since(<<>>, n)
      /\ \A u \in Users : FreshOf(u)
  BY LinesTyped DEF New, Old, Since, Fresh
<1> SUFFICES ASSUME NEW u \in Users PROVE FreshOf(u)'
  BY DEF Fresh
<1> USE DEF Goto, StoreTyped, StorePCs, Working
\* A step of another session.
<1>1. ASSUME pc'[u] = pc[u], turn'[u] = turn[u], cleared'[u] = cleared[u], copy'[u] = copy[u],
             seen'[u] = seen[u], LinesOf(New(u))' = LinesOf(New(u)), LinesOf(Old(u))' = LinesOf(Old(u))
      PROVE  FreshOf(u)'
  BY <1>0, <1>1
<1>2. ASSUME NEW v \in Users, v # u, NEW f \in {New(v), Old(v)},
             disk' = Without(f) \/ \E s : disk' = Put(f, s)
      PROVE  LinesOf(New(u))' = LinesOf(New(u)) /\ LinesOf(Old(u))' = LinesOf(Old(u))
  BY <1>0, <1>2 DEF LinesOf, Put, Without, Restrict
<1>3. ASSUME disk' = disk
      PROVE  LinesOf(New(u))' = LinesOf(New(u)) /\ LinesOf(Old(u))' = LinesOf(Old(u))
  BY <1>3 DEF LinesOf
<1>4. ASSUME NEW v \in Users, Load(v) PROVE FreshOf(u)'
  <2>1. disk' = disk
    BY <1>4 DEF Load
  <2>2. Since(Messages(Loaded(u)), cleared[u])
    <3>1. Since(Loaded(u), cleared[u]) /\ Loaded(u) \in Seq(Lines) BY <1>0 DEF Loaded, Source
    <3> QED BY <3>1, MessagesSince
  <2>3. CASE v = u
    <3>1. seen'[u] = Messages(Loaded(u)) /\ turn'[u] = turn[u] + 1 /\ UNCHANGED <<cleared, copy>>
      BY <1>4, <2>3 DEF Load
    <3> QED BY <1>0, <1>3, <2>1, <2>2, <3>1
  <2>4. CASE v # u
    BY <1>1, <1>3, <1>4, <2>1, <2>4 DEF Load
  <2> QED BY <2>3, <2>4
<1>5. ASSUME NEW v \in Users, TurnEndsSilently(v) PROVE FreshOf(u)'
  <2>1. /\ UNCHANGED <<turn, disk, copy, cleared>>
        /\ (pc'[u] = pc[u] /\ seen'[u] = seen[u]) \/ (pc[u] \in Working /\ pc'[u] # "thinking")
    BY <1>5 DEF TurnEndsSilently
  <2> QED BY <1>0, <1>3, <2>1
<1>6. ASSUME NEW v \in Users, AppendStarts(v) PROVE FreshOf(u)'
  <2>1. /\ UNCHANGED <<turn, disk, cleared>>
        /\ (pc'[u] = pc[u] /\ seen'[u] = seen[u]) \/ (pc[u] \in Working /\ pc'[u] # "thinking")
        /\ copy'[u] = copy[u] \/ copy'[u] = LinesOf(Old(u))
    BY <1>6 DEF AppendStarts
  <2> QED BY <1>0, <1>3, <2>1
<1>7. ASSUME NEW v \in Users, CopyCreates(v) \/ CopyWrites(v) PROVE FreshOf(u)'
  <2>1. /\ disk' = Put(New(v), <<>>) \/ disk' = Put(New(v), copy[v])
        /\ UNCHANGED <<turn, copy, seen, cleared>>
        /\ \A t \in Users : t # v => pc'[t] = pc[t]
        /\ pc[v] \in Working /\ pc'[v] # "thinking"
    BY <1>7 DEF CopyCreates, CopyWrites
  <2>2. CASE v = u
    <3>1. LinesOf(Old(u))' = LinesOf(Old(u)) /\ (LinesOf(New(u))' = <<>> \/ LinesOf(New(u))' = copy[u])
      BY <1>0, <2>1, <2>2 DEF LinesOf, Put
    <3>2. cleared[u] \in Nat
      OBVIOUS
    <3>3. Since(LinesOf(New(u))', cleared[u])
      BY <1>0, <3>1, <3>2
    <3> QED BY <1>0, <2>1, <2>2, <3>1, <3>3
  <2>3. CASE v # u
    BY <1>1, <1>2, <2>1, <2>3
  <2> QED BY <2>2, <2>3
<1>8. ASSUME NEW v \in Users, RemoveOld(v) \/ ClearOld(v) PROVE FreshOf(u)'
  <2>1. /\ disk' = Without(Old(v)) \/ disk' = disk
        /\ UNCHANGED <<turn, copy, seen, cleared>>
        /\ pc'[u] = pc[u] \/ (pc[u] \in Working /\ pc'[u] # "thinking") \/ pc'[u] = "idle"
    BY <1>8 DEF RemoveOld, ClearOld
  <2>2. LinesOf(New(u))' = LinesOf(New(u)) /\ LinesOf(Old(u))' \in {LinesOf(Old(u)), <<>>}
    BY <1>0, <2>1 DEF LinesOf, Without, Restrict
  <2> QED BY <1>0, <2>1, <2>2
<1>9. ASSUME NEW v \in Users, Encodes(v) PROVE FreshOf(u)'
  <2>1. /\ UNCHANGED <<turn, copy, seen, cleared>> /\ \A t \in Users : t # v => pc'[t] = pc[t]
        /\ pc[v] \in Working /\ pc'[v] # "thinking"
        /\ \/ disk' \in {disk, Put(New(v), LinesOf(New(v)))}
           \/ \E line \in Lines : line.turn = turn[v] /\ disk' = Extend(New(v), line)
    BY <1>9, EncodesALine
  <2>2. CASE v = u
    <3>1. Since(LinesOf(New(u))', cleared[u]) /\ LinesOf(Old(u))' = LinesOf(Old(u))
      <4>1. CASE disk' \in {disk, Put(New(u), LinesOf(New(u)))} BY <1>0, <4>1 DEF LinesOf, Put
      <4>2. ASSUME NEW line \in Lines, line.turn = turn[u], disk' = Extend(New(u), line)
            PROVE  Since(LinesOf(New(u))', cleared[u]) /\ LinesOf(Old(u))' = LinesOf(Old(u))
        <5>1. cleared[u] \in Nat /\ line.turn > cleared[u] BY <1>0, <2>1, <2>2, <4>2
        <5>2. Since(RunOn(LinesOf(New(u)), line), cleared[u]) BY <1>0, <5>1, RunOnSince
        <5>3. LinesOf(New(u))' = RunOn(LinesOf(New(u)), line) /\ LinesOf(Old(u))' = LinesOf(Old(u))
          BY <1>0, <4>2 DEF LinesOf, Put, Extend
        <5> QED BY <5>2, <5>3
      <4> QED BY <2>1, <2>2, <4>1, <4>2
    <3> QED BY <1>0, <2>1, <2>2, <3>1
  <2>3. CASE v # u
    <3>1. disk' = disk \/ \E s : disk' = Put(New(v), s)
      BY <2>1 DEF Extend
    <3> QED BY <1>1, <1>2, <1>3, <2>1, <2>3, <3>1
  <2> QED BY <2>2, <2>3
<1>14. ASSUME NEW v \in Users, CopyFails(v) PROVE FreshOf(u)'
  <2>1. /\ UNCHANGED <<turn, copy, seen, cleared>> /\ \A t \in Users : t # v => pc'[t] = pc[t]
        /\ pc[v] \in Working /\ pc'[v] # "thinking"
        /\ disk' = disk \/ \E lines \in CutOffs(copy[v]) : disk' = Put(New(v), lines)
    BY <1>14 DEF CopyFails
  <2>2. CASE v = u
    <3>1. Since(LinesOf(New(u))', cleared[u]) /\ LinesOf(Old(u))' = LinesOf(Old(u))
      <4>1. CASE disk' = disk BY <1>0, <4>1 DEF LinesOf
      <4>2. ASSUME NEW lines \in CutOffs(copy[u]), disk' = Put(New(u), lines)
            PROVE  Since(LinesOf(New(u))', cleared[u]) /\ LinesOf(Old(u))' = LinesOf(Old(u))
        <5>1. cleared[u] \in Nat /\ copy[u] \in Seq(Lines) OBVIOUS
        <5>2. Since(copy[u], cleared[u]) BY <1>0, <5>1
        <5>3. Since(lines, cleared[u]) BY <5>1, <5>2, CutOffLines DEF Since
        <5>4. LinesOf(New(u))' = lines /\ LinesOf(Old(u))' = LinesOf(Old(u))
          BY <1>0, <4>2 DEF LinesOf, Put
        <5> QED BY <5>3, <5>4
      <4> QED BY <2>1, <2>2, <4>1, <4>2
    <3> QED BY <1>0, <2>1, <2>2, <3>1
  <2>3. CASE v # u
    <3>1. disk' = disk \/ \E s : disk' = Put(New(v), s)
      BY <2>1
    <3> QED BY <1>1, <1>2, <1>3, <2>1, <2>3, <3>1
  <2> QED BY <2>2, <2>3
<1>10. ASSUME NEW v \in Users, Clear(v) PROVE FreshOf(u)'
  <2>1. /\ disk' = Without(New(v)) /\ UNCHANGED <<copy, seen>>
        /\ cleared' = [cleared EXCEPT ![v] = turn[v] + 1] /\ turn' = [turn EXCEPT ![v] = @ + 1]
        /\ pc'[v] \in {"clear", "idle"} /\ \A t \in Users : t # v => pc'[t] = pc[t]
    BY <1>10 DEF Clear, Cleared
  <2>2. CASE v = u
    <3>1. LinesOf(New(u))' = <<>> /\ LinesOf(Old(u))' = LinesOf(Old(u))
      BY <1>0, <2>1, <2>2 DEF LinesOf, Without, Restrict
    <3> QED BY <1>0, <2>1, <2>2, <3>1
  <2>3. CASE v # u
    BY <1>1, <1>2, <2>1, <2>3
  <2> QED BY <2>2, <2>3
<1>11. ASSUME NEW v \in Users, ClearFails(v) PROVE FreshOf(u)'
  <2>1. /\ UNCHANGED <<disk, copy, seen, cleared>> /\ turn'[u] \in {turn[u], turn[u] + 1}
        /\ pc'[u] = pc[u] \/ pc'[u] = "idle"
    BY <1>11 DEF ClearFails
  <2> QED BY <1>0, <1>3, <2>1
<1>12. CASE Crash
  BY <1>0, <1>3, <1>12 DEF Crash
<1>13. CASE UNCHANGED vars
  BY <1>1, <1>3, <1>13 DEF vars
<1> QED BY <1>4, <1>5, <1>6, <1>7, <1>8, <1>9, <1>10, <1>11, <1>12, <1>13,
           <1>14
           DEF Next, AppendExchange, Encodes

-----------------------------------------------------------------------------
(* Turns are turns of the store.                                           *)

LEMMA TurnStep == [TurnNext]_allVars => [Next]_vars
<1> SUFFICES ASSUME [TurnNext]_allVars PROVE Next \/ UNCHANGED vars
  BY DEF vars
<1>1. ASSUME NEW u \in Users,
             Receive(u) \/ TakeSkillContent(u) \/ StartSkillDialogue(u) \/ OtherCommand(u)
      PROVE  UNCHANGED vars
  BY <1>1 DEF Receive, TakeSkillContent, StartSkillDialogue, OtherCommand, RepliesAtOnce
<1>2. ASSUME NEW u \in Users, SecurityCheck(u) \/ FeasibilityCheck(u) \/ WriteSkill(u)
      PROVE  UNCHANGED vars
  BY <1>2 DEF SecurityCheck, FeasibilityCheck, WriteSkill, Review, SkillDone, RepliesAtOnce
<1>3. ASSUME NEW u \in Users, ClearSession(u) \/ LoadSession(u) \/ GiveUp(u) PROVE Next
  BY <1>3 DEF ClearSession, LoadSession, GiveUp, RepliesUnrecorded, Next
<1>4. ASSUME NEW u \in Users, Orchestrate(u) \/ TryWalletPlanner(u) PROVE Next \/ UNCHANGED vars
  BY <1>4 DEF Orchestrate, TryWalletPlanner, Answer, RepliesUnrecorded, Next
<1>5. ASSUME NEW u \in Users, CallTools(u) \/ CallWriteFile(u) \/ CallWriteSkill(u) \/ FinalText(u)
      PROVE  UNCHANGED vars
  BY <1>5 DEF CallTools, CallWriteFile, CallWriteSkill, FinalText, NextRound, Answer
<1>6. ASSUME NEW u \in Users, RecordExchange(u) PROVE Next
  BY <1>6 DEF RecordExchange, AppendExchange, Next
<1>7. CASE ProcessCrash
  BY <1>7 DEF ProcessCrash, Next
<1>8. CASE UNCHANGED allVars
  BY <1>8 DEF allVars
<1> QED BY <1>1, <1>2, <1>3, <1>4, <1>5, <1>6, <1>7, <1>8 DEF TurnNext

\* Whatever a turn makes of a message, it uses the transcripts as the store does.
THEOREM TurnsUseTheStore == TurnSpec => Spec
<1>1. TurnInit => Init
  BY DEF TurnInit
<1> QED BY <1>1, TurnStep, PTL DEF TurnSpec, Spec

LEMMA StoreInit == Init => StoreInv
<1> SUFFICES ASSUME Init PROVE StoreInv
  OBVIOUS
<1>1. /\ OldLines \in Seq(Lines) /\ <<>> \in Seq(Lines) /\ Whole(<<>>) /\ Whole(OldLines)
      /\ \A n : Since(<<>>, n) /\ Since(OldLines, n)
  <2>1. OldLines \in Seq(Lines) /\ <<>> \in Seq(Lines) BY DEF OldLines, Lines
  <2>2. /\ DOMAIN OldLines = 1..2 /\ OldLines[1].turn = 0 /\ OldLines[2].turn = 0
        /\ OldLines[1].role = "user"
    BY DEF OldLines
  <2>3. DOMAIN <<>> = {} OBVIOUS
  <2>4. \A i \in 1..2 : i = 2 \/ i = 1 OBVIOUS
  <2>5. Whole(OldLines)
    <3> SUFFICES ASSUME NEW i \in DOMAIN OldLines, OldLines[i].role = "assistant"
                 PROVE  Asked(OldLines, i, OldLines[i].turn)
      BY DEF Whole
    <3>1. i = 2 BY <2>2, <2>4
    <3> QED BY <2>2, <3>1 DEF Asked
  <2>6. \A n : Since(OldLines, n)
    <3>1. \A i \in DOMAIN OldLines : OldLines[i].turn = 0 BY <2>2, <2>4
    <3> QED BY <3>1 DEF Since
  <2>7. Whole(<<>>) /\ \A n : Since(<<>>, n) BY <2>3 DEF Whole, Since
  <2> QED BY <2>1, <2>5, <2>6, <2>7
<1>2. /\ DOMAIN disk = {Old(u) : u \in Legacy} /\ \A f \in DOMAIN disk : disk[f] = OldLines
  BY DEF Init
<1>3. \A f : LinesOf(f) \in {<<>>, OldLines}
  BY <1>2 DEF LinesOf
<1>4. StoreTyped
  <2>1. DOMAIN disk \subseteq Users \X {"new", "old"}
    BY <1>2, SessionAssumption DEF Old
  <2> QED BY <1>1, <1>2, <2>1 DEF Init, StoreTyped, StorePCs
<1>5. Exchanged
  BY <1>1, <1>2 DEF Init, Exchanged
<1>6. Fresh
  BY <1>1, <1>3 DEF Init, Fresh, Working
<1> QED BY <1>4, <1>5, <1>6 DEF StoreInv

\* StoreInv is inductive: the files, in every state of session.Append, Load and Clear.
THEOREM StoreInvariant == Spec => []StoreInv
  BY StoreInit, TypedStep, ExchangedStep, FreshStep, PTL DEF Spec, StoreInv

\* Whatever fails and whenever the process dies, the line before an answer is its
\* question, which can be read unless it ran on from a line that was cut off.
THEOREM ExchangesAreWhole == TurnSpec => []WholeExchanges
<1>1. StoreInv => WholeExchanges
  BY DEF StoreInv, Exchanged, Whole, Asked, WholeExchanges
<1> QED BY <1>1, StoreInvariant, TurnsUseTheStore, PTL

\* What was recorded before a successful "/new" never comes back.
THEOREM ClearedStaysCleared == TurnSpec => []RecordedStaysCleared
<1>1. StoreInv => RecordedStaysCleared
  BY DEF StoreInv, Fresh, Since, RecordedStaysCleared
<1> QED BY <1>1, StoreInvariant, TurnsUseTheStore, PTL

-----------------------------------------------------------------------------
(* What was said is kept.                                                  *)

SaidTyped == said \in [Users -> Seq(Entries)] /\ damaged \in [Users -> BOOLEAN]

\* A line is of the turn that wrote it or of an earlier one, and what a turn has
\* still to write is not there yet.
Numbered(u) ==
  /\ \A m \in ToSet(said[u]) \cup ToSet(LinesOf(Old(u))) \cup ToSet(copy[u]) :
       m.turn <= turn[u] /\ (pc[u] \in Working => m.turn < turn[u])
  /\ \A i \in DOMAIN LinesOf(New(u)) :
       /\ LinesOf(New(u))[i].turn <= turn[u]
       /\ pc[u] \in Working => \/ LinesOf(New(u))[i].turn < turn[u]
                               \/ pc[u] = "assistant" /\ i = Len(LinesOf(New(u)))

\* How far a migration has got.
Migrating(u) ==
  /\ pc[u] = "create" => MustMigrate(u) /\ copy[u] = LinesOf(Old(u))
  /\ pc[u] = "remove" => New(u) \in DOMAIN disk
  /\ pc[u] \in {"user", "assistant"} => ~MustMigrate(u)

\* The transcript that a session would load once its migration is over.
Transcript(u) == IF pc[u] = "copy" THEN copy[u] ELSE LinesOf(Source(u))

\* All that was said is older than turn c.
SaidBefore(u, c) == \A m \in ToSet(said[u]) : m.turn < c

\* A line that is cut off at the end of a transcript is of a later turn than anything
\* that was acknowledged.
LastCut(u) ==
  CutOff(Transcript(u)) =>
    Last(Transcript(u)).turn \in cut[u] /\ SaidBefore(u, Last(Transcript(u)).turn)

\* A question that ran on is the first since the turn that was cut off.
Swallowed(u) ==
  pc[u] = "assistant" /\ LinesOf(New(u))[Len(LinesOf(New(u)))].role # "user" =>
    \E c \in cut[u] : c < turn[u] /\ SaidBefore(u, c)

Present(u) == \A m \in ToSet(said[u]) : m \in ToSet(Messages(Transcript(u))) \/ MayRunOn(u, m)

Undamaged(u) ==
  /\ Migrating(u) /\ LastCut(u) /\ Swallowed(u)
  /\ Present(u) /\ InOrder(said[u], Messages(Transcript(u)))

KeptOf(u) ==
  /\ Numbered(u) /\ ~CutOff(LinesOf(Old(u)))
  /\ ~damaged[u] => Undamaged(u)
  /\ pc[u] = "clear" => said[u] = <<>>
  /\ pc[u] = "thinking" => seen[u] = Messages(Loaded(u))

Keeping == SaidTyped /\ \A u \in Users : KeptOf(u)

LEMMA InSet ==
  ASSUME NEW S, NEW s \in Seq(S)
  PROVE  /\ \A x : x \in ToSet(s) <=> \E i \in DOMAIN s : s[i] = x
         /\ \A x \in S : ToSet(Append(s, x)) = ToSet(s) \cup {x}
         /\ ToSet(<<>>) = {}
<1>1. \A x : x \in ToSet(s) <=> \E i \in DOMAIN s : s[i] = x BY DEF ToSet
<1>2. ASSUME NEW x \in S PROVE ToSet(Append(s, x)) = ToSet(s) \cup {x}
  <2> DEFINE t == Append(s, x)
  <2>1. /\ Len(s) \in Nat /\ DOMAIN t = DOMAIN s \cup {Len(s) + 1}
        /\ t[Len(s) + 1] = x /\ \A i \in DOMAIN s : t[i] = s[i]
    OBVIOUS
  <2> HIDE DEF t
  <2>2. ToSet(t) = ToSet(s) \cup {x} BY <2>1 DEF ToSet
  <2> QED BY <2>2 DEF t
<1>3. ToSet(<<>>) = {} BY DEF ToSet
<1> QED BY <1>1, <1>2, <1>3

\* Changes in what does not count do not matter.
LEMMA InOrderStays ==
  ASSUME NEW part, NEW whole, NEW other, InOrder(part, whole),
         \A i \in DOMAIN other : other[i] \in ToSet(part) => i \in DOMAIN whole /\ whole[i] = other[i]
  PROVE  InOrder(part, other)
BY DEF InOrder

\* What is at the end of whole at most can be counted last.
LEMMA InOrderLast ==
  ASSUME NEW part \in Seq(Entries), NEW whole \in Seq(Entries), NEW m \in Entries,
         InOrder(part, whole), m \notin ToSet(part),
         \A i \in DOMAIN whole : whole[i] = m => i = Len(whole)
  PROVE  InOrder(Append(part, m), whole)
<1> DEFINE s == Append(part, m)
<1>0. Len(whole) \in Nat /\ DOMAIN whole = 1..Len(whole)
  OBVIOUS
<1>1. /\ Len(part) \in Nat /\ DOMAIN s = DOMAIN part \cup {Len(part) + 1} /\ DOMAIN part = 1..Len(part)
      /\ s[Len(part) + 1] = m /\ \A i \in DOMAIN part : s[i] = part[i]
  OBVIOUS
<1>2. ToSet(s) = ToSet(part) \cup {m} BY InSet
<1>3. ASSUME NEW i \in DOMAIN whole, NEW j \in DOMAIN whole, i < j,
             whole[i] \in ToSet(s), whole[j] \in ToSet(s)
      PROVE  \E p, q \in DOMAIN s : p < q /\ s[p] = whole[i] /\ s[q] = whole[j]
  <2>1. whole[i] # m /\ whole[i] \in ToSet(part) BY <1>0, <1>2, <1>3
  <2>2. PICK p \in DOMAIN part : part[p] = whole[i] BY <2>1, InSet
  <2>3. CASE whole[j] = m
    <3>1. p < Len(part) + 1 /\ p \in DOMAIN s /\ Len(part) + 1 \in DOMAIN s BY <1>1
    <3>2. s[p] = whole[i] /\ s[Len(part) + 1] = whole[j] BY <1>1, <2>2, <2>3
    <3> QED BY <3>1, <3>2
  <2>4. CASE whole[j] # m
    <3>1. whole[j] \in ToSet(part) BY <1>2, <1>3, <2>4
    <3>2. PICK a, b \in DOMAIN part : a < b /\ part[a] = whole[i] /\ part[b] = whole[j]
      BY <1>3, <2>1, <3>1 DEF InOrder
    <3> QED BY <1>1, <3>2
  <2> QED BY <2>3, <2>4
<1> HIDE DEF s
<1>4. InOrder(s, whole) BY <1>3 DEF InOrder
<1> QED BY <1>4 DEF s

\* A line of a later turn spoils nothing that counts.
LEMMA RanOn ==
  ASSUME NEW s \in Seq(Lines), NEW line \in Lines, NEW part \in Seq(Entries),
         InOrder(part, Messages(s)),
         \A m \in ToSet(part) : m.turn < line.turn /\ (CutOff(s) => m.turn < Last(s).turn)
  PROVE  /\ InOrder(part, Messages(RunOn(s, line)))
         /\ ToSet(part) \cap ToSet(Messages(s)) \subseteq ToSet(Messages(RunOn(s, line)))
<1> DEFINE t == RunOn(s, line)
           old == Messages(s)
           new == Messages(t)
<1>1. /\ t \in Seq(Lines) /\ Len(s) \in Nat /\ DOMAIN s = 1..Len(s) /\ DOMAIN t = 1..(Len(s) + 1)
      /\ t[Len(s) + 1].turn = line.turn
      /\ \A i \in DOMAIN s : t[i].turn = s[i].turn /\ (i # Len(s) \/ s[i].ended => t[i] = s[i])
  BY RunOnLines
<1>2. /\ DOMAIN old = DOMAIN s /\ \A i \in DOMAIN s : old[i] = [turn |-> s[i].turn, role |-> s[i].role]
  BY MessagesOf
<1>3. /\ DOMAIN new = DOMAIN t /\ \A i \in DOMAIN t : new[i] = [turn |-> t[i].turn, role |-> t[i].role]
  BY <1>1, MessagesOf
<1>4. \A m \in ToSet(part) : m \in Entries
  <2>1. \A i \in DOMAIN part : part[i] \in Entries OBVIOUS
  <2> QED BY <2>1, InSet
<1>5. Len(s) \in DOMAIN s /\ ~s[Len(s)].ended => CutOff(s) /\ Last(s) = s[Len(s)]
  <2>1. DOMAIN s # {} => s # <<>> OBVIOUS
  <2> QED BY <2>1 DEF CutOff, Last
<1>6. \A x \in Lines : x.turn \in Nat BY FieldsTyped
<1>7. \A i \in DOMAIN s : s[i] \in Lines OBVIOUS
<1> HIDE DEF t, old, new
<1>8. ASSUME NEW i \in DOMAIN s, old[i] \in ToSet(part) \/ new[i] \in ToSet(part) PROVE new[i] = old[i]
  <2>1. i \in DOMAIN t BY <1>1
  <2>2. old[i].turn = s[i].turn /\ new[i].turn = s[i].turn BY <1>1, <1>2, <1>3, <2>1
  <2>3. i # Len(s) \/ s[i].ended
    <3> SUFFICES ASSUME i = Len(s), ~s[i].ended PROVE FALSE OBVIOUS
    <3>1. CutOff(s) /\ Last(s).turn = s[i].turn BY <1>5
    <3>2. s[i].turn < s[i].turn BY <1>8, <2>2, <3>1
    <3> QED BY <1>6, <1>7, <3>2
  <2>4. t[i] = s[i] BY <1>1, <2>3
  <2> QED BY <1>2, <1>3, <2>1, <2>4
<1>9. ASSUME NEW i \in DOMAIN new, new[i] \in ToSet(part) PROVE i \in DOMAIN old /\ old[i] = new[i]
  <2>1. CASE i = Len(s) + 1
    <3>1. new[i].turn = line.turn BY <1>1, <1>3, <2>1
    <3>2. line.turn < line.turn BY <1>9, <3>1
    <3> QED BY <1>6, <3>2
  <2>2. CASE i \in DOMAIN s BY <1>2, <1>8, <1>9, <2>2
  <2> QED BY <1>1, <1>3, <2>1, <2>2
<1>10. InOrder(part, new) BY <1>9, InOrderStays DEF old
<1>11. ASSUME NEW m \in ToSet(part), m \in ToSet(old) PROVE m \in ToSet(new)
  <2>1. PICK i \in DOMAIN old : old[i] = m BY <1>11 DEF ToSet
  <2>2. i \in DOMAIN new /\ new[i] = m BY <1>1, <1>2, <1>3, <1>8, <2>1
  <2> QED BY <2>2 DEF ToSet
<1> QED BY <1>10, <1>11 DEF t, old, new

\* The files of a session, in what concerns its turns.
SameFiles(u) ==
  \A f \in {New(u), Old(u)} : (f \in DOMAIN disk' <=> f \in DOMAIN disk) /\ LinesOf(f)' = LinesOf(f)

LEMMA Apart ==
  /\ \A u, v \in Users : (New(u) = New(v) => u = v) /\ (Old(u) = Old(v) => u = v) /\ New(u) # Old(v)
  /\ \A u \in Users : disk' = disk => SameFiles(u)
  /\ \A u, v \in Users : \A f \in {New(v), Old(v)} :
       v # u /\ (disk' = Without(f) \/ \E s : disk' = Put(f, s)) => SameFiles(u)
<1>1. \A u, v \in Users : (New(u) = New(v) => u = v) /\ (Old(u) = Old(v) => u = v) /\ New(u) # Old(v)
  BY DEF New, Old
<1>2. \A u \in Users : disk' = disk => SameFiles(u) BY DEF SameFiles, LinesOf
<1>3. ASSUME NEW u \in Users, NEW v \in Users, NEW f \in {New(v), Old(v)}, v # u,
             disk' = Without(f) \/ \E s : disk' = Put(f, s)
      PROVE  SameFiles(u)
  <2>1. f \notin {New(u), Old(u)} BY <1>1, <1>3
  <2> QED BY <1>3, <2>1 DEF SameFiles, LinesOf, Put, Without, Restrict
<1> QED BY <1>1, <1>2, <1>3

\* A step of another session.
LEMMA KeptElsewhere ==
  ASSUME NEW u \in Users, KeptOf(u), SameFiles(u),
         pc'[u] = pc[u], turn'[u] = turn[u], copy'[u] = copy[u], seen'[u] = seen[u],
         said'[u] = said[u], damaged'[u] = damaged[u], cut'[u] = cut[u], long'[u] = long[u]
  PROVE  KeptOf(u)'
<1>1. /\ LinesOf(New(u))' = LinesOf(New(u)) /\ LinesOf(Old(u))' = LinesOf(Old(u))
      /\ MustMigrate(u)' = MustMigrate(u) /\ Source(u)' = Source(u)
      /\ (New(u) \in DOMAIN disk)' = (New(u) \in DOMAIN disk)
  BY DEF SameFiles, MustMigrate, Source, New, Old
<1>2. LinesOf(Source(u))' = LinesOf(Source(u)) BY <1>1 DEF Source, New, Old
<1>3. Messages(Loaded(u))' = Messages(Loaded(u)) BY <1>1, <1>2 DEF Loaded, Unreadable, Messages, Message, New
<1>4. Numbered(u)' /\ ~CutOff(LinesOf(Old(u)))' BY <1>1 DEF Numbered, KeptOf, CutOff
<1>5. Transcript(u)' = Transcript(u) BY <1>2 DEF Transcript
<1>6. Messages(Transcript(u))' = Messages(Transcript(u)) /\ CutOff(Transcript(u))' = CutOff(Transcript(u))
      /\ Last(Transcript(u))' = Last(Transcript(u))
  BY <1>5 DEF Messages, Message, CutOff, Last
<1>7. Migrating(u) => Migrating(u)' BY <1>1 DEF Migrating
<1>8. LastCut(u) => LastCut(u)' BY <1>5, <1>6 DEF LastCut, SaidBefore
<1>9. Swallowed(u) => Swallowed(u)' BY <1>1 DEF Swallowed, SaidBefore
<1>10. Present(u) => Present(u)' BY <1>6 DEF Present, MayRunOn
<1>11. InOrder(said[u], Messages(Transcript(u))) => InOrder(said[u], Messages(Transcript(u)))'
  BY <1>6 DEF InOrder
<1> QED BY <1>3, <1>4, <1>7, <1>8, <1>9, <1>10, <1>11 DEF KeptOf, Undamaged

LEMMA NumberTyped ==
  ASSUME StoreTyped, SaidTyped, NEW u \in Users
  PROVE  /\ \A m \in ToSet(said[u]) \cup ToSet(LinesOf(Old(u))) \cup ToSet(copy[u]) : m.turn \in Nat
         /\ \A f : \A i \in DOMAIN LinesOf(f) : LinesOf(f)[i] \in Lines /\ LinesOf(f)[i].turn \in Nat
         /\ \A m \in ToSet(said[u]) : m \in Entries
<1>1. said[u] \in Seq(Entries) /\ copy[u] \in Seq(Lines) /\ \A f : LinesOf(f) \in Seq(Lines)
  BY LinesTyped DEF StoreTyped, SaidTyped
<1>2. /\ \A s \in Seq(Lines) : \A i \in DOMAIN s : s[i] \in Lines
      /\ \A s \in Seq(Entries) : \A i \in DOMAIN s : s[i] \in Entries
  OBVIOUS
<1>3. \A m \in ToSet(said[u]) : m \in Entries BY <1>1, <1>2, InSet
<1>4. \A m \in ToSet(LinesOf(Old(u))) \cup ToSet(copy[u]) : m \in Lines BY <1>1, <1>2, InSet
<1> QED BY <1>1, <1>2, <1>3, <1>4, FieldsTyped

\* What a transcript owes to what was said depends on nothing else.
LEMMA StaysUndamaged ==
  ASSUME NEW u \in Users, Undamaged(u), Migrating(u)', Transcript(u)' = Transcript(u),
         said'[u] = said[u], cut'[u] = cut[u], pc'[u] # "assistant"
  PROVE  Undamaged(u)'
<1>1. Messages(Transcript(u))' = Messages(Transcript(u)) /\ CutOff(Transcript(u))' = CutOff(Transcript(u))
      /\ Last(Transcript(u))' = Last(Transcript(u))
  BY DEF Messages, Message, CutOff, Last
<1>2. LastCut(u)' BY <1>1 DEF Undamaged, LastCut, SaidBefore
<1>3. Present(u)' BY <1>1 DEF Undamaged, Present, MayRunOn
<1>4. InOrder(said[u], Messages(Transcript(u)))' BY <1>1 DEF Undamaged, InOrder
<1> QED BY <1>2, <1>3, <1>4 DEF Undamaged, Swallowed

\* A step that leaves the files, the copy and what was said alone.
LEMMA KeptHere ==
  ASSUME StoreTyped, SaidTyped, NEW u \in Users, KeptOf(u), SameFiles(u), copy'[u] = copy[u], said'[u] = said[u],
         cut'[u] = cut[u], turn'[u] \in Nat, turn'[u] >= turn[u],
         pc'[u] \in Working => turn'[u] > turn[u] \/ pc[u] \in Working \ {"assistant"},
         pc'[u] # "clear", pc'[u] = "thinking" => seen'[u] = Messages(Loaded(u)) /\ long'[u] = long[u],
         ~damaged'[u] => pc[u] # "copy" /\ ~damaged[u] /\ pc'[u] \in {"idle", "thinking"}
  PROVE  KeptOf(u)'
<1>1. /\ LinesOf(New(u))' = LinesOf(New(u)) /\ LinesOf(Old(u))' = LinesOf(Old(u))
      /\ Source(u)' = Source(u)
  BY DEF SameFiles, Source, New, Old
<1>2. LinesOf(Source(u))' = LinesOf(Source(u)) BY <1>1 DEF Source, New, Old
<1>3. pc'[u] = "thinking" => Messages(Loaded(u))' = Messages(Loaded(u))
  BY <1>1, <1>2 DEF Loaded, Unreadable, Messages, Message, New
<1>4. Numbered(u)'
  <2>1. turn[u] \in Nat BY DEF StoreTyped
  <2>2. ASSUME NEW m \in ToSet(said[u]) \cup ToSet(LinesOf(Old(u))) \cup ToSet(copy[u])
        PROVE  m.turn <= turn'[u] /\ (pc'[u] \in Working => m.turn < turn'[u])
    <3>1. m.turn \in Nat BY NumberTyped
    <3>2. m.turn <= turn[u] /\ (pc[u] \in Working => m.turn < turn[u]) BY DEF KeptOf, Numbered
    <3> QED BY <2>1, <3>1, <3>2
  <2>3. ASSUME NEW i \in DOMAIN LinesOf(New(u))
        PROVE  /\ LinesOf(New(u))[i].turn <= turn'[u]
               /\ pc'[u] \in Working => LinesOf(New(u))[i].turn < turn'[u]
    <3>1. LinesOf(New(u))[i].turn \in Nat BY NumberTyped
    <3>2. /\ LinesOf(New(u))[i].turn <= turn[u]
          /\ pc[u] \in Working \ {"assistant"} => LinesOf(New(u))[i].turn < turn[u]
      BY DEF KeptOf, Numbered
    <3> QED BY <2>1, <3>1, <3>2
  <2> QED BY <1>1, <2>2, <2>3 DEF Numbered
<1>5. ~damaged'[u] => Undamaged(u)'
  <2> SUFFICES ASSUME ~damaged'[u] PROVE Undamaged(u)'
    OBVIOUS
  <2>1. Undamaged(u) BY DEF KeptOf
  <2>2. Transcript(u)' = Transcript(u) BY <1>2 DEF Transcript
  <2>3. Migrating(u)' BY DEF Migrating
  <2> QED BY <2>1, <2>2, <2>3, StaysUndamaged
<1>6. ~CutOff(LinesOf(Old(u)))' BY <1>1 DEF KeptOf, CutOff
<1> QED BY <1>3, <1>4, <1>5, <1>6 DEF KeptOf

\* A step of a session's own that leaves its files alone.
LEMMA KeptQuietStep ==
  ASSUME StoreInv, SaidTyped, NEW u \in Users, KeptOf(u),
         Load(u) \/ TurnEndsSilently(u) \/ ClearFails(u)
  PROVE  KeptOf(u)'
<1>1. /\ UNCHANGED <<copy, said, cut, long, damaged>> /\ disk' = disk
      /\ turn'[u] = turn[u] \/ turn'[u] = turn[u] + 1
      /\ pc'[u] \in Working => turn'[u] = turn[u] + 1
      /\ pc'[u] \in {"idle", "thinking"} /\ pc[u] # "copy"
      /\ pc'[u] = "thinking" => seen'[u] = Messages(Loaded(u))
  BY DEF StoreInv, StoreTyped, SaidTyped, Goto, Working, Load, TurnEndsSilently, ClearFails
<1>2. turn[u] \in Nat /\ StoreTyped BY DEF StoreInv, StoreTyped
<1>3. SameFiles(u) BY <1>1, Apart
<1>4. turn'[u] \in Nat /\ turn'[u] >= turn[u] BY <1>1, <1>2
<1>5. pc'[u] \in Working => turn'[u] > turn[u] BY <1>1, <1>2
<1> QED BY <1>1, <1>2, <1>3, <1>4, <1>5, KeptHere

\* One that moves or removes them.
LEMMA KeptOwnStep ==
  ASSUME StoreInv, SaidTyped, NEW u \in Users, KeptOf(u),
         \/ AppendStarts(u) \/ CopyCreates(u) \/ CopyWrites(u) \/ CopyFails(u) \/ RemoveOld(u) \/ Clear(u) \/ ClearOld(u)
  PROVE  KeptOf(u)'
<1> USE DEF Goto, StoreInv, StoreTyped, StorePCs, SaidTyped
<1>0. /\ disk' = disk => SameFiles(u)
      /\ turn[u] \in Nat
      /\ damaged[u] \in BOOLEAN
      /\ ~CutOff(LinesOf(Old(u))) /\ Numbered(u) /\ (~damaged[u] => Undamaged(u))
  BY Apart DEF KeptOf
<1>1. CASE AppendStarts(u)
  <2>1. /\ pc[u] = "thinking" /\ pc'[u] = (IF MustMigrate(u) THEN "create" ELSE "user")
        /\ copy'[u] = LinesOf(Old(u)) /\ UNCHANGED <<turn, disk, said, cleared, damaged, cut, long>>
    BY <1>1 DEF AppendStarts
  <2>2. /\ \A f : LinesOf(f)' = LinesOf(f)
        /\ MustMigrate(u)' = MustMigrate(u) /\ Source(u)' = Source(u)
        /\ (New(u) \in DOMAIN disk)' = (New(u) \in DOMAIN disk)
    BY <2>1 DEF LinesOf, MustMigrate, Source, New, Old
  <2>3. Numbered(u)' BY <1>0, <2>1, <2>2 DEF Numbered, Working
  <2>4. Transcript(u)' = Transcript(u) BY <2>1, <2>2 DEF Transcript, Source, New, Old
  <2>5. Migrating(u)' BY <2>1, <2>2 DEF Migrating, New, Old
  <2>6. ~damaged[u] => Undamaged(u)' BY <1>0, <2>1, <2>4, <2>5, StaysUndamaged
  <2>7. ~CutOff(LinesOf(Old(u)))' BY <1>0, <2>2 DEF CutOff, Old
  <2> QED BY <2>1, <2>3, <2>6, <2>7 DEF KeptOf
<1>2. CASE CopyCreates(u) \/ CopyWrites(u)
  <2>1. /\ UNCHANGED <<turn, copy, seen, said, cleared, damaged, cut, long>>
        /\ \/ pc[u] = "create" /\ pc'[u] = "copy" /\ disk' = Put(New(u), <<>>)
           \/ pc[u] = "copy" /\ pc'[u] = "remove" /\ disk' = Put(New(u), copy[u])
    BY <1>2 DEF CopyCreates, CopyWrites
  <2>2. /\ LinesOf(New(u))' = IF pc[u] = "create" THEN <<>> ELSE copy[u]
        /\ LinesOf(Old(u))' = LinesOf(Old(u)) /\ (New(u) \in DOMAIN disk)'
    BY <2>1, Apart DEF LinesOf, Put, New, Old
  <2>3. Numbered(u)'
    <3>1. \A i \in DOMAIN LinesOf(New(u))' : LinesOf(New(u))'[i] \in ToSet(copy[u])
      BY <2>1, <2>2 DEF ToSet
    <3> QED BY <1>0, <2>1, <2>2, <3>1 DEF Numbered, Working
  <2>4. ~damaged[u] => Transcript(u) = copy[u]
    BY <1>0, <2>1, Apart DEF Undamaged, Migrating, Transcript, MustMigrate, Source
  <2>5. Source(u)' = New(u) BY <2>2 DEF Source, New, Old
  <2>6. Transcript(u)' = copy[u]
    BY <2>1, <2>2, <2>5 DEF Transcript, New, Old
  <2>7. Migrating(u)' BY <2>1, <2>2 DEF Migrating
  <2>8. ~damaged[u] => Undamaged(u)' BY <1>0, <2>1, <2>4, <2>6, <2>7, StaysUndamaged
  <2>9. ~CutOff(LinesOf(Old(u)))' BY <1>0, <2>2 DEF CutOff
  <2> QED BY <2>1, <2>3, <2>8, <2>9 DEF KeptOf
<1>3. CASE RemoveOld(u) \/ ClearOld(u)
  <2>1. /\ UNCHANGED <<turn, copy, seen, said, cleared, damaged, cut, long>>
        /\ disk' = Without(Old(u)) \/ disk' = disk
        /\ \/ pc[u] = "remove" /\ pc'[u] = "user"
           \/ pc[u] = "clear" /\ pc'[u] = "idle"
    BY <1>3 DEF RemoveOld, ClearOld
  <2>2. /\ LinesOf(New(u))' = LinesOf(New(u)) /\ (New(u) \in DOMAIN disk)' = (New(u) \in DOMAIN disk)
        /\ LinesOf(Old(u))' \in {LinesOf(Old(u)), <<>>}
    BY <2>1, Apart DEF LinesOf, Without, Restrict, New, Old
  <2>3. Numbered(u)'
    <3>1. ToSet(LinesOf(Old(u))') \subseteq ToSet(LinesOf(Old(u))) BY <2>2 DEF ToSet
    <3> QED BY <1>0, <2>1, <2>2, <3>1 DEF Numbered, Working
  <2>4. ~CutOff(LinesOf(Old(u)))' BY <1>0, <2>2 DEF CutOff
  <2>5. CASE pc[u] = "remove" /\ ~damaged[u]
    <3>1. New(u) \in DOMAIN disk /\ (New(u) \in DOMAIN disk)'
      BY <1>0, <2>2, <2>5 DEF Undamaged, Migrating
    <3>2. Source(u) = New(u) /\ Source(u)' = New(u) BY <3>1 DEF Source, New, Old
    <3>3. Transcript(u)' = Transcript(u) BY <2>1, <2>2, <2>5, <3>2 DEF Transcript, New
    <3>4. Migrating(u)' BY <2>1, <2>5, <3>1 DEF Migrating, MustMigrate, New, Old
    <3>5. Undamaged(u)' BY <1>0, <2>1, <2>5, <3>3, <3>4, StaysUndamaged
    <3> QED BY <2>1, <2>3, <2>4, <2>5, <3>5 DEF KeptOf
  <2>6. CASE pc[u] = "clear"
    <3>1. said'[u] = <<>> BY <2>1, <2>6 DEF KeptOf
    <3>2. \A m : m \notin ToSet(said'[u]) BY <3>1, InSet
    <3>3. InOrder(said[u], Messages(Transcript(u)))' BY <3>2 DEF InOrder
    <3>4. Present(u)' /\ Swallowed(u)' /\ Migrating(u)' BY <2>1, <2>6, <3>2 DEF Present, Swallowed, Migrating
    <3>5. ~damaged[u] => LastCut(u)'
      <4>1. CASE Source(u) = Old(u)
        <5>1. Source(u)' = Old(u) BY <2>2, <4>1, Apart DEF Source, New, Old
        <5>2. Transcript(u)' = LinesOf(Old(u))' BY <2>1, <2>6, <5>1 DEF Transcript, Old
        <5> QED BY <2>4, <5>2 DEF LastCut, CutOff
      <4>2. CASE Source(u) = New(u)
        <5>1. Source(u)' = New(u) BY <2>2, <4>2, Apart DEF Source, New, Old
        <5>2. Transcript(u)' = Transcript(u) BY <2>1, <2>2, <2>6, <4>2, <5>1 DEF Transcript, New
        <5> QED BY <1>0, <2>1, <5>2 DEF Undamaged, LastCut, CutOff, Last, SaidBefore
      <4> QED BY <4>1, <4>2 DEF Source
    <3> QED BY <2>1, <2>3, <2>4, <2>6, <3>1, <3>3, <3>4, <3>5 DEF KeptOf, Undamaged
  <2>7. CASE pc[u] = "remove" /\ damaged[u]
    BY <2>1, <2>3, <2>4, <2>7 DEF KeptOf
  <2> QED BY <2>1, <2>5, <2>6, <2>7
<1>4. CASE Clear(u)
  <2>1. /\ UNCHANGED <<copy, seen>> /\ turn'[u] = turn[u] + 1 /\ said'[u] = <<>>
        /\ pc'[u] \in {"clear", "idle"} /\ disk' = Without(New(u)) /\ pc[u] = "idle"
    BY <1>4 DEF Clear, Cleared
  <2>2. LinesOf(New(u))' = <<>> /\ LinesOf(Old(u))' = LinesOf(Old(u))
    BY <2>1, Apart DEF LinesOf, Without, Restrict, New, Old
  <2>3. \A m : m \notin ToSet(said'[u]) BY <2>1, InSet
  <2>4. Numbered(u)'
    <3>1. ASSUME NEW m \in ToSet(LinesOf(Old(u))) \cup ToSet(copy[u]) PROVE m.turn <= turn'[u]
      BY <1>0, <2>1, NumberTyped DEF Numbered
    <3> QED BY <2>1, <2>2, <2>3, <3>1 DEF Numbered, Working
  <2>5. ~CutOff(LinesOf(Old(u)))' /\ ~CutOff(LinesOf(New(u)))' BY <1>0, <2>2 DEF CutOff
  <2>6. LastCut(u)'
    <3>1. Transcript(u)' \in {LinesOf(Old(u))', LinesOf(New(u))'} BY <2>1 DEF Transcript, Source, New, Old
    <3> QED BY <2>5, <3>1 DEF LastCut, CutOff
  <2>7. InOrder(said[u], Messages(Transcript(u)))' BY <2>3 DEF InOrder
  <2>8. Present(u)' /\ Swallowed(u)' /\ Migrating(u)' BY <2>1, <2>3 DEF Present, Swallowed, Migrating
  <2> QED BY <2>1, <2>4, <2>5, <2>6, <2>7, <2>8 DEF KeptOf, Undamaged
<1>5. CASE CopyFails(u)
  <2>1. /\ UNCHANGED <<turn, copy, seen, said, cut, long>> /\ damaged'[u]
        /\ pc[u] \in {"create", "copy"} /\ pc'[u] = "remove"
        /\ disk' = disk \/ \E lines \in CutOffs(copy[u]) : disk' = Put(New(u), lines)
    BY <1>5 DEF CopyFails
  <2>2. LinesOf(Old(u))' = LinesOf(Old(u)) BY <2>1, Apart DEF LinesOf, Put, New, Old
  <2>3. \A i \in DOMAIN LinesOf(New(u))' : LinesOf(New(u))'[i].turn < turn[u]
    <3>1. CASE disk' = disk
      <4>1. LinesOf(New(u))' = LinesOf(New(u)) BY <3>1 DEF LinesOf
      <4> QED BY <1>0, <2>1, <4>1 DEF Numbered, Working
    <3>2. ASSUME NEW lines \in CutOffs(copy[u]), disk' = Put(New(u), lines)
          PROVE  \A i \in DOMAIN LinesOf(New(u))' : LinesOf(New(u))'[i].turn < turn[u]
      <4>1. LinesOf(New(u))' = lines BY <3>2 DEF LinesOf, Put, New
      <4>2. copy[u] \in Seq(Lines) OBVIOUS
      <4>3. DOMAIN lines \subseteq DOMAIN copy[u] /\ \A i \in DOMAIN lines : lines[i].turn = copy[u][i].turn
        BY <4>2, CutOffLines
      <4>4. \A i \in DOMAIN copy[u] : copy[u][i] \in ToSet(copy[u]) BY DEF ToSet
      <4>5. \A m \in ToSet(copy[u]) : m.turn < turn[u] BY <1>0, <2>1 DEF Numbered, Working
      <4> QED BY <4>1, <4>3, <4>4, <4>5
    <3> QED BY <2>1, <3>1, <3>2
  <2>4. \A i \in DOMAIN LinesOf(New(u))' : LinesOf(New(u))'[i].turn <= turn[u]
    <3>1. StoreTyped' BY TypedStep DEF Next, AppendExchange
    <3>2. \A i \in DOMAIN LinesOf(New(u))' : LinesOf(New(u))'[i].turn \in Nat
      <4>1. LinesOf(New(u))' \in Seq(Lines) BY <3>1 DEF LinesOf
      <4>2. \A q \in Seq(Lines) : \A i \in DOMAIN q : q[i] \in Lines OBVIOUS
      <4> QED BY <4>1, <4>2, FieldsTyped
    <3> QED BY <1>0, <2>3, <3>2
  <2>5. Numbered(u)' BY <1>0, <2>1, <2>2, <2>3, <2>4 DEF Numbered, Working
  <2>6. ~CutOff(LinesOf(Old(u)))' BY <1>0, <2>2 DEF CutOff
  <2> QED BY <2>1, <2>5, <2>6 DEF KeptOf
<1> QED BY <1>1, <1>2, <1>3, <1>4, <1>5

\* Where nothing is left to migrate, a turn writes to the file that Load reads.
LEMMA WrittenIsRead ==
  ASSUME NEW u \in Users, pc[u] # "copy", pc'[u] # "copy", ~MustMigrate(u),
         NEW s, disk' = Put(New(u), s)
  PROVE  Transcript(u) = LinesOf(New(u)) /\ Transcript(u)' = s /\ ~MustMigrate(u)'
<1>1. New(u) # Old(u) BY Apart
<1>2. LinesOf(Source(u)) = LinesOf(New(u)) BY DEF MustMigrate, Source, LinesOf
<1>3. LinesOf(New(u))' = s /\ (New(u) \in DOMAIN disk)'
  BY <1>1 DEF LinesOf, Put, New, Old
<1>4. Source(u)' = New(u) /\ ~MustMigrate(u)' BY <1>3 DEF Source, MustMigrate, New, Old
<1>5. LinesOf(Source(u))' = LinesOf(New(u))' BY <1>4 DEF New
<1> QED BY <1>2, <1>3, <1>4, <1>5 DEF Transcript

LEMMA WrittenNumbers ==
  ASSUME StoreInv, SaidTyped, NEW u \in Users, KeptOf(u), Encodes(u),
         said'[u] = said[u] \/ (pc'[u] = "idle" /\ \A m \in ToSet(said'[u]) : m.turn <= turn[u])
  PROVE  Numbered(u)' /\ ~CutOff(LinesOf(Old(u)))'
<1> DEFINE s == LinesOf(New(u))
<1>0. StoreTyped /\ turn[u] \in Nat /\ s \in Seq(Lines) BY LinesTyped DEF StoreInv, StoreTyped
<1>1. /\ UNCHANGED <<turn, copy>> /\ pc[u] \in {"user", "assistant"}
      /\ pc'[u] = IF EncodeUser(u) THEN "assistant" ELSE "idle"
      /\ \/ disk' \in {disk, Put(New(u), s)}
         \/ \E line \in Lines : line.turn = turn[u] /\ disk' = Put(New(u), RunOn(s, line))
  BY <1>0, EncodesALine DEF Extend, StoreTyped
<1>2. pc'[u] # "idle" => pc[u] = "user" BY <1>1 DEF EncodeUser, Goto
<1>3. LinesOf(Old(u))' = LinesOf(Old(u))
  BY <1>1, Apart DEF LinesOf, Put, New, Old
<1>4. \A i \in DOMAIN s : s[i].turn <= turn[u] /\ (pc[u] = "user" => s[i].turn < turn[u])
  BY <1>1 DEF KeptOf, Numbered, Working
<1>5. \A i \in DOMAIN s' : /\ s'[i].turn <= turn[u]
                           /\ pc[u] = "user" => s'[i].turn < turn[u] \/ i = Len(s')
  <2>1. CASE disk' \in {disk, Put(New(u), s)}
    <3>1. s' = s BY <2>1 DEF LinesOf, Put
    <3> QED BY <1>4, <3>1
  <2>2. ASSUME NEW line \in Lines, line.turn = turn[u], disk' = Put(New(u), RunOn(s, line))
        PROVE  \A i \in DOMAIN s' : /\ s'[i].turn <= turn[u]
                                    /\ pc[u] = "user" => s'[i].turn < turn[u] \/ i = Len(s')
    <3>1. s' = RunOn(s, line) BY <2>2 DEF LinesOf, Put
    <3> HIDE DEF s
    <3>2. /\ Len(s) \in Nat /\ Len(RunOn(s, line)) = Len(s) + 1
          /\ DOMAIN s = 1..Len(s) /\ DOMAIN RunOn(s, line) = 1..(Len(s) + 1)
          /\ RunOn(s, line)[Len(s) + 1].turn = turn[u]
          /\ \A i \in DOMAIN s : RunOn(s, line)[i].turn = s[i].turn
      BY <1>0, <2>2, RunOnLines
    <3>3. \A i \in DOMAIN RunOn(s, line) : i \in DOMAIN s \/ i = Len(s) + 1 BY <3>2
    <3> QED BY <1>0, <1>4, <3>1, <3>2, <3>3
  <2> QED BY <1>1, <2>1, <2>2
<1>6. \A m \in ToSet(LinesOf(Old(u))) \cup ToSet(copy[u]) : m.turn <= turn[u] /\ m.turn < turn[u]
  BY <1>1 DEF KeptOf, Numbered, Working
<1>7. \A m \in ToSet(said'[u]) : m.turn <= turn[u] /\ (pc'[u] # "idle" => m.turn < turn[u])
  BY <1>1 DEF KeptOf, Numbered, Working
<1>8. Numbered(u)' BY <1>1, <1>2, <1>3, <1>5, <1>6, <1>7 DEF Numbered, Working
<1> QED BY <1>3, <1>8 DEF KeptOf, CutOff

\* A line of the turn that is written is no threat to what was said before.
LEMMA WrittenKeeps ==
  ASSUME StoreInv, SaidTyped, NEW u \in Users, KeptOf(u), ~damaged[u], pc[u] \in {"user", "assistant"},
         pc'[u] \in {"assistant", "idle"}, NEW line \in Lines, line.turn = turn[u],
         disk' = Extend(New(u), line)
  PROVE  /\ Transcript(u) = LinesOf(New(u)) /\ Transcript(u)' = RunOn(LinesOf(New(u)), line) /\ Migrating(u)'
         /\ InOrder(said[u], Messages(Transcript(u))')
         /\ \A m \in ToSet(said[u]) : m \in ToSet(Messages(Transcript(u))') \/ MayRunOn(u, m)
         /\ SaidBefore(u, turn[u])
         /\ CutOff(LinesOf(New(u))) =>
              Last(LinesOf(New(u))).turn \in cut[u] /\ SaidBefore(u, Last(LinesOf(New(u))).turn)
<1> DEFINE s == LinesOf(New(u))
<1>0. StoreTyped /\ s \in Seq(Lines) /\ said[u] \in Seq(Entries)
  BY LinesTyped DEF StoreInv, SaidTyped
<1>1. Undamaged(u) BY DEF KeptOf
<1>2. Transcript(u) = s /\ Transcript(u)' = RunOn(s, line) /\ ~MustMigrate(u)'
  BY <1>1, WrittenIsRead DEF Undamaged, Migrating, Extend
<1>3. Migrating(u)' BY <1>2 DEF Migrating
<1>4. SaidBefore(u, turn[u]) BY DEF KeptOf, Numbered, Working, SaidBefore
<1>5. CutOff(s) => Last(s).turn \in cut[u] /\ SaidBefore(u, Last(s).turn) BY <1>1, <1>2 DEF Undamaged, LastCut
<1> HIDE DEF s
<1>6. Messages(Transcript(u)) = Messages(s) /\ Messages(Transcript(u))' = Messages(RunOn(s, line))
  BY <1>2 DEF Messages, Message
<1>7. InOrder(said[u], Messages(s)) BY <1>1, <1>6 DEF Undamaged
<1>8. \A m \in ToSet(said[u]) : m.turn < line.turn /\ (CutOff(s) => m.turn < Last(s).turn)
  BY <1>4, <1>5 DEF SaidBefore
<1>9. /\ InOrder(said[u], Messages(RunOn(s, line)))
      /\ ToSet(said[u]) \cap ToSet(Messages(s)) \subseteq ToSet(Messages(RunOn(s, line)))
  BY <1>0, <1>7, <1>8, RanOn
<1>10. \A m \in ToSet(said[u]) : m \in ToSet(Messages(s)) \/ MayRunOn(u, m) BY <1>1, <1>6 DEF Undamaged, Present
<1> QED BY <1>2, <1>3, <1>4, <1>5, <1>6, <1>9, <1>10 DEF s

LEMMA KeptQuestion ==
  ASSUME StoreInv, SaidTyped, NEW u \in Users, KeptOf(u), EncodeUser(u)
  PROVE  KeptOf(u)'
<1> DEFINE s == LinesOf(New(u))
           line == Line(u, "user", TRUE)
           t == RunOn(s, line)
<1>0. StoreTyped /\ turn[u] \in Nat /\ s \in Seq(Lines) BY LinesTyped DEF StoreInv, StoreTyped
<1>1. disk' = Extend(New(u), line) /\ UNCHANGED <<turn, copy, seen, said, cleared, damaged, cut>>
  BY DEF EncodeUser, Write
<1>2. line \in Lines /\ line.turn = turn[u] /\ line.role = "user" /\ line.ended
  BY <1>0, LineTyped DEF Roles
<1>3. pc[u] = "user" /\ pc'[u] = "assistant" BY DEF EncodeUser, Goto, StoreInv, StoreTyped
<1>4. Numbered(u)' /\ ~CutOff(LinesOf(Old(u)))' BY <1>1, WrittenNumbers DEF Encodes
<1>5. ASSUME ~damaged[u] PROVE Undamaged(u)'
  <2> HIDE DEF line
  <2>1. /\ Transcript(u) = s /\ Transcript(u)' = t /\ Migrating(u)'
        /\ InOrder(said[u], Messages(Transcript(u))')
        /\ \A m \in ToSet(said[u]) : m \in ToSet(Messages(Transcript(u))') \/ MayRunOn(u, m)
        /\ CutOff(s) => Last(s).turn \in cut[u] /\ SaidBefore(u, Last(s).turn)
    BY <1>1, <1>2, <1>3, <1>5, WrittenKeeps
  <2>2. InOrder(said[u], Messages(Transcript(u)))' /\ Present(u)'
    BY <1>1, <2>1 DEF InOrder, Present, MayRunOn
  <2>3. LinesOf(New(u))' = t BY <1>1 DEF LinesOf, Put, Extend
  <2>4. \A i \in DOMAIN s : s[i].turn < turn[u] BY <1>3 DEF KeptOf, Numbered, Working
  <2>5. \A q \in Seq(Lines) : q # <<>> => Len(q) \in DOMAIN q OBVIOUS
  <2>6. CutOff(s) => Len(s) \in DOMAIN s /\ Last(s) = s[Len(s)] BY <1>0, <2>5 DEF CutOff, Last
  <2> HIDE DEF s
  <2>7. /\ Len(s) \in Nat /\ Len(t) = Len(s) + 1 /\ t[Len(s) + 1].ended = line.ended
        /\ t[Len(s) + 1].role = IF CutOff(s) THEN "none" ELSE line.role
    BY <1>0, <1>2, RunOnLines
  <2> HIDE DEF t
  <2>8. LastCut(u)' BY <1>2, <2>1, <2>7 DEF LastCut, CutOff, Last
  <2>9. Swallowed(u)'
    <3> SUFFICES ASSUME t[Len(t)].role # "user"
                 PROVE  \E c \in cut[u] : c < turn[u] /\ SaidBefore(u, c)
      BY <1>1, <2>3 DEF Swallowed, SaidBefore
    <3>1. CutOff(s) BY <1>2, <2>7
    <3> QED BY <2>1, <2>4, <2>6, <3>1
  <2> QED BY <2>1, <2>2, <2>8, <2>9 DEF Undamaged
<1> QED BY <1>1, <1>3, <1>4, <1>5 DEF KeptOf

LEMMA KeptFailure ==
  ASSUME StoreInv, SaidTyped, NEW u \in Users, KeptOf(u), EncodeFails(u)
  PROVE  KeptOf(u)'
<1> DEFINE s == LinesOf(New(u))
<1>0. StoreTyped /\ turn[u] \in Nat /\ s \in Seq(Lines) BY LinesTyped DEF StoreInv, StoreTyped
<1>1. PICK role \in {"user", "assistant"} :
        /\ pc[u] = role /\ pc' = [pc EXCEPT ![u] = "idle"]
        /\ \/ disk' \in {disk, Put(New(u), s)} /\ UNCHANGED <<cut, long>>
           \/ /\ \E read \in {role, "none"} : Write(u, Line(u, read, FALSE))
              /\ cut' = [cut EXCEPT ![u] = @ \cup {turn[u]}]
  BY DEF EncodeFails, Goto
<1>2. UNCHANGED <<turn, copy, seen, said, cleared, damaged>> /\ pc'[u] = "idle"
  BY <1>0, <1>1 DEF EncodeFails, StoreTyped
<1>3. Numbered(u)' /\ ~CutOff(LinesOf(Old(u)))' BY <1>2, WrittenNumbers DEF Encodes
<1>4. ASSUME ~damaged[u] PROVE Undamaged(u)'
  <2>1. Undamaged(u) BY <1>4 DEF KeptOf
  <2>2. CASE disk' \in {disk, Put(New(u), s)} /\ UNCHANGED <<cut, long>>
    <3>1. ~MustMigrate(u) BY <1>1, <2>1 DEF Undamaged, Migrating
    <3>2. Migrating(u)' BY <1>2 DEF Migrating
    <3>3. CASE disk' = disk
      <4>1. Transcript(u)' = Transcript(u) BY <1>1, <1>2, <3>3 DEF Transcript, LinesOf, Source, New, Old
      <4> QED BY <1>2, <2>1, <2>2, <3>2, <4>1, StaysUndamaged
    <3>4. CASE disk' = Put(New(u), s)
      <4>1. Transcript(u)' = Transcript(u) BY <1>1, <1>2, <3>1, <3>4, WrittenIsRead
      <4> QED BY <1>2, <2>1, <2>2, <3>2, <4>1, StaysUndamaged
    <3> QED BY <2>2, <3>3, <3>4
  <2>3. CASE /\ \E read \in {role, "none"} : Write(u, Line(u, read, FALSE))
             /\ cut' = [cut EXCEPT ![u] = @ \cup {turn[u]}]
    <3>1. PICK read \in {role, "none"} : disk' = Extend(New(u), Line(u, read, FALSE)) BY <2>3 DEF Write
    <3> DEFINE line == Line(u, read, FALSE)
               t == RunOn(s, line)
    <3>2. line \in Lines /\ line.turn = turn[u] /\ ~line.ended BY <1>0, LineTyped DEF Roles
    <3>3. cut'[u] = cut[u] \cup {turn[u]} BY <1>0, <2>3 DEF StoreTyped
    <3> HIDE DEF line
    <3>4. disk' = Extend(New(u), line) BY <3>1 DEF line
    <3>5. /\ Transcript(u)' = t /\ Migrating(u)'
          /\ InOrder(said[u], Messages(Transcript(u))')
          /\ \A m \in ToSet(said[u]) : m \in ToSet(Messages(Transcript(u))') \/ MayRunOn(u, m)
          /\ SaidBefore(u, turn[u])
      BY <1>1, <1>2, <1>4, <3>2, <3>4, WrittenKeeps
    <3>6. InOrder(said[u], Messages(Transcript(u)))' BY <1>2, <3>5 DEF InOrder
    <3>7. Present(u)' BY <1>2, <3>3, <3>5 DEF Present, MayRunOn
    <3> HIDE DEF s
    <3>8. /\ Len(s) \in Nat /\ Len(t) = Len(s) + 1 /\ t[Len(s) + 1].turn = turn[u]
      BY <1>0, <3>2, RunOnLines
    <3> HIDE DEF t
    <3>9. LastCut(u)' BY <1>2, <3>3, <3>5, <3>8 DEF LastCut, Last, SaidBefore
    <3>10. Swallowed(u)' BY <1>2 DEF Swallowed
    <3> QED BY <3>5, <3>6, <3>7, <3>9, <3>10 DEF Undamaged
  <2> QED BY <1>1, <2>2, <2>3
<1> QED BY <1>2, <1>3, <1>4 DEF KeptOf

LEMMA AppendTwice ==
  ASSUME NEW S, NEW s \in Seq(S), NEW x \in S, NEW y \in S
  PROVE  Append(s, x) \in Seq(S) /\ s \o <<x, y>> = Append(Append(s, x), y)
<1> DEFINE l == s \o <<x, y>>
           r == Append(Append(s, x), y)
<1>1. Append(s, x) \in Seq(S) /\ l \in Seq(S) /\ r \in Seq(S)
  OBVIOUS
<1>2. Len(l) = Len(s) + 2 /\ Len(r) = Len(s) + 2 /\ Len(s) \in Nat
  OBVIOUS
<1>3. \A i \in 1..(Len(s) + 2) : l[i] = r[i]
  OBVIOUS
<1> HIDE DEF l, r
<1>4. l = r BY <1>1, <1>2, <1>3
<1> QED BY <1>1, <1>4 DEF l, r

\* The answer is the only message of its turn but the question before it.
LEMMA KeptAnswer ==
  ASSUME StoreInv, SaidTyped, NEW u \in Users, KeptOf(u), EncodeAssistant(u)
  PROVE  KeptOf(u)'
<1> DEFINE s == LinesOf(New(u))
           line == Line(u, "assistant", TRUE)
           t == RunOn(s, line)
           q == [turn |-> turn[u], role |-> "user"]
           a == [turn |-> turn[u], role |-> "assistant"]
<1>0. StoreTyped /\ turn[u] \in Nat /\ s \in Seq(Lines) /\ said[u] \in Seq(Entries)
  BY LinesTyped DEF StoreInv, StoreTyped, SaidTyped
<1>1. /\ disk' = Extend(New(u), line) /\ UNCHANGED <<turn, copy, seen, cleared, damaged, cut>>
      /\ said'[u] = said[u] \o <<q, a>>
  BY DEF EncodeAssistant, Write, SaidTyped
<1>2. line \in Lines /\ line.turn = turn[u] /\ line.role = "assistant" /\ line.ended
  BY <1>0, LineTyped DEF Roles
<1>3. pc[u] = "assistant" /\ pc'[u] = "idle" BY DEF EncodeAssistant, Goto, StoreInv, StoreTyped
<1>4. q \in Entries /\ a \in Entries /\ q # a /\ q.turn = turn[u] /\ a.turn = turn[u] /\ a.role = "assistant"
      /\ q.role = "user"
  BY <1>0 DEF Entries
<1>5. Asked(s, Len(s) + 1, turn[u]) /\ s[Len(s)].ended BY <1>3 DEF StoreInv, Exchanged
<1>6. /\ \A m \in ToSet(said[u]) : m.turn < turn[u]
      /\ \A i \in DOMAIN s : s[i].turn < turn[u] \/ i = Len(s)
  BY <1>3 DEF KeptOf, Numbered, Working
<1>7. /\ Append(said[u], q) \in Seq(Entries) /\ said'[u] = Append(Append(said[u], q), a)
      /\ ToSet(Append(said[u], q)) = ToSet(said[u]) \cup {q}
      /\ ToSet(said'[u]) = ToSet(said[u]) \cup {q, a}
  <2>1. q \in Entries /\ a \in Entries BY <1>4
  <2> HIDE DEF q, a
  <2>4. Append(said[u], q) \in Seq(Entries) /\ said[u] \o <<q, a>> = Append(Append(said[u], q), a)
    BY <1>0, <2>1, AppendTwice
  <2>2. ToSet(Append(said[u], q)) = ToSet(said[u]) \cup {q} BY <1>0, <1>4, InSet
  <2>3. ToSet(Append(Append(said[u], q), a)) = ToSet(Append(said[u], q)) \cup {a} BY <2>1, <2>4, InSet
  <2> QED BY <1>1, <2>4, <2>2, <2>3
<1>8. Numbered(u)' /\ ~CutOff(LinesOf(Old(u)))'
  <2>1. \A m \in ToSet(said[u]) : m.turn <= turn[u] BY DEF KeptOf, Numbered
  <2>2. \A m \in ToSet(said'[u]) : m.turn <= turn[u] BY <1>0, <1>4, <1>7, <2>1
  <2> QED BY <1>3, <2>2, WrittenNumbers DEF Encodes
<1> HIDE DEF line, q, a
<1>9. ASSUME ~damaged[u] PROVE Undamaged(u)'
  <2>1. /\ Transcript(u) = s /\ Transcript(u)' = t /\ Migrating(u)'
        /\ \A m \in ToSet(said[u]) : m \in ToSet(Messages(Transcript(u))') \/ MayRunOn(u, m)
    BY <1>1, <1>2, <1>3, <1>9, WrittenKeeps
  <2>2. Undamaged(u) BY <1>9 DEF KeptOf
  <2>3. InOrder(said[u], Messages(s)) BY <2>1, <2>2 DEF Undamaged, Messages, Message
  <2>4. s[Len(s)].role # "user" => \E c \in cut[u] : c < turn[u] /\ SaidBefore(u, c)
    BY <1>3, <2>2 DEF Undamaged, Swallowed
  <2> HIDE DEF s
  <2>5. ~CutOff(s) BY <1>5 DEF CutOff, Last
  <2>6. t = Append(s, line) BY <2>5 DEF RunOn
  <2>7. /\ t \in Seq(Lines) /\ Len(s) \in Nat /\ Len(t) = Len(s) + 1 /\ DOMAIN s = 1..Len(s)
        /\ DOMAIN t = 1..(Len(s) + 1) /\ t[Len(s) + 1] = line /\ \A i \in DOMAIN s : t[i] = s[i]
    BY <1>0, <1>2, <2>6, AppendLines
  <2> HIDE DEF t
  <2>8. Len(s) \in DOMAIN s /\ s[Len(s)].turn = turn[u] BY <1>5, <2>7 DEF Asked
  <2> DEFINE old == Messages(s)
             new == Messages(t)
  <2>9. /\ old \in Seq(Entries) /\ DOMAIN old = DOMAIN s /\ Len(old) = Len(s)
        /\ \A i \in DOMAIN s : old[i] = [turn |-> s[i].turn, role |-> s[i].role]
    BY <1>0, MessagesOf
  <2>10. /\ new \in Seq(Entries) /\ DOMAIN new = DOMAIN t /\ Len(new) = Len(t)
         /\ \A i \in DOMAIN t : new[i] = [turn |-> t[i].turn, role |-> t[i].role]
    BY <2>7, MessagesOf
  <2>11. new[Len(s) + 1] = a /\ \A i \in DOMAIN s : new[i] = old[i]
    <3>1. new[Len(s) + 1] = a BY <1>2, <2>7, <2>10 DEF a
    <3>2. \A i \in DOMAIN s : new[i] = old[i] BY <2>7, <2>9, <2>10
    <3> QED BY <3>1, <3>2
  <2> HIDE DEF old, new
  <2>12. \A i \in DOMAIN s : i # Len(s) => old[i] # q /\ old[i] # a
    <3>1. \A i \in DOMAIN s : old[i].turn = s[i].turn BY <2>9
    <3> QED BY <1>0, <1>4, <1>6, <3>1
  <2>13. q \notin ToSet(said[u]) /\ a \notin ToSet(said[u]) BY <1>0, <1>4, <1>6
  <2>14. InOrder(Append(said[u], q), old)
    <3>1. InOrder(said[u], old) BY <2>3 DEF old
    <3> QED BY <1>0, <1>4, <2>9, <2>12, <2>13, <3>1, InOrderLast
  <2>15. old[Len(s)] # a
    <3>1. old[Len(s)].role = s[Len(s)].role BY <2>8, <2>9
    <3>2. s[Len(s)].role # "assistant"
      <4> SUFFICES ASSUME s[Len(s)].role = "assistant" PROVE FALSE OBVIOUS
      <4>1. \A f : Whole(LinesOf(f)) BY DEF StoreInv, Exchanged, LinesOf, Whole
      <4>2. Asked(s, Len(s), s[Len(s)].turn) BY <2>8, <4>1 DEF Whole, s
      <4>3. Len(s) - 1 \in DOMAIN s /\ s[Len(s) - 1].turn = turn[u] BY <2>7, <2>8, <4>2 DEF Asked
      <4> QED BY <1>0, <1>6, <2>7, <4>3
    <3> QED BY <1>4, <3>1, <3>2
  <2>16. \A i \in DOMAIN new : new[i] = a => i = Len(new)
    BY <2>7, <2>10, <2>11, <2>12, <2>15
  <2>17. a \notin ToSet(Append(said[u], q)) BY <1>4, <1>7, <2>13
  <2>18. InOrder(Append(said[u], q), new)
    <3>1. ASSUME NEW i \in DOMAIN new, new[i] \in ToSet(Append(said[u], q))
          PROVE  i \in DOMAIN old /\ old[i] = new[i]
      <4>1. i # Len(s) + 1 BY <2>11, <2>17, <3>1
      <4> QED BY <2>7, <2>9, <2>10, <2>11, <4>1
    <3> QED BY <2>14, <3>1, InOrderStays
  <2>19. InOrder(said'[u], new)
    BY <1>4, <1>7, <2>10, <2>16, <2>17, <2>18, InOrderLast
  <2>20. Messages(Transcript(u))' = new BY <2>1 DEF new, Messages, Message
  <2>21. InOrder(said[u], Messages(Transcript(u)))' BY <2>19, <2>20 DEF InOrder
  <2>22. Present(u)'
    <3> SUFFICES ASSUME NEW m \in ToSet(said'[u]), m \notin ToSet(new) PROVE MayRunOn(u, m)'
      BY <2>20 DEF Present
    <3>1. \A n \in ToSet(said'[u]) : n \in ToSet(said[u]) \/ n.turn = turn[u] BY <1>4, <1>7
    <3>2. m # a BY <2>7, <2>10, <2>11 DEF ToSet
    <3>3. CASE m = q
      <4>1. s[Len(s)].role # "user"
        <5> SUFFICES ASSUME s[Len(s)].role = "user" PROVE FALSE OBVIOUS
        <5>1. old[Len(s)] = q BY <2>8, <2>9 DEF q
        <5>2. new[Len(s)] = q /\ Len(s) \in DOMAIN new BY <2>7, <2>8, <2>10, <2>11, <5>1
        <5>3. q \in ToSet(new) BY <5>2 DEF ToSet
        <5> QED BY <3>3, <5>3
      <4>2. PICK c \in cut[u] : c < turn[u] /\ SaidBefore(u, c) BY <2>4, <4>1
      <4>3. c \in Nat BY <1>0 DEF StoreTyped
      <4>4. ASSUME NEW n \in ToSet(said'[u]), c < n.turn, n.turn < turn[u] PROVE FALSE
        <5>1. n \in ToSet(said[u]) BY <1>0, <3>1, <4>4
        <5>2. n.turn < c BY <4>2, <5>1 DEF SaidBefore
        <5>3. n.turn \in Nat BY <1>0, <5>1, NumberTyped
        <5> QED BY <4>3, <4>4, <5>2, <5>3
      <4> QED BY <1>1, <1>4, <3>3, <4>2, <4>4 DEF MayRunOn
    <3>4. CASE m \in ToSet(said[u])
      <4>1. MayRunOn(u, m) BY <2>1, <2>20, <3>4
      <4>2. PICK c \in cut[u] : c < m.turn /\ ~\E n \in ToSet(said[u]) : c < n.turn /\ n.turn < m.turn
        BY <4>1 DEF MayRunOn
      <4>3. m.turn < turn[u] /\ m.turn \in Nat BY <1>0, <1>6, <3>4, NumberTyped
      <4>4. ~\E n \in ToSet(said'[u]) : c < n.turn /\ n.turn < m.turn BY <1>0, <3>1, <4>2, <4>3
      <4> QED BY <1>1, <4>1, <4>2, <4>4 DEF MayRunOn
    <3> QED BY <1>7, <3>2, <3>3, <3>4
  <2>23. LastCut(u)' BY <1>2, <2>1, <2>7 DEF LastCut, CutOff, Last
  <2>24. Swallowed(u)' BY <1>3 DEF Swallowed
  <2> QED BY <2>1, <2>21, <2>22, <2>23, <2>24 DEF Undamaged
<1> QED BY <1>1, <1>3, <1>8, <1>9 DEF KeptOf

LEMMA SaidTypedStep == StoreInv /\ SaidTyped /\ [Next]_vars => SaidTyped'
<1> SUFFICES ASSUME StoreInv, SaidTyped, [Next]_vars PROVE SaidTyped'
  OBVIOUS
<1>0. StoreTyped BY DEF StoreInv
<1>1. ASSUME NEW u \in Users, EncodeAssistant(u) PROVE SaidTyped'
  <2> DEFINE q == [turn |-> turn[u], role |-> "user"]
             a == [turn |-> turn[u], role |-> "assistant"]
  <2>1. said' = [said EXCEPT ![u] = @ \o <<q, a>>] /\ UNCHANGED damaged
    BY <1>1 DEF EncodeAssistant
  <2>2. q \in Entries /\ a \in Entries BY <1>0 DEF Entries, StoreTyped
  <2> HIDE DEF q, a
  <2>3. said[u] \o <<q, a>> \in Seq(Entries)
    BY <2>2 DEF SaidTyped
  <2> QED BY <2>1, <2>3 DEF SaidTyped
<1>2. ASSUME NEW u \in Users, CopyFails(u) PROVE SaidTyped' BY <1>2 DEF CopyFails, SaidTyped
<1>3. CASE Crash
  BY <1>3 DEF Crash, SaidTyped
<1>4. ASSUME NEW u \in Users, Clear(u) PROVE SaidTyped'
  <2>1. /\ said' = [said EXCEPT ![u] = <<>>] /\ damaged' = [damaged EXCEPT ![u] = FALSE]
        /\ <<>> \in Seq(Entries)
    BY <1>4 DEF Clear, Cleared
  <2> QED BY <2>1 DEF SaidTyped
<1>5. CASE UNCHANGED <<said, damaged>>
  BY <1>5 DEF SaidTyped
<1> QED BY <1>1, <1>2, <1>3, <1>4, <1>5
        DEF Next, AppendExchange, vars, Load, TurnEndsSilently, AppendStarts, CopyCreates, CopyWrites,
            RemoveOld, EncodeUser, EncodeFails, ClearFails, ClearOld

\* A crash leaves the files as they are, and a copy it cuts off is known as damaged.
LEMMA KeptCrash ==
  ASSUME StoreInv, SaidTyped, NEW u \in Users, KeptOf(u), Crash
  PROVE  KeptOf(u)'
<1>0. StoreTyped /\ turn[u] \in Nat BY DEF StoreInv, StoreTyped
<1>1. pc'[u] = "idle" /\ damaged'[u] = (damaged[u] \/ pc[u] = "copy") /\ UNCHANGED <<turn, disk, copy, said, cleared, cut, long>>
  BY DEF Crash
<1>2. SameFiles(u) BY <1>1, Apart
<1>3. turn'[u] \in Nat /\ turn'[u] >= turn[u] BY <1>0, <1>1
<1>4. ~damaged'[u] => pc[u] # "copy" /\ ~damaged[u] BY <1>1
<1> QED BY <1>0, <1>1, <1>2, <1>3, <1>4, KeptHere DEF Working

LEMMA KeptStep == StoreInv /\ Keeping /\ [Next]_vars => Keeping'
<1> SUFFICES ASSUME StoreInv, Keeping, [Next]_vars PROVE Keeping'
  OBVIOUS
<1>0. SaidTyped /\ \A u \in Users : KeptOf(u) BY DEF Keeping
<1>1. SaidTyped' BY <1>0, SaidTypedStep
<1> SUFFICES ASSUME NEW u \in Users PROVE KeptOf(u)'
  BY <1>1 DEF Keeping
<1>2. ASSUME NEW v \in Users,
             Load(v) \/ TurnEndsSilently(v) \/ AppendExchange(v) \/ Clear(v) \/ ClearFails(v) \/ ClearOld(v)
      PROVE  KeptOf(u)'
  <2>1. CASE v = u
    BY <1>0, <1>2, <2>1, KeptQuietStep, KeptOwnStep, KeptQuestion, KeptFailure, KeptAnswer DEF AppendExchange
  <2>2. CASE v # u
    <3>1. /\ pc'[u] = pc[u] /\ turn'[u] = turn[u] /\ copy'[u] = copy[u] /\ seen'[u] = seen[u]
          /\ said'[u] = said[u] /\ damaged'[u] = damaged[u] /\ cut'[u] = cut[u] /\ long'[u] = long[u]
      BY <1>0, <1>2, <2>2
         DEF AppendExchange, Write, Load, TurnEndsSilently, AppendStarts, CopyCreates, CopyWrites, CopyFails, RemoveOld,
             EncodeUser, EncodeAssistant, EncodeFails, Clear, Cleared, ClearFails, ClearOld, Goto,
             StoreInv, StoreTyped, SaidTyped
    <3>2. disk' = disk \/ \E f \in {New(v), Old(v)} : disk' = Without(f) \/ \E s : disk' = Put(f, s)
      BY <1>2
         DEF AppendExchange, Load, TurnEndsSilently, AppendStarts, CopyCreates, CopyWrites, CopyFails, RemoveOld,
             EncodeUser, EncodeAssistant, EncodeFails, Clear, ClearFails, ClearOld, Write, Extend
    <3>3. SameFiles(u) BY <2>2, <3>2, Apart
    <3> QED BY <1>0, <3>1, <3>3, KeptElsewhere
  <2> QED BY <2>1, <2>2
<1>3. CASE Crash
  BY <1>0, <1>3, KeptCrash
<1>4. CASE UNCHANGED vars
  <2>1. UNCHANGED <<pc, turn, disk, copy, seen, said, damaged, cut, long>> BY <1>4 DEF vars
  <2>2. SameFiles(u) BY <2>1, Apart
  <2> QED BY <1>0, <2>1, <2>2, KeptElsewhere
<1> QED BY <1>2, <1>3, <1>4 DEF Next

LEMMA KeptInit == Init => Keeping
<1> SUFFICES ASSUME Init PROVE Keeping
  OBVIOUS
<1> DEFINE first == [turn |-> 0, role |-> "user", ended |-> TRUE]
           second == [turn |-> 0, role |-> "assistant", ended |-> TRUE]
<1>1. /\ OldLines \in Seq(Lines) /\ <<>> \in Seq(Lines) /\ DOMAIN OldLines = 1..2
      /\ OldLines[1] = first /\ OldLines[2] = second /\ Len(OldLines) = 2 /\ OldLines # <<>>
  BY DEF OldLines, Lines
<1>2. ASSUME NEW m \in ToSet(OldLines) PROVE m.turn = 0
  <2>1. PICK i \in 1..2 : OldLines[i] = m BY <1>1 DEF ToSet
  <2>2. i = 1 \/ i = 2 OBVIOUS
  <2> QED BY <1>1, <2>1, <2>2
<1>3. \A m : m \notin ToSet(<<>>) BY <1>1, InSet
<1>4. ~CutOff(<<>>) /\ ~CutOff(OldLines) BY <1>1 DEF CutOff, Last
<1>5. /\ Messages(OldLines) \in Seq(Entries) /\ DOMAIN Messages(OldLines) = 1..2
      /\ \A i \in 1..2 : Messages(OldLines)[i] = [turn |-> OldLines[i].turn, role |-> OldLines[i].role]
  BY <1>1, MessagesOf
<1>6. ASSUME NEW m \in ToSet(Messages(OldLines)) PROVE m.turn = 0
  <2>1. PICK i \in 1..2 : Messages(OldLines)[i] = m BY <1>5 DEF ToSet
  <2>2. i = 1 \/ i = 2 OBVIOUS
  <2> QED BY <1>1, <1>5, <2>1, <2>2
<1>7. SaidTyped
  <2>1. <<>> \in Seq(Entries) OBVIOUS
  <2> QED BY <1>5, <2>1 DEF Init, SaidTyped
<1>8. \A w : InOrder(w, w) /\ InOrder(<<>>, w)
  BY <1>3 DEF InOrder
<1>9. ASSUME NEW u \in Users PROVE KeptOf(u)
  <2>1. pc[u] = "idle" /\ turn[u] = 0 /\ copy[u] = <<>> /\ ~damaged[u] BY <1>9 DEF Init
  <2>2. DOMAIN disk = {Old(v) : v \in Legacy} /\ \A f \in DOMAIN disk : disk[f] = OldLines BY DEF Init
  <2>3. LinesOf(New(u)) = <<>> /\ New(u) \notin DOMAIN disk
    BY <2>2 DEF LinesOf, New, Old
  <2>4. Old(u) \in DOMAIN disk <=> u \in Legacy BY <2>2 DEF Old
  <2>5. \/ u \in Legacy /\ LinesOf(Old(u)) = OldLines /\ said[u] = Messages(OldLines)
        \/ u \notin Legacy /\ LinesOf(Old(u)) = <<>> /\ said[u] = <<>>
    BY <1>9, <2>2, <2>4 DEF LinesOf, Init
  <2>6. \A m \in ToSet(said[u]) \cup ToSet(LinesOf(Old(u))) \cup ToSet(copy[u]) : m.turn = 0
    BY <1>2, <1>3, <1>6, <2>1, <2>5
  <2>7. DOMAIN LinesOf(New(u)) = {} BY <2>3
  <2>8. Numbered(u) BY <2>1, <2>6, <2>7 DEF Numbered, Working
  <2>9. \/ u \in Legacy /\ Transcript(u) = OldLines /\ said[u] = Messages(OldLines)
        \/ Transcript(u) = <<>> /\ said[u] = <<>>
    <3>1. CASE u \in Telegram
      BY <2>1, <2>3, <2>5, <3>1 DEF Transcript, Source
    <3>2. CASE u \notin Telegram
      <4>1. u \notin Legacy BY <3>2, SessionAssumption
      <4> QED BY <2>1, <2>3, <2>5, <3>2, <4>1 DEF Transcript, Source
    <3> QED BY <3>1, <3>2
  <2>10. ~CutOff(Transcript(u)) /\ ~CutOff(LinesOf(Old(u))) BY <1>4, <2>5, <2>9
  <2>11. InOrder(said[u], Messages(Transcript(u))) BY <1>8, <2>9
  <2>12. Present(u) BY <1>3, <2>9 DEF Present
  <2>13. Undamaged(u) BY <2>1, <2>10, <2>11, <2>12 DEF Undamaged, Migrating, LastCut, Swallowed
  <2> QED BY <2>1, <2>8, <2>10, <2>13 DEF KeptOf
<1> QED BY <1>7, <1>9 DEF Keeping

\* Whatever writes fail and whenever the process dies, what a session said since its last
\* /new is what its next turn loads, in the order it was said, but for a question that ran
\* on from a line that was cut off, the first since then; unless the migration's copy was cut
\* off or a line is too long to be read.
THEOREM WhatWasSaidIsKept == TurnSpec => []NothingLost
<1>1. Spec => []Keeping
  BY KeptInit, KeptStep, StoreInvariant, PTL DEF Spec
<1>2. StoreInv /\ Keeping => NothingLost
  <2> SUFFICES ASSUME StoreInv, Keeping, NEW u \in Users, pc[u] = "thinking", ~damaged[u]
               PROVE  \/ /\ \A m \in ToSet(said[u]) : m \in ToSet(seen[u]) \/ MayRunOn(u, m)
                         /\ InOrder(said[u], seen[u])
                      \/ seen[u] = <<>> /\ Unreadable(u)
    BY DEF NothingLost
  <2>1. Undamaged(u) /\ seen[u] = Messages(Loaded(u)) /\ Transcript(u) = LinesOf(Source(u))
    BY DEF Keeping, KeptOf, Transcript
  <2>2. CASE Unreadable(u)
    <3>1. Loaded(u) = <<>> BY <2>2 DEF Loaded
    <3>2. Messages(<<>>) = <<>> BY DEF Messages
    <3> QED BY <2>1, <2>2, <3>1, <3>2
  <2>3. CASE ~Unreadable(u)
    <3>1. seen[u] = Messages(Transcript(u)) BY <2>1, <2>3 DEF Loaded
    <3> QED BY <2>1, <3>1 DEF Undamaged, Present
  <2> QED BY <2>2, <2>3
<1> QED BY <1>1, <1>2, StoreInvariant, TurnsUseTheStore, PTL

-----------------------------------------------------------------------------
(* Skills and claims.                                                      *)

TurnMessages ==
  [phase : Phases, text : AllTexts \cup {""}, rounds : Nat, called : BOOLEAN, claims : BOOLEAN,
   by : {"", "dialogue", "tool"}, passed : SUBSET {"asked", "security", "feasibility"}, file : Nat]

TurnTyped ==
  /\ msg \in [Users -> TurnMessages] /\ prior \in [Users -> BOOLEAN] /\ awaiting \subseteq Users

\* A dialogue is open only from its trigger to the next message, and each review is
\* behind a skill that got past it.
Dialogue ==
  /\ \A u \in awaiting : prior[u] /\ msg[u].phase \in {"none", "received"}
  /\ \A u \in Users :
       /\ msg[u].phase = "security" => msg[u].passed = {"asked"}
       /\ msg[u].phase = "feasibility" => msg[u].passed = {"asked", "security"}
       /\ msg[u].phase = "persist" => msg[u].passed = {"asked", "security", "feasibility"}

TurnInv == TurnTyped /\ Dialogue /\ NoReviewIsSkipped /\ NoUnfoundedClaim

\* What the invariant asks of one message.
Sound(m) ==
  /\ m.phase = "security" => m.passed = {"asked"}
  /\ m.phase = "feasibility" => m.passed = {"asked", "security"}
  /\ m.phase = "persist" => m.passed = {"asked", "security", "feasibility"}
  /\ m.phase = "append" /\ m.text = "send" /\ m.claims => m.called

\* A step of one turn.
LEMMA MessageStep ==
  ASSUME TurnInv, NEW u \in Users, NEW m \in TurnMessages, Sound(m), msg' = [msg EXCEPT ![u] = m],
         prior' \in [Users -> BOOLEAN], \A v \in Users : v # u => prior'[v] = prior[v],
         awaiting' \subseteq awaiting \cup {u},
         u \in awaiting' => prior'[u] /\ m.phase \in {"none", "received"},
         NoReviewIsSkipped'
  PROVE  TurnInv'
<1> USE DEF TurnInv, TurnTyped, Dialogue, NoUnfoundedClaim
<1>1. \A v \in Users : msg'[v] = IF v = u THEN m ELSE msg[v]
  OBVIOUS
<1>2. TurnTyped'
  OBVIOUS
<1>3. Dialogue'
  BY <1>1 DEF Sound
<1>4. NoUnfoundedClaim'
  BY <1>1 DEF Sound
<1> QED BY <1>2, <1>3, <1>4

LEMMA RepliesStep ==
  ASSUME TurnInv, NEW u \in Users, Replies(u), NoReviewIsSkipped',
         awaiting' \subseteq awaiting \cup {u}, u \in awaiting' => msg[u].text = "newskill"
  PROVE  TurnInv'
<1>1. Idle \in TurnMessages /\ Sound(Idle) /\ Idle.phase = "none"
  BY DEF Idle, TurnMessages, Phases, Sound
<1>2. /\ msg' = [msg EXCEPT ![u] = Idle]
      /\ prior' = [prior EXCEPT ![u] = (msg[u].text = "newskill")]
  BY DEF Replies
<1>3. prior' \in [Users -> BOOLEAN] /\ \A v \in Users : v # u => prior'[v] = prior[v]
  BY <1>2 DEF TurnInv, TurnTyped
<1>4. u \in awaiting' => prior'[u]
  BY <1>2 DEF TurnInv, TurnTyped
<1> QED BY <1>1, <1>2, <1>3, <1>4, MessageStep

\* A step that only moves a turn on, to a place that asks nothing of it.
LEMMA MoveStep ==
  ASSUME TurnInv, NEW u \in Users, u \notin awaiting, UNCHANGED <<prior, awaiting>>, NoReviewIsSkipped',
         NEW to \in {"command", "orchestrate", "planner", "loop"},
         msg' = [msg EXCEPT ![u].phase = to]
  PROVE  TurnInv'
<1> DEFINE m == [msg[u] EXCEPT !.phase = to]
<1>1. msg[u] \in TurnMessages
  BY DEF TurnInv, TurnTyped
<1>2. m \in TurnMessages /\ m.phase = to
  BY <1>1 DEF TurnMessages, Phases
<1>3. msg' = [msg EXCEPT ![u] = m]
  OBVIOUS
<1>4. Sound(m)
  BY <1>2 DEF Sound
<1> HIDE DEF m
<1>5. prior' \in [Users -> BOOLEAN] /\ awaiting' = awaiting /\ prior' = prior
  BY DEF TurnInv, TurnTyped
<1> QED BY <1>2, <1>3, <1>4, <1>5, MessageStep

LEMMA ToStoreStep ==
  ASSUME TurnInv, NEW u \in Users, u \notin awaiting, UNCHANGED <<prior, awaiting>>, NoReviewIsSkipped',
         ToStore(u)
  PROVE  TurnInv'
<1> DEFINE m == [Idle EXCEPT !.phase = "store"]
<1>1. m \in TurnMessages /\ Sound(m) /\ msg' = [msg EXCEPT ![u] = m]
  BY DEF Idle, TurnMessages, Phases, Sound, ToStore
<1> HIDE DEF m
<1>2. prior' \in [Users -> BOOLEAN] /\ awaiting' = awaiting /\ prior' = prior
  BY DEF TurnInv, TurnTyped
<1> QED BY <1>1, <1>2, MessageStep

LEMMA SkillDoneStep ==
  ASSUME TurnInv, NEW u \in Users, u \notin awaiting, awaiting' = awaiting, NoReviewIsSkipped', SkillDone(u)
  PROVE  TurnInv'
<1>1. CASE Replies(u)
  BY <1>1, RepliesStep
<1>2. CASE UNCHANGED prior /\ msg' = [msg EXCEPT ![u] = [@ EXCEPT !.phase = "loop", !.by = "", !.passed = {},
                                                                 !.file = 0]]
  <2> DEFINE m == [msg[u] EXCEPT !.phase = "loop", !.by = "", !.passed = {}, !.file = 0]
  <2>1. msg' = [msg EXCEPT ![u] = m]
    BY <1>2
  <2>2. msg[u] \in TurnMessages
    BY DEF TurnInv, TurnTyped
  <2>3. m \in TurnMessages /\ m.phase = "loop"
    BY <2>2 DEF TurnMessages, Phases
  <2>4. Sound(m)
    BY <2>3 DEF Sound
  <2> HIDE DEF m
  <2>5. prior' \in [Users -> BOOLEAN] /\ awaiting' = awaiting /\ prior' = prior
    BY <1>2 DEF TurnInv, TurnTyped
  <2> QED BY <2>1, <2>3, <2>4, <2>5, MessageStep
<1> QED BY <1>1, <1>2 DEF SkillDone, RepliesAtOnce

LEMMA TurnInvStep == TurnInv /\ [TurnNext]_allVars => TurnInv'
<1> SUFFICES ASSUME TurnInv, [TurnNext]_allVars PROVE TurnInv'
  OBVIOUS
<1>m. \A u \in Users : msg[u] \in TurnMessages
  BY DEF TurnInv, TurnTyped
<1>p. prior \in [Users -> BOOLEAN]
  BY DEF TurnInv, TurnTyped
<1>d. \A u \in Users : u \in awaiting => prior[u] /\ msg[u].phase \in {"none", "received"}
  BY DEF TurnInv, Dialogue
<1>r. \A u \in Users : Sound(msg[u])
  BY DEF TurnInv, Dialogue, NoUnfoundedClaim, Sound
<1>s. UNCHANGED skill => NoReviewIsSkipped'
  BY DEF TurnInv, NoReviewIsSkipped
<1>1. ASSUME NEW u \in Users, Receive(u) PROVE TurnInv'
  <2>1. PICK text \in Texts : msg' = [msg EXCEPT ![u] = [Idle EXCEPT !.phase = "received", !.text = text]]
    BY <1>1 DEF Receive
  <2> DEFINE m == [Idle EXCEPT !.phase = "received", !.text = text]
  <2>2. m \in TurnMessages /\ Sound(m) /\ m.phase = "received"
    BY TurnAssumption DEF Idle, TurnMessages, Phases, Sound
  <2> HIDE DEF m
  <2> QED BY <1>d, <1>m, <1>p, <1>1, <1>s, <2>1, <2>2, MessageStep DEF Receive, m
<1>2. ASSUME NEW u \in Users, TakeSkillContent(u) PROVE TurnInv'
  <2>1. u \in awaiting /\ u \notin awaiting' /\ awaiting' \subseteq awaiting /\ UNCHANGED skill /\ prior[u]
    BY <1>d, <1>m, <1>p, <1>2 DEF TakeSkillContent
  <2>2. CASE msg[u].text = "SKILL.md" /\ prior' = prior
    <3> DEFINE m == [msg[u] EXCEPT !.phase = "security", !.by = "dialogue", !.passed = {"asked"}]
    <3>1. msg' = [msg EXCEPT ![u] = m]
      BY <1>2, <2>1, <2>2 DEF TakeSkillContent, RepliesAtOnce
    <3>0. msg[u] \in TurnMessages
      BY <1>m
    <3>2. m \in TurnMessages
      BY <3>0 DEF TurnMessages, Phases
    <3>3. m.phase = "security" /\ m.passed = {"asked"}
      BY <3>0 DEF TurnMessages
    <3>4. Sound(m)
      BY <3>3 DEF Sound
    <3> HIDE DEF m
    <3> QED BY <1>p, <1>s, <2>1, <2>2, <3>1, <3>2, <3>4, MessageStep
  <2>3. CASE Replies(u)
    BY <1>s, <2>1, <2>3, RepliesStep
  <2> QED BY <1>2, <2>2, <2>3 DEF TakeSkillContent, RepliesAtOnce
<1>3. ASSUME NEW u \in Users, StartSkillDialogue(u) PROVE TurnInv'
  <2>1. u \notin awaiting /\ UNCHANGED skill
    BY <1>3 DEF StartSkillDialogue
  <2>2. CASE /\ Replies(u)
             /\ \/ msg[u].text = "newskill" /\ awaiting' = awaiting \cup {u}
                \/ UNCHANGED awaiting
    BY <1>s, <2>1, <2>2, RepliesStep
  <2>3. CASE To(u, "command") /\ UNCHANGED <<prior, awaiting>>
    BY <1>s, <2>1, <2>3, MoveStep DEF To
  <2> QED BY <1>3, <2>2, <2>3 DEF StartSkillDialogue, RepliesAtOnce
<1>4. ASSUME NEW u \in Users, NEW check \in {"security", "feasibility"},
             Review(u, check, IF check = "security" THEN "feasibility" ELSE "persist")
      PROVE  TurnInv'
  <2> DEFINE next == IF check = "security" THEN "feasibility" ELSE "persist"
  <2>1. u \notin awaiting /\ UNCHANGED <<awaiting, skill>> /\ msg[u].phase = check
    BY <1>d, <1>m, <1>p, <1>4 DEF Review, In
  <2>2. CASE SkillDone(u)
    BY <1>s, <2>1, <2>2, SkillDoneStep
  <2>3. CASE msg' = [msg EXCEPT ![u].phase = next, ![u].passed = @ \cup {check}] /\ prior' = prior
    <3> DEFINE m == [msg[u] EXCEPT !.phase = next, !.passed = msg[u].passed \cup {check}]
    <3>1. msg' = [msg EXCEPT ![u] = m]
      BY <1>d, <1>m, <1>p, <2>3 DEF TurnInv, TurnTyped, TurnMessages
    <3>0. msg[u] \in TurnMessages /\ next \in Phases
      BY <1>m DEF Phases
    <3>2. m \in TurnMessages
      BY <3>0 DEF TurnMessages
    <3>3. m.phase = next /\ m.passed = msg[u].passed \cup {check}
      BY <1>d, <1>m, <1>p DEF TurnMessages
    <3>4. Sound(m)
      BY <1>r, <2>1, <3>3 DEF Sound
    <3> HIDE DEF m
    <3> QED BY <1>d, <1>m, <1>p, <1>s, <2>1, <2>3, <3>1, <3>2, <3>4, MessageStep
  <2> QED BY <1>4, <2>2, <2>3 DEF Review
<1>5. ASSUME NEW u \in Users, WriteSkill(u) PROVE TurnInv'
  <2> DEFINE n == msg[u].file + 1
  <2>1. u \notin awaiting /\ awaiting' = awaiting /\ msg[u].phase = "persist"
    BY <1>d, <1>m, <1>p, <1>5 DEF WriteSkill, In
  <2>2. msg[u].passed = {"asked", "security", "feasibility"}
    BY <1>r, <2>1 DEF Sound
  <2>3. NoReviewIsSkipped'
    BY <1>5, <2>2 DEF WriteSkill, TurnInv, NoReviewIsSkipped, Reviewed
  <2>4. CASE SkillDone(u)
    BY <2>1, <2>3, <2>4, SkillDoneStep
  <2>5. CASE msg' = [msg EXCEPT ![u].file = n] /\ prior' = prior
    <3> DEFINE m == [msg[u] EXCEPT !.file = n]
    <3>0. msg[u] \in TurnMessages
      BY <1>m
    <3>1. msg' = [msg EXCEPT ![u] = m]
      BY <2>5
    <3>h. msg[u].file \in Nat
      BY <3>0 DEF TurnMessages
    <3>i. n \in Nat
      BY <3>h
    <3> HIDE DEF n
    <3>2. m \in TurnMessages
      BY <3>0, <3>i DEF TurnMessages
    <3>3. m.phase = "persist" /\ m.passed = msg[u].passed
      BY <2>1, <3>0 DEF TurnMessages
    <3>4. Sound(m)
      BY <2>2, <3>3 DEF Sound
    <3> HIDE DEF m
    <3> QED BY <1>p, <2>1, <2>3, <2>5, <3>1, <3>2, <3>4, MessageStep
  <2> QED BY <1>5, <2>4, <2>5 DEF WriteSkill
<1>6. ASSUME NEW u \in Users, ClearSession(u) \/ RecordExchange(u) PROVE TurnInv'
  <2>1. u \notin awaiting /\ UNCHANGED <<awaiting, skill>>
    BY <1>d, <1>m, <1>p, <1>6 DEF ClearSession, RecordExchange, In
  <2>2. CASE Replies(u)
    BY <1>s, <2>1, <2>2, RepliesStep
  <2>3. CASE ToStore(u) /\ prior' = prior
    BY <1>s, <2>1, <2>3, ToStoreStep
  <2> QED BY <1>6, <2>2, <2>3 DEF ClearSession, RecordExchange
<1>7. ASSUME NEW u \in Users, OtherCommand(u) \/ GiveUp(u) PROVE TurnInv'
  <2>1. u \notin awaiting /\ UNCHANGED <<awaiting, skill>> /\ Replies(u)
    BY <1>d, <1>m, <1>p, <1>7 DEF OtherCommand, GiveUp, In, RepliesAtOnce, RepliesUnrecorded
  <2> QED BY <1>s, <2>1, RepliesStep
<1>8. ASSUME NEW u \in Users, LoadSession(u) PROVE TurnInv'
  <2>1. u \notin awaiting
    BY <1>d, <1>m, <1>p, <1>8 DEF LoadSession, In
  <2> QED BY <1>8, <1>s, <2>1, MoveStep DEF LoadSession, To
\* An answer that is unfounded does not get to the record.
<1>9. ASSUME NEW u \in Users, NEW claims \in BOOLEAN, u \notin awaiting, Answer(u, claims),
             UNCHANGED <<prior, awaiting>>, NoReviewIsSkipped', ~Unfounded(u, claims)
      PROVE  TurnInv'
  <2> DEFINE m == [msg[u] EXCEPT !.phase = "append", !.claims = claims]
  <2>1. msg' = [msg EXCEPT ![u] = m]
    BY <1>d, <1>m, <1>p, <1>9 DEF Answer, TurnInv, TurnTyped, TurnMessages
  <2>0. msg[u] \in TurnMessages
    BY <1>m
  <2>2. m \in TurnMessages
    BY <2>0 DEF TurnMessages, Phases
  <2>3. m.phase = "append" /\ m.text = msg[u].text /\ m.claims = claims /\ m.called = msg[u].called
    BY <1>d, <1>m, <1>p DEF TurnMessages
  <2>4. Sound(m)
    BY <1>9, <2>3 DEF Sound, Unfounded
  <2> HIDE DEF m
  <2> QED BY <1>d, <1>m, <1>p, <1>9, <2>1, <2>2, <2>4, MessageStep
<1>10. ASSUME NEW u \in Users, Orchestrate(u) \/ TryWalletPlanner(u) PROVE TurnInv'
  <2>1. u \notin awaiting /\ UNCHANGED awaiting /\ ~Unfounded(u, FALSE)
    BY <1>d, <1>m, <1>p, <1>10 DEF Orchestrate, TryWalletPlanner, In, Unfounded
  <2>0. NoReviewIsSkipped'
    <3>1. CASE UNCHANGED skill
      BY <1>s, <3>1
    <3>2. ASSUME NEW files \in SUBSET DOMAIN skill, NEW texts \in [files -> {Unreviewed, Reviewed}],
                 skill' = [f \in DOMAIN skill |-> IF f \in files THEN texts[f] ELSE skill[f]]
          PROVE  NoReviewIsSkipped'
      <4>1. \A f \in files : texts[f] \in {Unreviewed, Reviewed}
        OBVIOUS
      <4> QED BY <3>2, <4>1 DEF TurnInv, NoReviewIsSkipped
    <3> QED BY <1>10, <3>1, <3>2 DEF Orchestrate, TryWalletPlanner
  <2>2. CASE Answer(u, FALSE) /\ prior' = prior
    BY <1>9, <2>0, <2>1, <2>2
  <2>3. CASE Replies(u)
    BY <2>0, <2>1, <2>3, RepliesStep
  <2>4. CASE (To(u, "planner") \/ To(u, "loop")) /\ prior' = prior
    BY <2>0, <2>1, <2>4, MoveStep DEF To
  <2> QED BY <1>10, <2>2, <2>3, <2>4 DEF Orchestrate, TryWalletPlanner, RepliesUnrecorded
<1>11. ASSUME NEW u \in Users, NEW called \in BOOLEAN, In(u, "loop"), NextRound(u, called),
              UNCHANGED <<prior, awaiting>>, NoReviewIsSkipped'
       PROVE  TurnInv'
  <2> DEFINE m == [msg[u] EXCEPT !.rounds = msg[u].rounds + 1, !.called = msg[u].called \/ called]
  <2>1. msg' = [msg EXCEPT ![u] = m]
    BY <1>d, <1>m, <1>p, <1>11 DEF NextRound, TurnInv, TurnTyped, TurnMessages
  <2>0. msg[u] \in TurnMessages
    BY <1>m
  <2>h. msg[u].rounds \in Nat
    BY <2>0 DEF TurnMessages
  <2>i. msg[u].rounds + 1 \in Nat /\ (msg[u].called \/ called) \in BOOLEAN
    BY <2>h
  <2>2. m \in TurnMessages /\ m.phase = "loop"
    BY <1>11, <2>0, <2>i DEF TurnMessages, In
  <2>3. Sound(m)
    BY <2>2 DEF Sound
  <2>4. u \notin awaiting
    BY <1>d, <1>m, <1>p, <1>11 DEF In
  <2> HIDE DEF m
  <2> QED BY <1>d, <1>m, <1>p, <1>11, <2>1, <2>2, <2>3, <2>4, MessageStep
<1>12. ASSUME NEW u \in Users, CallTools(u) \/ FinalText(u) PROVE TurnInv'
  <2>1. u \notin awaiting /\ UNCHANGED <<prior, awaiting, skill>> /\ In(u, "loop")
    BY <1>d, <1>m, <1>p, <1>12 DEF CallTools, FinalText, In
  <2>2. ASSUME NEW called \in BOOLEAN, NextRound(u, called) PROVE TurnInv'
    BY <1>11, <1>s, <2>1, <2>2
  <2>3. ASSUME NEW claims \in BOOLEAN, ~Unfounded(u, claims), Answer(u, claims) PROVE TurnInv'
    BY <1>9, <1>s, <2>1, <2>3
  <2> QED BY <1>12, <2>2, <2>3 DEF CallTools, FinalText
<1>13. ASSUME NEW u \in Users, CallWriteSkill(u) PROVE TurnInv'
  <2> DEFINE m == [msg[u] EXCEPT !.rounds = msg[u].rounds + 1, !.phase = "security", !.by = "tool",
                                 !.passed = {"asked"}, !.file = 0]
  <2>0. msg[u] \in TurnMessages
    BY <1>m
  <2>1. u \notin awaiting /\ UNCHANGED <<prior, awaiting, skill>>
    BY <1>d, <1>13 DEF CallWriteSkill, In
  <2>2. msg' = [msg EXCEPT ![u] = m]
    BY <1>13 DEF CallWriteSkill
  <2>h. msg[u].rounds \in Nat
    BY <2>0 DEF TurnMessages
  <2>i. msg[u].rounds + 1 \in Nat
    BY <2>h
  <2>3. m \in TurnMessages
    BY <2>0, <2>i DEF TurnMessages, Phases
  <2>4. m.phase = "security" /\ m.passed = {"asked"}
    BY <2>0 DEF TurnMessages
  <2>5. Sound(m)
    BY <2>4 DEF Sound
  <2> HIDE DEF m
  <2> QED BY <1>p, <1>s, <2>1, <2>2, <2>3, <2>5, MessageStep
<1>14. CASE ProcessCrash
  <2>1. NoReviewIsSkipped'
    BY <1>14 DEF ProcessCrash, TurnInv, NoReviewIsSkipped
  <2>2. Idle \in TurnMessages /\ Idle.phase = "none"
    BY DEF Idle, TurnMessages, Phases
  <2>3. /\ msg' = [u \in Users |-> Idle] /\ awaiting' = {} /\ prior' = [u \in Users |-> FALSE]
    BY <1>14 DEF ProcessCrash
  <2> QED BY <2>1, <2>2, <2>3 DEF TurnInv, TurnTyped, Dialogue, NoUnfoundedClaim
<1>15. CASE UNCHANGED allVars
  BY <1>15 DEF allVars, turnVars, TurnInv, TurnTyped, Dialogue, NoReviewIsSkipped, NoUnfoundedClaim
<1>16. ASSUME NEW u \in Users, SecurityCheck(u) \/ FeasibilityCheck(u) PROVE TurnInv'
  BY <1>4, <1>16 DEF SecurityCheck, FeasibilityCheck
\* A text without a review is one of write_file.
<1>17. ASSUME NEW u \in Users, CallWriteFile(u) PROVE TurnInv'
  <2>1. NoReviewIsSkipped'
    BY <1>17 DEF CallWriteFile, TurnInv, NoReviewIsSkipped
  <2> QED BY <1>11, <1>17, <2>1 DEF CallWriteFile
<1> QED BY <1>1, <1>2, <1>3, <1>5, <1>6, <1>7, <1>8, <1>10, <1>12, <1>13, <1>14, <1>15, <1>16, <1>17
           DEF TurnNext

\* TurnInv is inductive: what each message of HandleMessage has gone through.
THEOREM TurnInvariant == TurnSpec => []TurnInv
<1>1. TurnInit => TurnInv
  <2>1. Idle \in TurnMessages /\ Idle.phase = "none"
    BY DEF Idle, TurnMessages, Phases
  <2> QED BY <2>1 DEF TurnInit, TurnInv, TurnTyped, Dialogue, NoReviewIsSkipped, NoUnfoundedClaim
<1> QED BY <1>1, TurnInvStep, PTL DEF TurnSpec

\* What the newskill dialogue and write_skill put into a skill's files was asked for
\* and reviewed twice; what else is there, write_file put there.
THEOREM ReviewsAreNotSkipped == TurnSpec => []NoReviewIsSkipped
  BY TurnInvariant, PTL DEF TurnInv

\* Nobody who asks to send funds is told of a transfer no tool was called for.
THEOREM ClaimsAreFounded == TurnSpec => []NoUnfoundedClaim
  BY TurnInvariant, PTL DEF TurnInv

-----------------------------------------------------------------------------
(* The turn and the store are in step.                                     *)

Said(m) == m.text \in Texts \cup {""} /\ m.rounds \in 0..MaxToolRounds

\* A message of this phase and origin goes with a store in this state.
Placed(m, p) ==
  /\ (p = "thinking") <=>
       (\/ m.phase \in {"orchestrate", "planner", "loop", "append"}
        \/ m.by = "tool" /\ m.phase \in {"security", "feasibility", "persist"})
  /\ (p \notin {"idle", "thinking"}) <=> (m.phase = "store")

InStep(u) == Said(msg[u]) /\ Placed(msg[u], pc[u])

InStepInv == setting \in Settings /\ \A u \in Users : InStep(u)

LEMMA SaidMore ==
  ASSUME NEW m, NEW n, Said(m), n.text = m.text
  PROVE  /\ n.rounds = m.rounds => Said(n)
         /\ n.rounds = m.rounds + 1 /\ m.rounds < MaxToolRounds => Said(n)
<1>1. MaxToolRounds \in Nat BY TurnAssumption
<1>2. \A k \in 0..MaxToolRounds : k < MaxToolRounds => k + 1 \in 0..MaxToolRounds
  BY <1>1
<1> QED BY <1>2 DEF Said

\* What a step does to the message of its own session.
LEMMA MessageParts ==
  ASSUME TurnTyped, NEW u \in Users
  PROVE  /\ \A to : To(u, to) =>
              /\ msg'[u].phase = to /\ msg'[u].text = msg[u].text /\ msg'[u].rounds = msg[u].rounds
              /\ msg'[u].by = msg[u].by
              /\ \A v \in Users : v # u => msg'[v] = msg[v]
         /\ Replies(u) =>
              /\ msg'[u] = Idle /\ \A v \in Users : v # u => msg'[v] = msg[v]
         /\ \A called \in BOOLEAN : NextRound(u, called) =>
              /\ msg[u].rounds < MaxToolRounds /\ pc' = pc
              /\ msg'[u].phase = msg[u].phase /\ msg'[u].text = msg[u].text
              /\ msg'[u].rounds = msg[u].rounds + 1 /\ msg'[u].by = msg[u].by
              /\ \A v \in Users : v # u => msg'[v] = msg[v]
         /\ \A claims \in BOOLEAN : Answer(u, claims) =>
              /\ pc' = pc
              /\ msg'[u].phase = "append" /\ msg'[u].text = msg[u].text /\ msg'[u].rounds = msg[u].rounds
              /\ msg'[u].by = msg[u].by
              /\ \A v \in Users : v # u => msg'[v] = msg[v]
<1>0. msg \in [Users -> TurnMessages] /\ msg[u] \in TurnMessages BY DEF TurnTyped
<1>1. ASSUME NEW to, To(u, to)
      PROVE  /\ msg'[u].phase = to /\ msg'[u].text = msg[u].text /\ msg'[u].rounds = msg[u].rounds
             /\ msg'[u].by = msg[u].by
             /\ \A v \in Users : v # u => msg'[v] = msg[v]
  BY <1>0, <1>1 DEF To, TurnMessages
<1>2. Replies(u) => msg'[u] = Idle /\ \A v \in Users : v # u => msg'[v] = msg[v]
  BY <1>0 DEF Replies
<1>3. ASSUME NEW called \in BOOLEAN, NextRound(u, called)
      PROVE  /\ msg[u].rounds < MaxToolRounds /\ pc' = pc
             /\ msg'[u].phase = msg[u].phase /\ msg'[u].text = msg[u].text
             /\ msg'[u].rounds = msg[u].rounds + 1 /\ msg'[u].by = msg[u].by
             /\ \A v \in Users : v # u => msg'[v] = msg[v]
  BY <1>0, <1>3 DEF NextRound, TurnMessages, vars
<1>4. ASSUME NEW claims \in BOOLEAN, Answer(u, claims)
      PROVE  /\ pc' = pc
             /\ msg'[u].phase = "append" /\ msg'[u].text = msg[u].text /\ msg'[u].rounds = msg[u].rounds
             /\ msg'[u].by = msg[u].by
             /\ \A v \in Users : v # u => msg'[v] = msg[v]
  BY <1>0, <1>4 DEF Answer, TurnMessages, vars
<1> QED BY <1>1, <1>2, <1>3, <1>4

\* One step of a session's turn keeps that session's turn in step.
LEMMA OwnInStep ==
  ASSUME StoreTyped, TurnTyped, NEW u \in Users, InStep(u),
         \/ Receive(u) \/ TakeSkillContent(u) \/ StartSkillDialogue(u)
         \/ SecurityCheck(u) \/ FeasibilityCheck(u) \/ WriteSkill(u)
         \/ ClearSession(u) \/ OtherCommand(u) \/ LoadSession(u)
         \/ Orchestrate(u) \/ TryWalletPlanner(u)
         \/ CallTools(u) \/ CallWriteFile(u) \/ CallWriteSkill(u) \/ FinalText(u) \/ GiveUp(u)
         \/ RecordExchange(u)
  PROVE  InStep(u)' /\ \A v \in Users : v # u => pc'[v] = pc[v] /\ msg'[v] = msg[v]
<1> DEFINE Others == \A v \in Users : v # u => pc'[v] = pc[v] /\ msg'[v] = msg[v]
<1>0. msg \in [Users -> TurnMessages] /\ msg[u] \in TurnMessages BY DEF TurnTyped
<1>p. pc \in [Users -> StorePCs] BY DEF StoreTyped
<1>m. MaxToolRounds \in Nat BY TurnAssumption
<1>i. Said(Idle) /\ Placed(Idle, "idle") BY <1>m DEF Idle, Said, Placed
\* A step that keeps the text and the rounds.
<1>s. ASSUME msg'[u].text = msg[u].text, msg'[u].rounds = msg[u].rounds PROVE Said(msg'[u])
  BY <1>s, SaidMore DEF InStep
\* The reply ends the turn.
<1>r. ASSUME Replies(u), pc'[u] = "idle", \A v \in Users : v # u => pc'[v] = pc[v] PROVE InStep(u)' /\ Others
  <2>1. msg'[u] = Idle /\ \A v \in Users : v # u => msg'[v] = msg[v] BY <1>r, MessageParts
  <2> QED BY <1>i, <1>r, <2>1 DEF InStep
<1>u. UNCHANGED vars => pc' = pc BY DEF vars
<1>e. RepliesUnrecorded(u) => Replies(u) /\ pc'[u] = "idle" /\ \A v \in Users : v # u => pc'[v] = pc[v]
  BY <1>p DEF RepliesUnrecorded, TurnEndsSilently, Goto
\* A step that only moves the turn on.
<1>t. ASSUME NEW to, To(u, to), \A v \in Users : v # u => pc'[v] = pc[v],
             \A by : by = msg[u].by => Placed([phase |-> to, by |-> by], pc'[u])
      PROVE  InStep(u)' /\ Others
  <2>1. /\ msg'[u].phase = to /\ msg'[u].text = msg[u].text /\ msg'[u].rounds = msg[u].rounds
        /\ msg'[u].by = msg[u].by
        /\ \A v \in Users : v # u => msg'[v] = msg[v]
    BY <1>t, MessageParts
  <2>2. Placed(msg'[u], pc'[u]) BY <1>t, <2>1 DEF Placed
  <2> QED BY <1>s, <1>t, <2>1, <2>2 DEF InStep
\* The transcript is still being worked on.
<1>o. ASSUME ToStore(u), pc'[u] \notin {"idle", "thinking"}, \A v \in Users : v # u => pc'[v] = pc[v]
      PROVE  InStep(u)' /\ Others
  <2>1. /\ msg'[u].phase = "store" /\ msg'[u].text = Idle.text /\ msg'[u].rounds = Idle.rounds
        /\ \A v \in Users : v # u => msg'[v] = msg[v]
    BY <1>0, <1>o DEF ToStore, Idle
  <2>2. Said(msg'[u]) BY <1>i, <2>1, SaidMore
  <2>3. Placed(msg'[u], pc'[u]) BY <1>o, <2>1 DEF Placed
  <2> QED BY <1>o, <2>1, <2>2, <2>3 DEF InStep
<1>1. CASE Receive(u)
  <2>1. PICK text \in Texts : msg' = [msg EXCEPT ![u] = [Idle EXCEPT !.phase = "received", !.text = text]]
    BY <1>1 DEF Receive
  <2>2. msg'[u].phase = "received" /\ msg'[u].text = text /\ msg'[u].rounds = 0
        /\ \A v \in Users : v # u => msg'[v] = msg[v]
    BY <1>0, <2>1 DEF Idle
  <2>3. pc' = pc /\ pc[u] = "idle" BY <1>1, <1>u DEF Receive
  <2>4. 0 \in 0..MaxToolRounds BY <1>m
  <2>6. Said(msg'[u]) BY <2>2, <2>4, Zenon DEF Said
  <2>5. Placed(msg'[u], pc'[u]) BY <2>2, <2>3 DEF Placed
  <2> QED BY <2>2, <2>3, <2>5, <2>6 DEF InStep
<1>2. CASE TakeSkillContent(u)
  <2>1. pc' = pc /\ pc[u] = "idle" BY <1>2, <1>u, <1>p DEF TakeSkillContent, RepliesAtOnce, In, InStep, Placed, StorePCs
  <2>2. CASE Replies(u) BY <1>r, <2>1, <2>2
  <2>3. CASE msg' = [msg EXCEPT ![u] = [@ EXCEPT
             !.phase = "security", !.by = "dialogue", !.passed = IF prior[u] THEN {"asked"} ELSE {}]]
    <3>1. /\ msg'[u].phase = "security" /\ msg'[u].by = "dialogue" /\ msg'[u].text = msg[u].text
          /\ msg'[u].rounds = msg[u].rounds
          /\ \A v \in Users : v # u => msg'[v] = msg[v]
      BY <1>0, <2>3 DEF TurnMessages
    <3>2. Placed(msg'[u], pc'[u]) BY <2>1, <3>1 DEF Placed
    <3> QED BY <1>s, <2>1, <3>1, <3>2 DEF InStep
  <2> QED BY <1>2, <2>2, <2>3 DEF TakeSkillContent, RepliesAtOnce
<1>3. CASE StartSkillDialogue(u) \/ OtherCommand(u)
  <2>1. pc' = pc /\ pc[u] = "idle"
    BY <1>3, <1>u, <1>p DEF StartSkillDialogue, OtherCommand, RepliesAtOnce, In, InStep, Placed, StorePCs
  <2>2. CASE Replies(u) BY <1>r, <2>1, <2>2
  <2>3. CASE To(u, "command")
    <3>1. \A by : Placed([phase |-> "command", by |-> by], pc'[u]) BY <2>1 DEF Placed
    <3> QED BY <1>t, <2>1, <2>3, <3>1
  <2> QED BY <1>3, <2>2, <2>3 DEF StartSkillDialogue, OtherCommand, RepliesAtOnce
\* Only the tool's dialogue holds a transcript.
<1>d. ASSUME SkillDone(u), msg[u].phase \in {"security", "feasibility", "persist"} PROVE InStep(u)' /\ Others
  <2>1. CASE msg[u].by = "dialogue" /\ RepliesAtOnce(u)
    <3>1. pc' = pc /\ pc[u] = "idle" BY <1>d, <2>1, <1>u, <1>p DEF RepliesAtOnce, InStep, Placed, StorePCs
    <3> QED BY <1>r, <2>1, <3>1 DEF RepliesAtOnce
  <2>2. CASE /\ msg[u].by = "tool" /\ UNCHANGED vars
             /\ msg' = [msg EXCEPT ![u] = [@ EXCEPT !.phase = "loop", !.by = "", !.passed = {}, !.file = 0]]
    <3>1. pc' = pc /\ pc[u] = "thinking" BY <1>d, <2>2, <1>u DEF InStep, Placed
    <3>2. /\ msg'[u].phase = "loop" /\ msg'[u].text = msg[u].text /\ msg'[u].rounds = msg[u].rounds
          /\ \A v \in Users : v # u => msg'[v] = msg[v]
      BY <1>0, <2>2 DEF TurnMessages
    <3>3. Placed(msg'[u], pc'[u]) BY <3>1, <3>2 DEF Placed
    <3> QED BY <1>s, <3>1, <3>2, <3>3 DEF InStep
  <2> QED BY <1>d, <2>1, <2>2 DEF SkillDone
<1>4. ASSUME NEW check \in {"security", "feasibility"}, NEW next \in {"feasibility", "persist"},
             Review(u, check, next)
      PROVE  InStep(u)' /\ Others
  <2>1. msg[u].phase = check BY <1>4 DEF Review, In
  <2>2. CASE msg' = [msg EXCEPT ![u].phase = next, ![u].passed = @ \cup {check}] /\ UNCHANGED vars
    <3>1. /\ msg'[u].phase = next /\ msg'[u].by = msg[u].by /\ msg'[u].text = msg[u].text
          /\ msg'[u].rounds = msg[u].rounds
          /\ \A v \in Users : v # u => msg'[v] = msg[v]
      BY <1>0, <2>2 DEF TurnMessages
    <3>2. pc' = pc BY <1>u, <2>2
    <3>3. Placed(msg'[u], pc'[u]) BY <2>1, <3>1, <3>2 DEF InStep, Placed
    <3> QED BY <1>s, <3>1, <3>2, <3>3 DEF InStep
  <2> QED BY <1>d, <1>4, <2>1, <2>2 DEF Review
<1>5. CASE WriteSkill(u)
  <2>1. msg[u].phase = "persist" BY <1>5 DEF WriteSkill, In
  <2>2. CASE SkillDone(u) BY <1>d, <2>1, <2>2
  <2>3. CASE msg' = [msg EXCEPT ![u].file = msg[u].file + 1] /\ UNCHANGED vars
    <3>1. /\ msg'[u].phase = msg[u].phase /\ msg'[u].by = msg[u].by /\ msg'[u].text = msg[u].text
          /\ msg'[u].rounds = msg[u].rounds
          /\ \A v \in Users : v # u => msg'[v] = msg[v]
      BY <1>0, <2>3 DEF TurnMessages
    <3>2. pc' = pc BY <1>u, <2>3
    <3>3. Placed(msg'[u], pc'[u]) BY <3>1, <3>2 DEF InStep, Placed
    <3> QED BY <1>s, <3>1, <3>2, <3>3 DEF InStep
  <2> QED BY <1>5, <2>2, <2>3 DEF WriteSkill
<1>6. CASE ClearSession(u)
  <2>1. pc'[u] \in {"idle", "clear"} /\ \A v \in Users : v # u => pc'[v] = pc[v]
    BY <1>6, <1>p DEF ClearSession, Clear, ClearFails, Goto
  <2>2. CASE pc'[u] = "idle" /\ Replies(u) BY <1>r, <2>1, <2>2
  <2>3. CASE pc'[u] # "idle" /\ ToStore(u) BY <1>o, <2>1, <2>3
  <2> QED BY <1>6, <2>2, <2>3 DEF ClearSession
<1>7. CASE LoadSession(u)
  <2>1. pc'[u] = "thinking" /\ \A v \in Users : v # u => pc'[v] = pc[v]
    BY <1>7, <1>p DEF LoadSession, Load, Goto
  <2>2. To(u, "orchestrate") BY <1>7 DEF LoadSession
  <2>3. \A by : Placed([phase |-> "orchestrate", by |-> by], pc'[u]) BY <2>1 DEF Placed
  <2> QED BY <1>t, <2>1, <2>2, <2>3
<1>a. ASSUME pc[u] = "thinking", NEW claims \in BOOLEAN, Answer(u, claims) PROVE InStep(u)' /\ Others
  <2>1. /\ pc' = pc
        /\ msg'[u].phase = "append" /\ msg'[u].text = msg[u].text /\ msg'[u].rounds = msg[u].rounds
        /\ msg'[u].by = msg[u].by
        /\ \A v \in Users : v # u => msg'[v] = msg[v]
    BY <1>a, MessageParts
  <2>2. Placed(msg'[u], pc'[u]) BY <1>a, <2>1 DEF Placed
  <2> QED BY <1>s, <2>1, <2>2 DEF InStep
<1>8. CASE Orchestrate(u) \/ TryWalletPlanner(u) \/ GiveUp(u)
  <2>1. pc[u] = "thinking" BY <1>8 DEF Orchestrate, TryWalletPlanner, GiveUp, In, InStep, Placed
  <2>2. CASE RepliesUnrecorded(u) BY <1>e, <1>r, <2>2
  <2>3. CASE Answer(u, FALSE) BY <1>a, <2>1, <2>3
  <2>4. CASE (To(u, "planner") \/ To(u, "loop")) /\ UNCHANGED vars
    <3>1. pc' = pc BY <1>u, <2>4
    <3>2. \A by : Placed([phase |-> "planner", by |-> by], pc'[u]) /\ Placed([phase |-> "loop", by |-> by], pc'[u])
      BY <2>1, <3>1 DEF Placed
    <3> QED BY <1>t, <2>4, <3>1, <3>2
  <2> QED BY <1>8, <2>2, <2>3, <2>4 DEF Orchestrate, TryWalletPlanner, GiveUp
<1>9. CASE CallTools(u) \/ CallWriteFile(u) \/ FinalText(u)
  <2>1. msg[u].phase = "loop" BY <1>9 DEF CallTools, CallWriteFile, FinalText, In
  <2>2. ASSUME NEW called \in BOOLEAN, NextRound(u, called) PROVE InStep(u)' /\ Others
    <3>1. /\ msg[u].rounds < MaxToolRounds /\ pc' = pc
          /\ msg'[u].phase = msg[u].phase /\ msg'[u].text = msg[u].text
          /\ msg'[u].rounds = msg[u].rounds + 1 /\ msg'[u].by = msg[u].by
          /\ \A v \in Users : v # u => msg'[v] = msg[v]
      BY <2>2, MessageParts
    <3>2. Said(msg'[u]) BY <3>1, SaidMore DEF InStep
    <3>3. Placed(msg'[u], pc'[u]) BY <3>1 DEF InStep, Placed
    <3> QED BY <3>1, <3>2, <3>3 DEF InStep
  <2>4. pc[u] = "thinking" BY <2>1 DEF InStep, Placed
  <2>3. ASSUME NEW claims \in BOOLEAN, Answer(u, claims) PROVE InStep(u)' /\ Others
    BY <1>a, <2>3, <2>4
  <2> QED BY <1>9, <2>2, <2>3 DEF CallTools, CallWriteFile, FinalText
<1>10. CASE CallWriteSkill(u)
  <2>1. /\ msg'[u].phase = "security" /\ msg'[u].by = "tool" /\ msg'[u].text = msg[u].text
        /\ msg'[u].rounds = msg[u].rounds + 1
        /\ \A v \in Users : v # u => msg'[v] = msg[v]
    BY <1>0, <1>10 DEF CallWriteSkill, TurnMessages
  <2>2. pc' = pc /\ pc[u] = "thinking" /\ msg[u].rounds < MaxToolRounds
    BY <1>10, <1>u DEF CallWriteSkill, In, InStep, Placed
  <2>3. Said(msg'[u]) BY <2>1, <2>2, SaidMore DEF InStep
  <2>4. Placed(msg'[u], pc'[u]) BY <2>1, <2>2 DEF Placed
  <2> QED BY <2>1, <2>2, <2>3, <2>4 DEF InStep
<1>11. CASE RecordExchange(u)
  <2>1. pc'[u] \in StorePCs \ {"thinking"} /\ \A v \in Users : v # u => pc'[v] = pc[v]
    BY <1>11, <1>p DEF RecordExchange, AppendStarts, CopyCreates, CopyWrites, CopyFails, RemoveOld, EncodeUser,
                       EncodeAssistant, EncodeFails, ClearOld, Goto, StorePCs
  <2>2. CASE pc'[u] = "idle" /\ Replies(u) BY <1>r, <2>1, <2>2
  <2>3. CASE pc'[u] # "idle" /\ ToStore(u) BY <1>o, <2>1, <2>3
  <2> QED BY <1>11, <2>2, <2>3 DEF RecordExchange
<1> QED BY <1>1, <1>2, <1>3, <1>4, <1>5, <1>6, <1>7, <1>8, <1>9, <1>10, <1>11
        DEF SecurityCheck, FeasibilityCheck

LEMMA InStepStep == StoreTyped /\ TurnTyped /\ InStepInv /\ [TurnNext]_allVars => InStepInv'
<1> SUFFICES ASSUME StoreTyped, TurnTyped, InStepInv, [TurnNext]_allVars PROVE InStepInv'
  OBVIOUS
<1>1. setting' = setting
  BY DEF TurnNext, allVars, turnVars, Receive, TakeSkillContent, StartSkillDialogue, SecurityCheck, FeasibilityCheck,
         Review, WriteSkill, ClearSession, OtherCommand, LoadSession, Orchestrate, TryWalletPlanner, CallTools,
         CallWriteFile, CallWriteSkill, FinalText, GiveUp, RecordExchange, ProcessCrash
<1> SUFFICES ASSUME NEW v \in Users PROVE InStep(v)'
  BY <1>1 DEF InStepInv
<1>2. \A u \in Users : InStep(u) BY DEF InStepInv
<1>3. ASSUME NEW u \in Users, pc'[u] = pc[u], msg'[u] = msg[u] PROVE InStep(u)'
  BY <1>2, <1>3 DEF InStep
<1>4. CASE ProcessCrash
  <2>1. pc'[v] = "idle" /\ msg'[v] = Idle BY <1>4 DEF ProcessCrash, Crash
  <2>2. MaxToolRounds \in Nat BY TurnAssumption
  <2>3. Said(Idle) /\ Placed(Idle, "idle") BY <2>2 DEF Idle, Said, Placed
  <2> QED BY <2>1, <2>3 DEF InStep
<1>5. CASE UNCHANGED allVars
  BY <1>3, <1>5 DEF allVars, vars, turnVars
<1>6. CASE TurnNext
  <2>1. ASSUME NEW u \in Users, ~ProcessCrash,
         \/ Receive(u) \/ TakeSkillContent(u) \/ StartSkillDialogue(u)
         \/ SecurityCheck(u) \/ FeasibilityCheck(u) \/ WriteSkill(u)
         \/ ClearSession(u) \/ OtherCommand(u) \/ LoadSession(u)
         \/ Orchestrate(u) \/ TryWalletPlanner(u)
         \/ CallTools(u) \/ CallWriteFile(u) \/ CallWriteSkill(u) \/ FinalText(u) \/ GiveUp(u)
         \/ RecordExchange(u)
        PROVE InStep(v)'
    <3>1. InStep(u)' /\ \A w \in Users : w # u => pc'[w] = pc[w] /\ msg'[w] = msg[w]
      BY <1>2, <2>1, OwnInStep
    <3> QED BY <1>3, <3>1
  <2> QED BY <1>4, <1>6, <2>1 DEF TurnNext
<1> QED BY <1>5, <1>6

\* Every message is handled with the transcript its phase needs: loaded before anyone
\* answers it, and its files touched only while it records or clears.
THEOREM TurnAndStoreInStep == TurnSpec => []TurnTypeOK
<1>1. TurnInit => InStepInv
  <2> SUFFICES ASSUME TurnInit PROVE InStepInv
    OBVIOUS
  <2>1. MaxToolRounds \in Nat BY TurnAssumption
  <2>2. Said(Idle) /\ Placed(Idle, "idle") BY <2>1 DEF Idle, Said, Placed
  <2> QED BY <2>2 DEF TurnInit, Init, InStepInv, InStep
<1>2. StoreInv /\ TurnInv => StoreTyped /\ TurnTyped BY DEF StoreInv, TurnInv
<1>3. TurnSpec => []InStepInv
  BY <1>1, <1>2, InStepStep, StoreInvariant, TurnsUseTheStore, TurnInvariant, PTL DEF TurnSpec
<1>4. TurnSpec => []Keeping
  BY KeptInit, KeptStep, StoreInvariant, TurnsUseTheStore, PTL DEF Spec
<1>5. StoreInv /\ Keeping /\ TurnInv /\ InStepInv => TurnTypeOK
  <2> SUFFICES ASSUME StoreInv, Keeping, TurnInv, InStepInv PROVE TurnTypeOK
    OBVIOUS
  <2>1. TypeOK
    <3>1. StoreTyped /\ SaidTyped BY DEF StoreInv, Keeping
    <3> QED BY <3>1 DEF StoreTyped, StorePCs, SaidTyped, TypeOK
  <2>2. \A u \in Users : msg[u] \in TurnMessages BY DEF TurnInv, TurnTyped
  <2>3. \A m \in TurnMessages : m.phase \in Phases BY DEF TurnMessages
  <2> QED BY <2>1, <2>2, <2>3 DEF TurnTypeOK, InStepInv, InStep, Said, Placed, TurnInv, TurnTyped
<1> QED BY <1>3, <1>4, <1>5, StoreInvariant, TurnsUseTheStore, TurnInvariant, PTL

-----------------------------------------------------------------------------
(* Compaction.                                                             *)

LEMMA GreatestIsMax ==
  ASSUME NEW S \in SUBSET Nat, S # {}, NEW n \in Nat, \A s \in S : s <= n
  PROVE  Max(S) \in S /\ \A s \in S : s <= Max(S)
<1> DEFINE gaps == {n - s : s \in S}
<1>1. \A s \in S : n - s \in Nat
  OBVIOUS
<1>2. gaps \subseteq Nat /\ gaps # {}
  BY <1>1
<1> DEFINE less == {p \in Nat \X Nat : p[1] < p[2]}
<1>3. IsWellFoundedOn(less, Nat)
  BY NatLessThanWellFounded, SMT DEF OpToRel
<1>4. PICK g \in gaps : \A h \in gaps : <<h, g>> \notin less
  <2> HIDE DEF gaps, less
  <2> QED BY <1>2, <1>3, WFMin
<1>5. \A h \in gaps : g <= h
  <2> SUFFICES ASSUME NEW h \in gaps, h < g PROVE FALSE
    BY <1>2
  <2> HIDE DEF gaps
  <2>1. <<h, g>> \in less
    BY <1>2
  <2> QED BY <1>4, <2>1
<1>6. PICK m \in S : g = n - m
  OBVIOUS
<1>7. ASSUME NEW s \in S PROVE m >= s
  <2>1. n - m <= n - s
    BY <1>5, <1>6
  <2>2. m \in Nat /\ s \in Nat
    OBVIOUS
  <2> HIDE DEF gaps
  <2> QED BY <2>1, <2>2
<1>8. Max(S) \in S /\ \A s \in S : Max(S) >= s
  BY <1>7, Zenon DEF Max
<1>9. Max(S) \in Nat /\ \A s \in S : s \in Nat
  BY <1>8
<1> HIDE DEF gaps
<1> QED BY <1>8, <1>9

LEMMA TokensAreCounted ==
  ASSUME NEW msgs \in Seq(Nat)
  PROVE  EstimateTokens(msgs) \in Nat /\ (msgs = <<>> => EstimateTokens(msgs) = 0)
<1> DEFINE Of(i) == {i} \X (1..msgs[i])
           parts == {Of(i) : i \in DOMAIN msgs}
           f == [i \in DOMAIN msgs |-> Of(i)]
<1>1. /\ Len(msgs) \in Nat /\ DOMAIN msgs = 1..Len(msgs)
      /\ \A i \in DOMAIN msgs : msgs[i] \in Nat
  OBVIOUS
<1>2. IsFiniteSet(DOMAIN msgs)
  BY <1>1, FS_Interval
<1>3. f \in Surjection(DOMAIN msgs, parts)
  <2>1. f \in [DOMAIN msgs -> parts]
    OBVIOUS
  <2>2. \A t \in parts : \E i \in DOMAIN msgs : f[i] = t
    OBVIOUS
  <2> HIDE DEF f, parts
  <2> QED BY <2>1, <2>2 DEF Surjection
<1>4. IsFiniteSet(parts)
  <2> HIDE DEF f, parts
  <2> QED BY <1>2, <1>3, FS_Surjection
<1>5. \A t \in parts : IsFiniteSet(t)
  <2> SUFFICES ASSUME NEW i \in DOMAIN msgs PROVE IsFiniteSet(Of(i))
    OBVIOUS
  <2>1. IsFiniteSet(1..msgs[i])
    BY <1>1, FS_Interval
  <2>2. IsFiniteSet({i})
    BY FS_Singleton
  <2> QED BY <2>1, <2>2, FS_Product
<1>6. EstimateTokens(msgs) = Cardinality(UNION parts)
  BY DEF EstimateTokens
<1>7. msgs = <<>> => UNION parts = {}
  OBVIOUS
<1>8. IsFiniteSet(UNION parts)
  <2> HIDE DEF parts
  <2> QED BY <1>4, <1>5, FS_UNION
<1> HIDE DEF parts
<1> QED BY <1>6, <1>7, <1>8, FS_CardinalityType, FS_EmptySet

LEMMA Ends ==
  ASSUME NEW msgs \in Seq(Nat), NEW n \in 0..Len(msgs)
  PROVE  /\ After(msgs, n) \in Seq(Nat) /\ Len(After(msgs, n)) = Len(msgs) - n
         /\ \A i \in 1..(Len(msgs) - n) : After(msgs, n)[i] = msgs[n + i]
<1> DEFINE end == SubSeq(msgs, n + 1, Len(msgs))
<1>1. /\ n \in Nat /\ Len(msgs) \in Nat /\ n <= Len(msgs)
      /\ \A i \in (n + 1)..Len(msgs) : msgs[i] \in Nat
  OBVIOUS
<1>2. /\ end \in Seq(Nat)
      /\ Len(end) = IF n + 1 <= Len(msgs) THEN Len(msgs) - (n + 1) + 1 ELSE 0
      /\ \A i \in 1..(Len(msgs) - (n + 1) + 1) : end[i] = msgs[n + 1 + i - 1]
  BY <1>1, SubSeqProperties
<1> HIDE DEF end
<1>3. Len(end) = Len(msgs) - n
  BY <1>1, <1>2
<1>4. ASSUME NEW i \in 1..(Len(msgs) - n) PROVE end[i] = msgs[n + i]
  <2>1. i \in 1..(Len(msgs) - (n + 1) + 1) /\ n + 1 + i - 1 = n + i
    BY <1>1
  <2> QED BY <1>2, <2>1
<1> QED BY <1>2, <1>3, <1>4 DEF After, end

LEMMA AfterIsTheEnd ==
  ASSUME NEW msgs \in Seq(Nat), NEW n \in 0..Len(msgs)
  PROVE  /\ After(msgs, n) \in Seq(Nat) /\ Len(After(msgs, n)) = Len(msgs) - n
         /\ n = 0 => After(msgs, n) = msgs
         /\ n < Len(msgs) => After(msgs, n) # <<>> /\ Tail(After(msgs, n)) = After(msgs, n + 1)
         /\ SubSeq(msgs, 1, n) \o After(msgs, n) = msgs
<1>1. /\ Len(msgs) \in Nat /\ DOMAIN msgs = 1..Len(msgs)
      /\ \A i \in DOMAIN msgs : msgs[i] \in Nat
      /\ n \in Nat /\ n <= Len(msgs)
  OBVIOUS
<1> DEFINE end == After(msgs, n)
<1>2. /\ end \in Seq(Nat) /\ Len(end) = Len(msgs) - n
      /\ \A i \in 1..(Len(msgs) - n) : end[i] = msgs[n + i]
  BY <1>1, Ends
<1>3. n = 0 => end = msgs
  BY <1>1, <1>2, SeqEqual
<1>4. ASSUME n < Len(msgs) PROVE end # <<>> /\ Tail(end) = After(msgs, n + 1)
  <2>1. end # <<>>
    BY <1>1, <1>2, <1>4
  <2> DEFINE rest == After(msgs, n + 1)
  <2>2. /\ rest \in Seq(Nat) /\ Len(rest) = Len(msgs) - (n + 1)
        /\ \A i \in 1..(Len(msgs) - (n + 1)) : rest[i] = msgs[n + 1 + i]
    <3>1. n + 1 \in 0..Len(msgs)
      BY <1>1, <1>4
    <3> QED BY <3>1, Ends
  <2> HIDE DEF end, rest
  <2>3. /\ Tail(end) \in Seq(Nat) /\ Len(Tail(end)) = Len(end) - 1
        /\ \A i \in 1..Len(Tail(end)) : Tail(end)[i] = end[i + 1]
    BY <1>2, <2>1, HeadTailProperties
  <2>4. Len(Tail(end)) = Len(rest)
    <3>1. Len(msgs) - n - 1 = Len(msgs) - (n + 1)
      BY <1>1
    <3> QED BY <1>2, <2>2, <2>3, <3>1
  <2>5. ASSUME NEW i \in 1..Len(Tail(end)) PROVE Tail(end)[i] = rest[i]
    <3>1. /\ i \in 1..(Len(msgs) - (n + 1)) /\ i + 1 \in 1..(Len(msgs) - n)
          /\ n + (i + 1) = n + 1 + i
      BY <1>1, <1>2, <2>2, <2>3, <2>4
    <3> QED BY <1>2, <2>2, <2>3, <3>1
  <2>6. Tail(end) = rest
    BY <2>2, <2>3, <2>4, <2>5, SeqEqual
  <2> QED BY <2>1, <2>6 DEF rest
<1>5. SubSeq(msgs, 1, n) \o end = msgs
  <2> DEFINE start == SubSeq(msgs, 1, n)
  <2>1. start \in Seq(Nat) /\ Len(start) = n /\ \A i \in 1..n : start[i] = msgs[i]
    BY <1>1, SubSeqProperties
  <2> HIDE DEF start, end
  <2>2. /\ start \o end \in Seq(Nat) /\ Len(start \o end) = Len(start) + Len(end)
        /\ \A i \in 1..(Len(start) + Len(end)) :
             (start \o end)[i] = IF i <= Len(start) THEN start[i] ELSE end[i - Len(start)]
    BY <1>2, <2>1, ConcatProperties
  <2>3. Len(start \o end) = Len(msgs)
    BY <1>1, <1>2, <2>1, <2>2
  <2>4. ASSUME NEW i \in 1..Len(start \o end) PROVE (start \o end)[i] = msgs[i]
    <3>1. CASE i <= n
      BY <1>1, <1>2, <2>1, <2>2, <3>1
    <3>2. CASE i > n
      <4>1. i - n \in 1..(Len(msgs) - n) /\ n + (i - n) = i
        BY <1>1, <2>3, <3>2
      <4> QED BY <1>1, <1>2, <2>1, <2>2, <3>2, <4>1
    <3> QED BY <1>1, <3>1, <3>2
  <2>5. start \o end = msgs
    BY <2>2, <2>3, <2>4, SeqEqual
  <2> QED BY <2>5 DEF start
<1> QED BY <1>2, <1>3, <1>4, <1>5

\* Where a conversation over half the threshold is cut: after the cut, the rest fits
\* into half the threshold; with the message before it, it does not.
LEMMA SplitFits ==
  ASSUME NEW msgs \in Seq(Nat), EstimateTokens(msgs) > Threshold
  PROVE  /\ Split(msgs) \in 0..Len(msgs) /\ Split(msgs) < Len(msgs)
         /\ EstimateTokens(After(msgs, Split(msgs) + 1)) <= Threshold \div 2
         /\ EstimateTokens(After(msgs, Split(msgs))) > Threshold \div 2
<1> DEFINE half == Threshold \div 2
           over == Overflows(msgs)
<1>1. Threshold \in Nat /\ half \in Nat /\ half <= Threshold
  <2>1. Threshold \in Nat
    BY CompactionAssumption
  <2> QED BY <2>1
<1>2. Len(msgs) \in Nat /\ DOMAIN msgs = 1..Len(msgs) /\ EstimateTokens(msgs) \in Nat
  BY TokensAreCounted
<1> HIDE DEF half
<1>3. over = {i \in 1..Len(msgs) : EstimateTokens(After(msgs, i - 1)) > half}
  BY <1>2 DEF Overflows, half
<1>4. Len(msgs) >= 1
  <2>1. msgs # <<>>
    BY <1>1, <1>2, TokensAreCounted
  <2> QED BY <1>2, <2>1, EmptySeq
<1>5. 1 \in over
  <2>1. 0 \in 0..Len(msgs) /\ 1 - 1 = 0
    BY <1>2
  <2>2. After(msgs, 1 - 1) = msgs
    BY <2>1, AfterIsTheEnd
  <2>3. EstimateTokens(msgs) > half
    BY <1>1, <1>2
  <2> QED BY <1>2, <1>3, <1>4, <2>2, <2>3
<1>6. PICK k \in Nat : k = Max(over) /\ k \in over /\ \A i \in over : i <= k
  <2>1. over \in SUBSET Nat /\ \A i \in over : i <= Len(msgs)
    BY <1>2, <1>3
  <2> HIDE DEF over
  <2>2. Max(over) \in over /\ \A i \in over : i <= Max(over)
    BY <1>2, <1>5, <2>1, GreatestIsMax
  <2> QED BY <2>1, <2>2
<1>7. Split(msgs) = k - 1
  BY <1>5, <1>6 DEF Split
<1>8. k \in Nat /\ k >= 1 /\ k <= Len(msgs)
  BY <1>2, <1>3, <1>6
<1>9. EstimateTokens(After(msgs, k)) <= half
  <2>1. CASE k = Len(msgs)
    <3>1. k \in 0..Len(msgs) /\ Len(msgs) - k = 0
      BY <1>2, <2>1
    <3>2. After(msgs, k) \in Seq(Nat) /\ Len(After(msgs, k)) = 0
      BY <3>1, AfterIsTheEnd
    <3>3. After(msgs, k) = <<>>
      BY <3>2, EmptySeq
    <3>4. EstimateTokens(After(msgs, k)) = 0
      BY <3>2, <3>3, TokensAreCounted
    <3> QED BY <1>1, <3>4
  <2>2. CASE k # Len(msgs)
    <3>1. k + 1 \in 1..Len(msgs) /\ (k + 1) - 1 = k /\ ~ (k + 1 <= k) /\ k \in 0..Len(msgs)
      <4> DEFINE n == Len(msgs)
      <4>1. n \in Nat /\ k \in Nat /\ k >= 1 /\ k <= n /\ k # n
        BY <1>2, <1>8, <2>2
      <4> HIDE DEF n, over
      <4>2. k + 1 \in 1..n /\ (k + 1) - 1 = k /\ ~ (k + 1 <= k) /\ k \in 0..n
        BY <4>1
      <4> QED BY <4>2 DEF n
    <3>2. k + 1 \notin over
      BY <1>6, <3>1
    <3>3. After(msgs, k) \in Seq(Nat)
      BY <3>1, AfterIsTheEnd
    <3>4. EstimateTokens(After(msgs, k)) \in Nat
      BY <3>3, TokensAreCounted
    <3>5. ~ (EstimateTokens(After(msgs, k)) > half)
      BY <1>3, <3>1, <3>2
    <3> QED BY <1>1, <3>4, <3>5
  <2> QED BY <2>1, <2>2
<1>10. Split(msgs) \in 0..Len(msgs) /\ Split(msgs) < Len(msgs) /\ Split(msgs) + 1 = k
  BY <1>2, <1>7, <1>8
<1>11. EstimateTokens(After(msgs, Split(msgs))) > half
  BY <1>3, <1>6, <1>7
<1> QED BY <1>9, <1>10, <1>11 DEF half

CompactionInv ==
  /\ history \in Seq(Nat)
  /\ compacted => \E answer \in Answers : shown = CompactIfNeeded(history, answer)

\* Of every conversation the newest message is shown, whatever its size and the
\* LLM's answer; a summary tells of exactly the messages that are not; and messages
\* are forgotten only above the threshold and for want of a summary.
THEOREM CompactionIsExact == CompactionSpec => []CompactionSplits
<1>1. CompactionInit => CompactionInv
  BY CompactionAssumption DEF CompactionInit, CompactionInv
<1>2. CompactionInv /\ [CompactionNext]_compactionVars => CompactionInv'
  BY DEF CompactionInv, CompactionNext, Compacts, compactionVars
<1>3. CompactionInv => CompactionSplits
  <2> SUFFICES ASSUME CompactionInv, compacted
               PROVE  Newest /\ BlockFits /\ ForgetsForWantOfSummary
    BY DEF CompactionSplits
  <2>1. history \in Seq(Nat) /\ Len(history) \in Nat
    BY DEF CompactionInv
  <2>2. EstimateTokens(history) \in Nat /\ Threshold \in Nat
    BY <2>1, TokensAreCounted, CompactionAssumption
  <2>3. PICK answer \in Answers : shown = CompactIfNeeded(history, answer)
    BY DEF CompactionInv
  <2>4. history # <<>> => Len(history) > 0
    BY <2>1, EmptySeq
  <2>5. 0 \in 0..Len(history) /\ After(history, 0) = history
    BY <2>1, AfterIsTheEnd
  <2>0. ASSUME shown.old = <<>>, shown.recent = history
        PROVE  ~(Forgotten > 0)
    <3>1. Len(shown.old) = 0 /\ Len(shown.recent) = Len(history)
      BY <2>0
    <3> HIDE <2>0
    <3>2. Forgotten = 0
      BY <2>1, <3>1 DEF Forgotten
    <3> QED BY <3>2
  <2>6. CASE EstimateTokens(history) <= Threshold
    <3>1. shown.block = "" /\ shown.old = <<>> /\ shown.recent = history
      BY <2>3, <2>6 DEF CompactIfNeeded
    <3>2. ~(Forgotten > 0)
      BY <2>0, <3>1
    <3> QED BY <2>5, <3>1, <3>2 DEF Newest, BlockFits, ForgetsForWantOfSummary
  <2>7. CASE ~(EstimateTokens(history) <= Threshold) /\ answer = "failed"
    <3>1. shown.block = "" /\ shown.old = <<>> /\ shown.recent = Recent(history)
      BY <2>3, <2>7 DEF CompactIfNeeded
    <3>2. CASE Len(history) <= maxMessages
      <4>1. shown.recent = history
        BY <3>1, <3>2 DEF Recent
      <4>2. ~(Forgotten > 0)
        BY <2>0, <3>1, <4>1
      <4> QED BY <2>5, <2>7, <3>1, <4>1, <4>2 DEF Newest, BlockFits, ForgetsForWantOfSummary
    <3>3. CASE ~(Len(history) <= maxMessages)
      <4> DEFINE n == Len(history) - maxMessages
      <4>1. n \in 0..Len(history) /\ n < Len(history) /\ Len(history) - n = maxMessages
        <5>1. maxMessages \in Nat /\ maxMessages # 0
          BY CompactionAssumption
        <5> QED BY <2>1, <3>3, <5>1
      <4>2. shown.recent = After(history, n)
        BY <3>1, <3>3 DEF Recent
      <4> HIDE DEF n
      <4>3. After(history, n) # <<>> /\ Len(After(history, n)) = maxMessages
        BY <2>1, <4>1, AfterIsTheEnd
      <4> QED BY <2>7, <3>1, <4>1, <4>2, <4>3 DEF Newest, BlockFits, ForgetsForWantOfSummary
    <3> QED BY <3>2, <3>3
  <2>8. CASE ~(EstimateTokens(history) <= Threshold) /\ answer # "failed"
    <3> DEFINE n == Split(history)
    <3>1. /\ shown.block = Block(answer) /\ shown.recent = After(history, n)
          /\ shown.old = IF answer = "summary" THEN SubSeq(history, 1, n) ELSE <<>>
      BY <2>3, <2>8 DEF CompactIfNeeded
    <3>2. EstimateTokens(history) > Threshold
      BY <2>2, <2>8
    <3>3. /\ n \in 0..Len(history) /\ n < Len(history)
          /\ EstimateTokens(After(history, n + 1)) <= Threshold \div 2
          /\ EstimateTokens(After(history, n)) > Threshold \div 2
      BY <2>1, <3>2, SplitFits
    <3> HIDE DEF n
    <3>4. /\ After(history, n) # <<>> /\ Tail(After(history, n)) = After(history, n + 1)
          /\ SubSeq(history, 1, n) \o After(history, n) = history
      BY <2>1, <3>3, AfterIsTheEnd
    <3>5. /\ shown.block # ""
          /\ shown.block = "summary" <=> answer = "summary"
      BY <2>3, <2>8, <3>1 DEF Answers, Block
    <3>6. Newest
      BY <3>1, <3>3, <3>4 DEF Newest
    <3>7. BlockFits
      BY <3>1, <3>3, <3>4 DEF BlockFits
    <3>8. ForgetsForWantOfSummary
      BY <2>8, <3>1, <3>4, <3>5 DEF ForgetsForWantOfSummary
    <3> QED BY <3>6, <3>7, <3>8
  <2> QED BY <2>6, <2>7, <2>8
<1> QED BY <1>1, <1>2, <1>3, PTL DEF CompactionSpec
=============================================================================
