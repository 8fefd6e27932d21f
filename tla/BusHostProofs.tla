---------------------------- MODULE BusHostProofs ----------------------------
(***************************************************************************)
(* Theorems about BusHost, for any number of tasks, slaves, slots, values  *)
(* and polls and any bounds.                                               *)
(***************************************************************************)
EXTENDS BusHost, SequenceTheorems, TLAPS

AfterPick == {"code", "body", "copy", "enable", "before", "write", "after", "raise", "release"}
               \cup Waiting

\* What each program point knows of its task's variables.
PointOK(t) ==
  /\ pc[t] # "idle" => cmd[t] \in Commands
  /\ pc[t] = "setid" => ix[t] \in 1..IdLen
  /\ pc[t] \in {"fill", "flag", "take"} => ix[t] \in Slots
  /\ pc[t] \in AfterPick => ix[t] \in Slots \cup {0}
  /\ pc[t] = "copy" => sendbuf # <<>>
  /\ pc[t] = "body" => sendbuf # <<>>
  /\ pc[t] \in {"enable", "before", "write"} => out[t] # <<>>
  /\ pc[t] = "delay" => polls[t] > 0

TInv == TypeOK /\ \A t \in Tasks : PointOK(t)

\* What holds of a command that has the bus to itself.
AloneQueue(t) ==
  /\ pc[t] \in {"setid", "find", "fill", "flag"} => \A s \in Slots : ~queue_flag[s]
  /\ pc[t] = "flag" => valueu[ix[t]] = cmd[t].val
  /\ pc[t] = "sync" => \E s \in Slots : /\ queue_flag[s] /\ valueu[s] = cmd[t].val
                                        /\ \A r \in Slots : queue_flag[r] => r = s
  /\ pc[t] \in {"take", "code", "body"} => ix[t] \in Slots /\ valueu[ix[t]] = cmd[t].val

AloneFrame(t) ==
  /\ pc[t] = "setid" => \A i \in 1..(ix[t] - 1) : slave_id[i] = Parsed(cmd[t].word)[i]
  /\ pc[t] \notin {"idle", "setid"} => slave_id = Parsed(cmd[t].word)
  /\ pc[t] = "body" => sendbuf = <<HeadPart(Parsed(cmd[t].word))>>
  /\ pc[t] = "copy" => sendbuf = <<HeadPart(Parsed(cmd[t].word)), BodyPart(Write, cmd[t].val)>>
  /\ pc[t] \in {"enable", "before"} =>
       out[t] = <<HeadPart(Parsed(cmd[t].word)), BodyPart(Write, cmd[t].val)>>
  /\ pc[t] = "write" =>
       \/ out[t] = <<HeadPart(Parsed(cmd[t].word)), BodyPart(Write, cmd[t].val)>>
       \/ /\ out[t] = <<BodyPart(Write, cmd[t].val)>>
          /\ line \in {<<>>, <<HeadPart(Parsed(cmd[t].word))>>}

AloneAnswered(t) ==
  /\ pc[t] \in {"wait", "delay", "check"} /\ send_flag = 0 => ack # {}
  /\ Succeeds(t) => ack # {}

\* ... and began on a quiet line, with an identifier that is read as it is meant.
QuietAnswers(t) ==
  /\ \A i \in 1..Len(air) : t \in done
  /\ \A i \in 1..Len(rxbuf) : rxbuf[i] # Junk => t \in done
  /\ pc[t] \in Waiting \cup {"release"} /\ ack # {} => t \in done

AloneOK(t) ==
  /\ AloneQueue(t) /\ AloneFrame(t) /\ AloneAnswered(t)
  /\ t \in quiet /\ ReadRight(cmd[t].word) => QuietAnswers(t)

Solitary == \A t \in alone : pc[t] # "idle" /\ \A u \in Tasks \ {t} : pc[u] = "idle"

AloneInv == Solitary /\ \A t \in alone : AloneOK(t)

IInv == TInv /\ FlagHasWaiter /\ AloneInv

-----------------------------------------------------------------------------
(* Lemmas about parts and sequences.                                       *)

\* Two digits make a byte.
LEMMA PairType ==
  ASSUME NEW w \in Seq(Digits), NEW k \in Nat, 1 <= k, 2 * k <= Len(w)
  PROVE  Pair(w, k) \in Bytes
  <1>1. 2 * k - 1 \in 1..Len(w) /\ 2 * k \in 1..Len(w)
    BY LenProperties
  <1>2. w[2 * k - 1] \in Digits /\ w[2 * k] \in Digits
    BY <1>1, ElementOfSeq
  <1>3. \A a, b \in Digits : 16 * a + b \in Bytes
    BY DEF Digits, Bytes
  <1>4. QED  BY <1>2, <1>3 DEF Pair

\* What is read from a word is an identifier.
LEMMA ParsedType ==
  ASSUME NEW w \in Words
  PROVE  Parsed(w) \in Ids
  <1>1. w \in Seq(Digits) /\ Len(w) \in Nat
    BY WordAssumption, LenProperties
  <1>2. CASE Lora
    <2>1. \A k \in 1..IdLen : Pair(w, k) \in Bytes
      <3>1. Len(w) = 2 * IdLen
        BY <1>2, WordAssumption
      <3>2. TAKE k \in 1..IdLen
      <3>3. k \in Nat /\ 1 <= k /\ 2 * k <= Len(w)
        BY <3>1, BusAssumption
      <3>4. QED  BY <1>1, <3>3, PairType
    <2>2. QED  BY <1>2, <2>1 DEF Parsed, LoraId, Ids
  <1>3. CASE ~Lora
    <2>1. IdLen = 1 /\ Len(w) \in {1, 2}
      BY <1>3, WordAssumption
    <2>2. w[1] \in Digits
      <3>1. 1 \in 1..Len(w)
        BY <2>1
      <3>2. QED  BY <1>1, <3>1, ElementOfSeq
    <2>3. (IF Len(w) = 1 THEN w[1] ELSE 16 * w[1]) \in Bytes
      BY <2>2 DEF Digits, Bytes
    <2>4. QED  BY <1>3, <2>1, <2>3 DEF Parsed, Rs485Id, Ids
  <1>4. QED  BY <1>2, <1>3

\* A word of one digit, one that ends in 0 and every word of "lora send" is
\* read as it is meant.
LEMMA ReadAsMeant ==
  ASSUME NEW w \in Words, ReadRight(w)
  PROVE  Parsed(w) = Meant(w)
  <1>1. w \in Seq(Digits) /\ Len(w) \in Nat
    BY WordAssumption, LenProperties
  <1>2. CASE Lora
    <2>1. Len(w) = 2 * IdLen /\ Len(w) # 1
      BY <1>2, WordAssumption, BusAssumption
    <2>2. QED  BY <1>2, <2>1 DEF Parsed, LoraId, Meant
  <1>3. CASE ~Lora /\ Len(w) = 1
    BY <1>3 DEF Parsed, Rs485Id, Meant
  <1>4. CASE ~Lora /\ Len(w) = 2 /\ w[2] = 0
    <2>1. IdLen = 1
      BY <1>4, WordAssumption
    <2>2. w[1] \in Digits
      BY <1>1, <1>4, ElementOfSeq
    <2>3. Pair(w, 1) = 16 * w[1]
      BY <1>4, <2>2 DEF Pair, Digits
    <2>4. \A k \in 1..1 : Pair(w, k) = 16 * w[1]
      <3>1. \A k \in 1..1 : k = 1
        OBVIOUS
      <3>2. QED  BY <2>3, <3>1
    <2>5. QED  BY <1>4, <2>1, <2>4 DEF Parsed, Rs485Id, Meant
  <1>5. QED  BY <1>2, <1>3, <1>4, WordAssumption DEF ReadRight

\* Parts have the types that the frame buffers expect.
LEMMA PartTypes ==
  /\ \A id \in Ids : HeadPart(id) \in [part : {1}, id : Ids]
  /\ [part : {1}, id : Ids] \subseteq ReqParts
  /\ \A f \in {Read, Write}, v \in Values \cup {NoVal} : BodyPart(f, v) \in ReqParts
  /\ \A id \in Ids, f \in {Read, Write}, p \in 1..2, t \in Tasks \cup {Old} :
       AnsPart(id, f, p, t) \in AnsParts
  /\ \A p \in AnsParts \cup {Junk} : p.for \in Tasks \cup {Old}
  /\ \A c \in Commands : c.word \in Words /\ Parsed(c.word) \in Ids /\ c.val \in Values
  <1>1. \A id \in Ids : HeadPart(id) \in [part : {1}, id : Ids]
    BY DEF HeadPart
  <1>2. [part : {1}, id : Ids] \subseteq ReqParts
    BY DEF ReqParts
  <1>3. \A f \in {Read, Write}, v \in Values \cup {NoVal} : BodyPart(f, v) \in ReqParts
    BY DEF BodyPart, ReqParts
  <1>4. \A id \in Ids, f \in {Read, Write}, p \in 1..2, t \in Tasks \cup {Old} :
          AnsPart(id, f, p, t) \in AnsParts
    BY DEF AnsPart, AnsParts
  <1>5. \A p \in AnsParts \cup {Junk} : p.for \in Tasks \cup {Old}
    BY DEF AnsParts, Junk, AnsPart
  <1>6. \A c \in Commands : c.word \in Words /\ Parsed(c.word) \in Ids /\ c.val \in Values
    BY ParsedType DEF Commands
  <1>7. QED  BY <1>1, <1>2, <1>3, <1>4, <1>5, <1>6

\* Outdating a buffer changes none of its parts but for the task they answer.
LEMMA OutdateType ==
  ASSUME NEW S, NEW s \in Seq(S), NEW t,
         \A p \in S : [p EXCEPT !.for = Old] \in S
  PROVE  Outdate(s, t) \in Seq(S)
  <1> DEFINE e(i) == IF s[i].for = t THEN [s[i] EXCEPT !.for = Old] ELSE s[i]
  <1>1. Len(s) \in Nat /\ DOMAIN s = 1..Len(s)
    BY LenProperties
  <1>2. \A i \in 1..Len(s) : e(i) \in S
    BY ElementOfSeq
  <1> HIDE DEF e
  <1>3. [i \in 1..Len(s) |-> e(i)] \in Seq(S)
    BY <1>1, <1>2, IsASeq
  <1>4. QED  BY <1>1, <1>3 DEF Outdate, e

LEMMA AppendToOne ==
  ASSUME NEW a, NEW b
  PROVE  Append(<<a>>, b) = <<a, b>>
  <1>1. <<a>> \in Seq({a, b}) /\ Len(<<a>>) = 1 /\ <<a>>[1] = a
    OBVIOUS
  <1>2. <<a, b>> \in Seq({a, b}) /\ Len(<<a, b>>) = 2 /\ <<a, b>>[1] = a /\ <<a, b>>[2] = b
    OBVIOUS
  <1>3. /\ Append(<<a>>, b) \in Seq({a, b}) /\ Len(Append(<<a>>, b)) = 2
        /\ Append(<<a>>, b)[1] = a /\ Append(<<a>>, b)[2] = b
    BY <1>1, AppendProperties
  <1>4. \A i \in 1..2 : Append(<<a>>, b)[i] = <<a, b>>[i]
    <2>1. \A i \in 1..2 : i = 1 \/ i = 2
      OBVIOUS
    <2>2. QED  BY <1>2, <1>3, <2>1
  <1>5. QED  BY <1>2, <1>3, <1>4, SeqEqual

-----------------------------------------------------------------------------
(* Type correctness.                                                       *)

LEMMA TInvInit == Init => TInv
  <1> SUFFICES ASSUME Init PROVE TInv
    OBVIOUS
  <1>1. TypeOK
    <2>1. slave_id \in Ids /\ freetime_t \in 0..(FreeTime - 1) /\ started \in 0..MaxCmds
          /\ polls \in [Tasks -> 0..Polls]
      BY BusAssumption DEF Init, Ids
    <2>2. QED  BY <2>1, EmptySeq DEF Init, TypeOK, Labels
  <1>2. \A t \in Tasks : PointOK(t)
    BY DEF Init, PointOK, AfterPick, Waiting
  <1>3. QED  BY <1>1, <1>2 DEF TInv

LEMMA TInvSetId ==
  ASSUME TInv, NEW t \in Tasks, SetId(t)
  PROVE  TInv'
  <1>1. slave_id' \in Ids /\ ix' \in [Tasks -> Nat]
    <2>1. cmd[t] \in Commands /\ ix[t] \in 1..IdLen /\ slave_id \in [1..IdLen -> Bytes]
      BY DEF TInv, TypeOK, PointOK, SetId, Goto, Ids
    <2>2. Parsed(cmd[t].word)[ix[t]] \in Bytes
      BY <2>1, PartTypes DEF Ids
    <2>3. QED  BY <2>1, <2>2, BusAssumption DEF TInv, TypeOK, SetId, Ids
  <1>2. TypeOK'
    BY <1>1 DEF TInv, TypeOK, SetId, Goto, Labels, queueVars, lineVars, histVars
  <1>3. ASSUME NEW u \in Tasks PROVE PointOK(u)'
    <2>1. CASE u = t
      BY <2>1, BusAssumption DEF TInv, TypeOK, PointOK, SetId, Goto, AfterPick, Waiting
    <2>2. CASE u # t
      BY <2>2 DEF TInv, TypeOK, PointOK, SetId, Goto, queueVars
    <2>3. QED  BY <2>1, <2>2
  <1>4. QED  BY <1>2, <1>3 DEF TInv

LEMMA TInvFindFree ==
  ASSUME TInv, NEW t \in Tasks, FindFree(t)
  PROVE  TInv'
  <1> DEFINE free == {s \in Slots : ~queue_flag[s]}
  <1>1. PICK s \in FirstOf(free) : ix' = [ix EXCEPT ![t] = s]
    BY DEF FindFree
  <1>2. IF free = {} THEN s = 0 ELSE s \in Slots
    BY <1>1 DEF FirstOf
  <1>3. ix' \in [Tasks -> Nat]
    BY <1>1, <1>2 DEF TInv, TypeOK, Slots
  <1>4. TypeOK'
    BY <1>3 DEF TInv, TypeOK, FindFree, Goto, Labels, hostVars, queueVars, lineVars, histVars
  <1>5. \A u \in Tasks : PointOK(u)'
    BY <1>1, <1>2, <1>3 DEF TInv, TypeOK, PointOK, FindFree, Goto, Labels, Waiting, AfterPick,
       hostVars, queueVars, lineVars, histVars
  <1>6. QED  BY <1>4, <1>5 DEF TInv

LEMMA TInvFill ==
  ASSUME TInv, NEW t \in Tasks, Fill(t)
  PROVE  TInv'
  <1>1. TypeOK'
    BY BusAssumption, PartTypes DEF TInv, TypeOK, PointOK, Fill, Goto, Labels, Waiting, AfterPick, Slots,
       hostVars, queueVars, taskVars, lineVars, histVars
  <1>2. \A u \in Tasks : PointOK(u)'
    BY BusAssumption DEF TInv, TypeOK, PointOK, Fill, Goto, Labels, Waiting, AfterPick, Slots,
       hostVars, queueVars, taskVars, lineVars, histVars
  <1>3. QED  BY <1>1, <1>2 DEF TInv

LEMMA TInvFlag ==
  ASSUME TInv, NEW t \in Tasks, Flag(t)
  PROVE  TInv'
  <1>1. TypeOK'
    BY BusAssumption, PartTypes DEF TInv, TypeOK, PointOK, Flag, Goto, Labels, Waiting, AfterPick, Slots,
       hostVars, queueVars, taskVars, lineVars, histVars
  <1>2. \A u \in Tasks : PointOK(u)'
    BY BusAssumption DEF TInv, TypeOK, PointOK, Flag, Goto, Labels, Waiting, AfterPick, Slots,
       hostVars, queueVars, taskVars, lineVars, histVars
  <1>3. QED  BY <1>1, <1>2 DEF TInv

LEMMA TInvPickUsed ==
  ASSUME TInv, NEW t \in Tasks, PickUsed(t)
  PROVE  TInv'
  <1> DEFINE used == {s \in Slots : queue_flag[s]}
  <1>1. PICK s \in FirstOf(used) : ix' = [ix EXCEPT ![t] = s]
    BY DEF PickUsed
  <1>2. IF used = {} THEN s = 0 ELSE s \in Slots
    BY <1>1 DEF FirstOf
  <1>3. ix' \in [Tasks -> Nat]
    BY <1>1, <1>2 DEF TInv, TypeOK, Slots
  <1>4. TypeOK'
    BY <1>3 DEF TInv, TypeOK, PickUsed, Goto, Labels, hostVars, queueVars, lineVars, histVars
  <1>5. \A u \in Tasks : PointOK(u)'
    BY <1>1, <1>2, <1>3 DEF TInv, TypeOK, PointOK, PickUsed, Goto, Labels, Waiting, AfterPick,
       hostVars, queueVars, lineVars, histVars
  <1>6. QED  BY <1>4, <1>5 DEF TInv

LEMMA TInvTake ==
  ASSUME TInv, NEW t \in Tasks, Take(t)
  PROVE  TInv'
  <1>1. TypeOK'
    BY BusAssumption, PartTypes DEF TInv, TypeOK, PointOK, Take, Goto, Labels, Waiting, AfterPick, Slots,
       hostVars, queueVars, taskVars, lineVars, histVars
  <1>2. \A u \in Tasks : PointOK(u)'
    BY BusAssumption DEF TInv, TypeOK, PointOK, Take, Goto, Labels, Waiting, AfterPick, Slots,
       hostVars, queueVars, taskVars, lineVars, histVars
  <1>3. QED  BY <1>1, <1>2 DEF TInv

LEMMA TInvCodeHead ==
  ASSUME TInv, NEW t \in Tasks, CodeHead(t)
  PROVE  TInv'
  <1>1. TypeOK'
    BY BusAssumption, PartTypes DEF TInv, TypeOK, PointOK, CodeHead, Goto, Labels, Waiting, AfterPick, Slots,
       hostVars, queueVars, taskVars, lineVars, histVars
  <1>2. \A u \in Tasks : PointOK(u)'
    BY BusAssumption DEF TInv, TypeOK, PointOK, CodeHead, Goto, Labels, Waiting, AfterPick, Slots,
       hostVars, queueVars, taskVars, lineVars, histVars
  <1>3. QED  BY <1>1, <1>2 DEF TInv

LEMMA TInvCodeBody ==
  ASSUME TInv, NEW t \in Tasks, CodeBody(t)
  PROVE  TInv'
  <1> DEFINE b == IF ix[t] = 0 THEN BodyPart(Read, NoVal) ELSE BodyPart(Write, valueu[ix[t]])
  <1>1. ix[t] \in Slots \cup {0}
    BY DEF TInv, PointOK, CodeBody, Goto, AfterPick
  <1>2. b \in ReqParts
    BY <1>1, PartTypes DEF TInv, TypeOK, Slots
  <1> HIDE DEF b
  <1>3. sendbuf' = Append(sendbuf, b) /\ sendbuf \in Seq(ReqParts)
    BY DEF CodeBody, TInv, TypeOK, b
  <1>4. sendbuf' \in Seq(ReqParts) /\ sendbuf' # <<>>
    BY <1>2, <1>3, AppendProperties
  <1>5. TypeOK'
    BY <1>4 DEF TInv, TypeOK, CodeBody, Goto, Labels, queueVars, lineVars, histVars
  <1>6. \A u \in Tasks : PointOK(u)'
    BY <1>4 DEF TInv, TypeOK, PointOK, CodeBody, Goto, Labels, Waiting, AfterPick,
       queueVars, lineVars, histVars
  <1>7. QED  BY <1>5, <1>6 DEF TInv

LEMMA TInvCopyFrame ==
  ASSUME TInv, NEW t \in Tasks, CopyFrame(t)
  PROVE  TInv'
  <1>1. TypeOK'
    BY BusAssumption, PartTypes DEF TInv, TypeOK, PointOK, CopyFrame, Goto, Labels, Waiting, AfterPick, Slots,
       hostVars, queueVars, taskVars, lineVars, histVars
  <1>2. \A u \in Tasks : PointOK(u)'
    BY BusAssumption DEF TInv, TypeOK, PointOK, CopyFrame, Goto, Labels, Waiting, AfterPick, Slots,
       hostVars, queueVars, taskVars, lineVars, histVars
  <1>3. QED  BY <1>1, <1>2 DEF TInv

LEMMA TInvDriver ==
  ASSUME TInv, NEW t \in Tasks, Enable(t) \/ Before(t) \/ After(t)
  PROVE  TInv'
  <1>1. TypeOK'
    BY DEF Enable, Before, After, TInv, TypeOK, PointOK, Goto, Labels,
       hostVars, queueVars, lineVars, histVars
  <1>2. ASSUME NEW u \in Tasks PROVE PointOK(u)'
    <2>1. PointOK(u) /\ pc \in [Tasks -> Labels]
      BY DEF TInv, TypeOK
    <2>2. CASE Enable(t)
      BY <2>1, <2>2 DEF Enable, PointOK, Goto, Labels, Waiting, AfterPick, hostVars, queueVars
    <2>3. CASE Before(t)
      BY <2>1, <2>3 DEF Before, PointOK, Goto, Labels, Waiting, AfterPick, hostVars, queueVars
    <2>4. CASE After(t)
      BY <2>1, <2>4 DEF After, PointOK, Goto, Labels, Waiting, AfterPick, hostVars, queueVars
    <2>5. QED  BY <2>2, <2>3, <2>4
  <1>3. QED  BY <1>1, <1>2 DEF TInv

LEMMA TInvWritePart ==
  ASSUME TInv, NEW t \in Tasks, WritePart(t)
  PROVE  TInv'
  <1> DEFINE p == Head(out[t])
  <1>1. out[t] \in Seq(ReqParts) /\ out[t] # <<>> /\ Len(out[t]) \in Nat
    BY LenProperties DEF TInv, TypeOK, PointOK, WritePart, Goto
  <1>2. p \in ReqParts /\ Tail(out[t]) \in Seq(ReqParts) /\ Len(Tail(out[t])) = Len(out[t]) - 1
    BY <1>1, HeadTailProperties
  <1>3. out' = [out EXCEPT ![t] = Tail(@)]
    BY DEF WritePart
  <1>4. out' \in [Tasks -> Seq(ReqParts)]
    BY <1>2, <1>3 DEF TInv, TypeOK
  <1>5. pc' = [pc EXCEPT ![t] = IF Len(out[t]) > 1 THEN "write"
                                ELSE IF Lora THEN "raise" ELSE "after"]
    BY DEF WritePart, Goto
  <1>6. line' \in Seq([part : {1}, id : Ids]) /\ air' \in Seq(AnsParts) /\ done' \subseteq Tasks
    <2> USE DEF TInv, TypeOK
    <2>1. CASE p.part = 1 /\ line' = <<p>> /\ UNCHANGED <<done, air>>
      <3>1. p \in [part : {1}, id : Ids]
        BY <1>2, <2>1 DEF ReqParts
      <3>2. QED  BY <2>1, <3>1
    <2>2. CASE p.part = 2 /\ line # <<>> /\ line' = <<>> /\ Served(t, p, line[1].id)
      <3>1. line[1].id \in Ids
        <4>1. 1 \in 1..Len(line)
          BY <2>2, EmptySeq
        <4>2. line[1] \in [part : {1}, id : Ids]
          BY <4>1, ElementOfSeq
        <4>3. QED  BY <4>2
      <3>2. p.fn \in {Read, Write}
        BY <1>2, <2>2 DEF ReqParts
      <3>3. /\ AnsPart(line[1].id, p.fn, 1, t) \in AnsParts
            /\ AnsPart(line[1].id, p.fn, 2, t) \in AnsParts
        BY <3>1, <3>2 DEF AnsPart, AnsParts
      <3>4. air' \in Seq(AnsParts)
        <4>1. CASE air' = air
          BY <4>1
        <4>2. CASE air' = air \o <<AnsPart(line[1].id, p.fn, 1, t), AnsPart(line[1].id, p.fn, 2, t)>>
          <5>1. <<AnsPart(line[1].id, p.fn, 1, t), AnsPart(line[1].id, p.fn, 2, t)>> \in Seq(AnsParts)
            BY <3>3
          <5>2. QED  BY <4>2, <5>1, ConcatProperties
        <4>3. QED  BY <2>2, <4>1, <4>2 DEF Served
      <3>5. done' \subseteq Tasks
        BY <2>2 DEF Served
      <3>6. QED  BY <2>2, <3>4, <3>5, EmptySeq
    <2>3. CASE line' = <<>> /\ UNCHANGED <<done, air>>
      BY <2>3, EmptySeq
    <2>4. CASE UNCHANGED <<line, done, air>>
      BY <2>4
    <2>5. QED  BY <2>1, <2>2, <2>3, <2>4 DEF WritePart
  <1>7. TypeOK'
    BY <1>4, <1>5, <1>6 DEF TInv, TypeOK, WritePart, Labels, hostVars, queueVars
  <1>8. \A u \in Tasks : PointOK(u)'
    <2>1. out'[t] = Tail(out[t]) /\ \A u \in Tasks : u # t => out'[u] = out[u]
      BY <1>3 DEF TInv, TypeOK
    <2>2. Len(out[t]) > 1 => out'[t] # <<>>
      <3>1. Len(out'[t]) = Len(out[t]) - 1
        BY <1>2, <2>1
      <3>2. out'[t] = <<>> => Len(out'[t]) = 0
        BY EmptySeq, Zenon
      <3>3. QED  BY <1>1, <3>1, <3>2
    <2>3. QED
      BY <1>5, <2>1, <2>2 DEF TInv, TypeOK, PointOK, WritePart, Goto, Labels, Waiting, AfterPick,
         hostVars, queueVars
  <1>9. QED  BY <1>7, <1>8 DEF TInv

LEMMA TInvRaise ==
  ASSUME TInv, NEW t \in Tasks, Raise(t)
  PROVE  TInv'
  <1>1. TypeOK'
    BY BusAssumption, PartTypes DEF TInv, TypeOK, PointOK, Raise, Goto, Labels, Waiting, AfterPick, Slots,
       hostVars, queueVars, taskVars, lineVars, histVars
  <1>2. \A u \in Tasks : PointOK(u)'
    BY BusAssumption DEF TInv, TypeOK, PointOK, Raise, Goto, Labels, Waiting, AfterPick, Slots,
       hostVars, queueVars, taskVars, lineVars, histVars
  <1>3. QED  BY <1>1, <1>2 DEF TInv

LEMMA TInvPoll ==
  ASSUME TInv, NEW t \in Tasks, Poll(t)
  PROVE  TInv'
  <1>1. TypeOK'
    BY BusAssumption, PartTypes DEF TInv, TypeOK, PointOK, Poll, Goto, Labels, Waiting, AfterPick, Slots,
       hostVars, queueVars, taskVars, lineVars, histVars
  <1>2. ASSUME NEW u \in Tasks PROVE PointOK(u)'
    <2>1. CASE u = t
      BY <2>1, BusAssumption DEF TInv, TypeOK, PointOK, Poll, Goto, AfterPick, Waiting, hostVars
    <2>2. CASE u # t
      BY <2>2 DEF TInv, TypeOK, PointOK, Poll, Goto, hostVars
    <2>3. QED  BY <2>1, <2>2
  <1>3. QED  BY <1>1, <1>2 DEF TInv

LEMMA TInvDelay ==
  ASSUME TInv, NEW t \in Tasks, Delay(t)
  PROVE  TInv'
  <1>1. TypeOK'
    <2>1. polls' \in [Tasks -> 0..Polls] /\ pc' \in [Tasks -> Labels]
      BY BusAssumption DEF TInv, TypeOK, PointOK, Delay, Goto, Labels, Waiting
    <2>2. QED
      BY <2>1 DEF TInv, TypeOK, Delay, hostVars, queueVars, lineVars, histVars
  <1>2. ASSUME NEW u \in Tasks PROVE PointOK(u)'
    <2>1. CASE u = t
      BY <2>1, BusAssumption DEF TInv, TypeOK, PointOK, Delay, Goto, AfterPick, Waiting, hostVars
    <2>2. CASE u # t
      BY <2>2 DEF TInv, TypeOK, PointOK, Delay, Goto, hostVars
    <2>3. QED  BY <2>1, <2>2
  <1>3. QED  BY <1>1, <1>2 DEF TInv

LEMMA TInvCheck ==
  ASSUME TInv, NEW t \in Tasks, Check(t)
  PROVE  TInv'
  <1>1. TypeOK'
    BY BusAssumption, PartTypes DEF TInv, TypeOK, PointOK, Check, Goto, Labels, Waiting, AfterPick, Slots,
       hostVars, queueVars, taskVars, lineVars, histVars
  <1>2. \A u \in Tasks : PointOK(u)'
    BY BusAssumption DEF TInv, TypeOK, PointOK, Check, Goto, Labels, Waiting, AfterPick, Slots,
       hostVars, queueVars, taskVars, lineVars, histVars
  <1>3. QED  BY <1>1, <1>2 DEF TInv

LEMMA TInvTimeout ==
  ASSUME TInv, NEW t \in Tasks, Timeout(t)
  PROVE  TInv'
  <1>1. TypeOK'
    BY BusAssumption, PartTypes DEF TInv, TypeOK, PointOK, Timeout, Goto, Labels, Waiting, AfterPick, Slots,
       hostVars, queueVars, taskVars, lineVars, histVars
  <1>2. \A u \in Tasks : PointOK(u)'
    BY BusAssumption DEF TInv, TypeOK, PointOK, Timeout, Goto, Labels, Waiting, AfterPick, Slots,
       hostVars, queueVars, taskVars, lineVars, histVars
  <1>3. QED  BY <1>1, <1>2 DEF TInv

LEMMA TInvRelease ==
  ASSUME TInv, NEW t \in Tasks, Release(t)
  PROVE  TInv'
  <1>1. air' \in Seq(AnsParts) /\ rxbuf' \in Seq(AnsParts \cup {Junk})
    <2>1. \A p \in AnsParts : [p EXCEPT !.for = Old] \in AnsParts
      BY DEF AnsParts
    <2>2. [Junk EXCEPT !.for = Old] = Junk
      BY DEF Junk, AnsPart
    <2>3. QED  BY <2>1, <2>2, OutdateType DEF TInv, TypeOK, Release
  <1>2. queue_flag' \in [Slots -> BOOLEAN]
    BY DEF TInv, TypeOK, Release, FreedAfter
  <1>3. TypeOK'
    <2>1. /\ pc' \in [Tasks -> Labels] /\ ix' \in [Tasks -> Nat] /\ polls' \in [Tasks -> 0..Polls]
          /\ result' \in [Tasks -> {"none", "ok", "error"}]
          /\ cmd' \in [Tasks -> Commands \cup {NoCmd}]
      BY BusAssumption DEF TInv, TypeOK, Release, Goto, Labels
    <2>2. QED  BY <1>1, <1>2, <2>1 DEF TInv, TypeOK, Release
  <1>4. ASSUME NEW u \in Tasks PROVE PointOK(u)'
    <2>1. CASE u = t
      BY <2>1 DEF TInv, TypeOK, PointOK, Release, Goto, AfterPick, Waiting
    <2>2. CASE u # t
      BY <2>2 DEF TInv, TypeOK, PointOK, Release, Goto
    <2>3. QED  BY <2>1, <2>2
  <1>5. QED  BY <1>3, <1>4 DEF TInv

LEMMA TInvCommand ==
  ASSUME TInv, NEW t \in Tasks, Command(t)
  PROVE  TInv'
  <1>1. PICK c \in Commands : cmd' = [cmd EXCEPT ![t] = c]
    BY DEF Command
  <1>2. started' \in 0..MaxCmds
    <2>1. /\ started \in 0..MaxCmds
          /\ MaxCmds # 0 => started < MaxCmds
          /\ started' = IF MaxCmds = 0 THEN 0 ELSE started + 1
      BY DEF TInv, TypeOK, Command
    <2>2. QED  BY <2>1, BusAssumption
  <1>3. alone' \subseteq Tasks /\ quiet' \subseteq Tasks
    BY DEF TInv, TypeOK, Command
  <1>4. TypeOK'
    BY <1>1, <1>2, <1>3 DEF TInv, TypeOK, Command, Goto, Labels, hostVars, queueVars, lineVars
  <1>5. \A u \in Tasks : PointOK(u)'
    BY <1>1, BusAssumption DEF TInv, TypeOK, PointOK, Command, Goto, Labels, Waiting, AfterPick,
       hostVars, queueVars, lineVars
  <1>6. QED  BY <1>4, <1>5 DEF TInv

LEMMA TInvISR ==
  ASSUME TInv, UartISR \/ LoseAnswer \/ TimerISR
  PROVE  TInv'
  <1>1. CASE UartISR
    <2>1. PICK p \in {Head(air)} \cup (IF Noisy THEN {Junk} ELSE {}) : rxbuf' = Append(rxbuf, p)
      BY <1>1 DEF UartISR
    <2>2. air \in Seq(AnsParts) /\ air # <<>> /\ rxbuf \in Seq(AnsParts \cup {Junk})
      BY <1>1 DEF UartISR, TInv, TypeOK
    <2>3. Head(air) \in AnsParts /\ Tail(air) \in Seq(AnsParts)
      BY <2>2, HeadTailProperties
    <2>4. rxbuf' \in Seq(AnsParts \cup {Junk})
      BY <2>1, <2>2, <2>3, AppendProperties
    <2>5. TypeOK'
      BY <1>1, <2>3, <2>4 DEF TInv, TypeOK, UartISR, queueVars, taskVars, histVars
    <2>6. QED
      BY <1>1, <2>5 DEF TInv, PointOK, UartISR, queueVars, taskVars, histVars
  <1>2. CASE LoseAnswer
    <2>1. Tail(air) \in Seq(AnsParts)
      BY <1>2, HeadTailProperties DEF LoseAnswer, TInv, TypeOK
    <2>2. TypeOK'
      BY <1>2, <2>1 DEF TInv, TypeOK, LoseAnswer, hostVars, queueVars, taskVars, histVars
    <2>3. QED
      BY <1>2, <2>2 DEF TInv, PointOK, LoseAnswer, hostVars, queueVars, taskVars, histVars
  <1>3. CASE TimerISR
    <2>1. rxbuf \in Seq(AnsParts \cup {Junk}) /\ Len(rxbuf) \in Nat
      BY LenProperties DEF TInv, TypeOK
    <2>2. rxbuf # <<>> => rxbuf[1].for \in Tasks \cup {Old}
      <3>1. rxbuf # <<>> => 1 \in 1..Len(rxbuf)
        BY <2>1, EmptySeq
      <3>2. rxbuf # <<>> => rxbuf[1] \in AnsParts \cup {Junk}
        BY <2>1, <3>1, ElementOfSeq
      <3>3. QED  BY <3>2, PartTypes
    <2>3. rxbuf' \in Seq(AnsParts \cup {Junk})
      BY <1>3, <2>1, EmptySeq DEF TimerISR, Decode
    <2>4. /\ send_flag' \in {0, Read, Write} /\ reveive_len' \in Nat
          /\ freetime_t' \in 0..(FreeTime - 1) /\ ack' \subseteq Tasks \cup {Old}
      <3>1. CASE Decode /\ reveive_len' = reveive_len /\ rxbuf # <<>>
        <4>1. /\ send_flag' = 0 \/ send_flag' = send_flag
              /\ ack' = {rxbuf[1].for} \/ ack' = ack
              /\ freetime_t' = 0
          BY <3>1 DEF Decode, Accept, Ignore, CountAfterFrame
        <4>2. send_flag' \in {0, Read, Write}
          BY <4>1 DEF TInv, TypeOK
        <4>3. ack' \subseteq Tasks \cup {Old}
          BY <2>2, <3>1, <4>1 DEF TInv, TypeOK
        <4>4. reveive_len' \in Nat
          BY <3>1 DEF TInv, TypeOK
        <4>5. freetime_t' \in 0..(FreeTime - 1)
          BY <4>1, BusAssumption
        <4>6. QED  BY <4>2, <4>3, <4>4, <4>5
      <3>2. CASE /\ UNCHANGED <<send_flag, ack>>
                 /\ reveive_len' \in {reveive_len, Len(rxbuf)}
                 /\ freetime_t' \in 0..(FreeTime - 1)
        BY <2>1, <3>2 DEF TInv, TypeOK
      <3>3. QED
        BY <1>3, <3>1, <3>2, BusAssumption DEF TimerISR, TInv, TypeOK
    <2>5. TypeOK'
      BY <1>3, <2>3, <2>4 DEF TInv, TypeOK, TimerISR, queueVars, taskVars, lineVars
    <2>6. QED
      BY <1>3, <2>5 DEF TInv, PointOK, TimerISR, queueVars, taskVars, lineVars
  <1>4. QED  BY <1>1, <1>2, <1>3

\* Every step keeps the types and what each program point knows.
LEMMA TInvNext == TInv /\ [Next]_vars => TInv'
  <1> SUFFICES ASSUME TInv, [Next]_vars PROVE TInv'
    OBVIOUS
  <1>1. ASSUME NEW t \in Tasks, Command(t) \/ Run(t) PROVE TInv'
    BY <1>1, TInvCommand, TInvSetId, TInvFindFree, TInvFill, TInvFlag, TInvPickUsed, TInvTake,
       TInvCodeHead, TInvCodeBody, TInvCopyFrame, TInvDriver, TInvWritePart, TInvRaise, TInvPoll, TInvDelay,
       TInvCheck, TInvTimeout, TInvRelease DEF Run
  <1>2. CASE UNCHANGED vars
    BY <1>2 DEF TInv, TypeOK, PointOK, vars, hostVars, queueVars, taskVars, lineVars, histVars
  <1>3. QED  BY <1>1, <1>2, TInvISR DEF Next

LEMMA TInvAlways == Spec => []TInv
  <1>1. QED  BY TInvInit, TInvNext, PTL DEF Spec

\* Every variable keeps its type: no index, count or buffer leaves its range.
THEOREM TypeCorrect == Spec => []TypeOK
  <1>1. TInv => TypeOK
    BY DEF TInv
  <1>2. QED  BY <1>1, TInvAlways, PTL

-----------------------------------------------------------------------------
(* A raised send_flag has a task that will take it down.                   *)

LEMMA FlagNext == TInv /\ FlagHasWaiter /\ [Next]_vars => FlagHasWaiter'
  <1> SUFFICES ASSUME TInv, FlagHasWaiter, [Next]_vars PROVE FlagHasWaiter'
    OBVIOUS
  <1> USE DEF FlagHasWaiter, Waiting, Goto, TInv, TypeOK
  <1>1. ASSUME NEW t \in Tasks, Raise(t) PROVE FlagHasWaiter'
    BY <1>1 DEF Raise
  <1>2. ASSUME NEW t \in Tasks, Poll(t) \/ Delay(t) PROVE FlagHasWaiter'
    BY <1>2 DEF Poll, Delay, hostVars
  <1>3. ASSUME NEW t \in Tasks, Check(t) PROVE FlagHasWaiter'
    BY <1>3 DEF Check, hostVars
  <1>4. ASSUME NEW t \in Tasks, Timeout(t) PROVE FlagHasWaiter'
    BY <1>4 DEF Timeout
  <1>5. ASSUME NEW t \in Tasks, Command(t) \/ SetId(t) \/ FindFree(t) \/ Fill(t) \/ Flag(t)
                                \/ PickUsed(t) \/ Take(t) PROVE FlagHasWaiter'
    BY <1>5 DEF Command, SetId, FindFree, Fill, Flag, PickUsed, Take, hostVars
  <1>6. ASSUME NEW t \in Tasks, CodeHead(t) \/ CodeBody(t) \/ CopyFrame(t) \/ Enable(t) \/ Before(t)
                                \/ WritePart(t) \/ After(t) \/ Release(t) PROVE FlagHasWaiter'
    BY <1>6 DEF CodeHead, CodeBody, CopyFrame, Enable, Before, WritePart, After, Release, hostVars
  <1>7. CASE UartISR \/ LoseAnswer
    BY <1>7 DEF UartISR, LoseAnswer, hostVars, taskVars
  <1>8. CASE TimerISR
    BY <1>8 DEF TimerISR, Decode, Accept, Ignore, taskVars
  <1>9. CASE UNCHANGED vars
    BY <1>9 DEF vars, hostVars, taskVars
  <1>10. QED
    BY <1>1, <1>2, <1>3, <1>4, <1>5, <1>6, <1>7, <1>8, <1>9 DEF Next, Run

\* The send_flag is never left raised by a command that has ended.
THEOREM FlagNeverOrphaned == Spec => []FlagHasWaiter
  <1>1. Init => FlagHasWaiter
    BY DEF Init, FlagHasWaiter
  <1>2. QED  BY <1>1, TInvAlways, FlagNext, PTL DEF Spec

-----------------------------------------------------------------------------
(* A command that has the bus to itself.                                   *)

\* A task that runs while some command has the bus to itself is that command.
LEMMA AloneIsActor ==
  ASSUME Solitary, NEW t \in Tasks, pc[t] # "idle", NEW u \in alone
  PROVE  u = t
  BY DEF Solitary

LEMMA SolitaryNext == TInv /\ Solitary /\ [Next]_vars => Solitary'
  <1> SUFFICES ASSUME TInv, Solitary, [Next]_vars PROVE Solitary'
    OBVIOUS
  <1> USE DEF Goto, TInv, TypeOK
  <1>1. ASSUME NEW t \in Tasks, Command(t) PROVE Solitary'
    BY <1>1 DEF Command, Solitary
  <1>2. ASSUME NEW t \in Tasks, Release(t) PROVE Solitary'
    BY <1>2, AloneIsActor DEF Release, Solitary
  <1>3. ASSUME NEW t \in Tasks, pc[t] # "idle", alone' = alone,
               NEW l \in Labels \ {"idle"}, pc' = [pc EXCEPT ![t] = l]
        PROVE  Solitary'
    BY <1>3, AloneIsActor DEF Solitary
  <1>4. ASSUME NEW t \in Tasks, SetId(t) \/ FindFree(t) \/ Fill(t) \/ Flag(t)
                                \/ PickUsed(t) \/ Take(t) \/ CodeHead(t) \/ CodeBody(t)
        PROVE  Solitary'
    <2>1. pc[t] # "idle" /\ alone' = alone /\ \E l \in Labels \ {"idle"} : pc' = [pc EXCEPT ![t] = l]
      BY <1>4 DEF SetId, FindFree, Fill, Flag, PickUsed, Take, CodeHead, CodeBody, Labels, histVars
    <2>2. QED  BY <1>3, <2>1
  <1>5. ASSUME NEW t \in Tasks, CopyFrame(t) \/ Enable(t) \/ Before(t) \/ WritePart(t) \/ After(t)
                                \/ Raise(t) \/ Poll(t) \/ Delay(t) \/ Check(t) \/ Timeout(t)
        PROVE  Solitary'
    <2>1. pc[t] # "idle" /\ alone' = alone /\ \E l \in Labels \ {"idle"} : pc' = [pc EXCEPT ![t] = l]
      BY <1>5 DEF CopyFrame, Enable, Before, WritePart, After, Raise, Poll, Delay, Check, Timeout,
         Labels, Waiting, histVars
    <2>2. QED  BY <1>3, <2>1
  <1>6. CASE UartISR \/ LoseAnswer \/ TimerISR \/ UNCHANGED vars
    BY <1>6 DEF UartISR, LoseAnswer, TimerISR, Solitary, vars, taskVars, histVars
  <1>7. QED  BY <1>1, <1>2, <1>4, <1>5, <1>6 DEF Next, Run

LEMMA AloneSetId ==
  ASSUME TInv, AloneInv, NEW t \in alone, SetId(t)
  PROVE  AloneOK(t)'
  <1>0. t \in Tasks /\ AloneOK(t) /\ PointOK(t) /\ TypeOK
    BY DEF TInv, TypeOK, AloneInv
  <1>1. AloneQueue(t)'
    BY <1>0 DEF AloneOK, AloneQueue, SetId, Goto, PointOK, TypeOK, hostVars, queueVars, taskVars, lineVars, histVars
  <1>2. AloneFrame(t)'
    <2>1. /\ ix[t] \in 1..IdLen /\ Parsed(cmd[t].word) \in [1..IdLen -> Bytes] /\ slave_id \in [1..IdLen -> Bytes]
          /\ \A i \in 1..(ix[t] - 1) : slave_id[i] = Parsed(cmd[t].word)[i]
      <3>1. pc[t] = "setid"
        BY DEF SetId, Goto
      <3>2. ix[t] \in 1..IdLen /\ cmd[t] \in Commands /\ \A i \in 1..(ix[t] - 1) : slave_id[i] = Parsed(cmd[t].word)[i]
        BY <1>0, <3>1 DEF PointOK, AloneOK, AloneFrame
      <3>3. Parsed(cmd[t].word) \in Ids
        BY <3>2, PartTypes
      <3>4. slave_id \in Ids
        BY <1>0 DEF TypeOK
      <3>5. QED  BY <3>2, <3>3, <3>4, BusAssumption DEF Ids
    <2>2. slave_id' = [slave_id EXCEPT ![ix[t]] = Parsed(cmd[t].word)[ix[t]]] /\ cmd' = cmd
      BY DEF SetId
    <2>3. \A i \in 1..ix[t] : slave_id'[i] = Parsed(cmd[t].word)[i]
      <3>1. TAKE i \in 1..ix[t]
      <3>2. ix[t] \in 1..IdLen /\ i \in 1..IdLen /\ (i = ix[t] \/ i \in 1..(ix[t] - 1))
        BY <2>1, BusAssumption
      <3>3. CASE i = ix[t]
        BY <2>1, <2>2, <3>2, <3>3
      <3>4. CASE i # ix[t]
        <4>1. slave_id'[i] = slave_id[i]
          BY <2>1, <2>2, <3>2, <3>4
        <4>2. QED  BY <2>1, <3>2, <3>4, <4>1
      <3>5. QED  BY <3>3, <3>4
    <2>4. CASE ix[t] < IdLen
      <3>1. pc'[t] = "setid" /\ ix'[t] = ix[t] + 1
        BY <1>0, <2>4 DEF SetId, Goto, TypeOK
      <3>2. QED  BY <2>1, <2>2, <2>3, <3>1 DEF AloneFrame
    <2>5. CASE ~(ix[t] < IdLen)
      <3>1. pc'[t] = "find" /\ ix[t] = IdLen
        BY <1>0, <2>1, <2>5, BusAssumption DEF SetId, Goto, TypeOK
      <3>2. slave_id' = Parsed(cmd[t].word)
        BY <2>1, <2>2, <2>3, <3>1, BusAssumption
      <3>3. QED  BY <2>2, <3>1, <3>2 DEF AloneFrame
    <2>6. QED  BY <2>4, <2>5
  <1>3. AloneAnswered(t)'
    BY <1>0 DEF AloneOK, AloneAnswered, Succeeds, SetId, Goto, TypeOK, hostVars, queueVars, taskVars, lineVars, histVars
  <1>4. t \in quiet' /\ ReadRight(cmd'[t].word) => QuietAnswers(t)'
    BY <1>0 DEF AloneOK, AloneAnswered, QuietAnswers, SetId, Goto, Waiting, TypeOK, hostVars, queueVars, taskVars, lineVars, histVars
  <1>5. QED  BY <1>1, <1>2, <1>3, <1>4 DEF AloneOK

LEMMA AloneFindFree ==
  ASSUME TInv, AloneInv, NEW t \in alone, FindFree(t)
  PROVE  AloneOK(t)'
  <1>0. t \in Tasks /\ AloneOK(t) /\ PointOK(t) /\ TypeOK
    BY DEF TInv, TypeOK, AloneInv
  <1>1. AloneQueue(t)'
    <2>1. \A s \in Slots : ~queue_flag[s]
      BY <1>0 DEF AloneOK, AloneQueue, FindFree, Goto
    <2>2. 1 \in Slots
      BY BusAssumption DEF Slots
    <2>3. pc'[t] = "fill"
      BY <1>0, <2>1, <2>2 DEF FindFree, Goto, TypeOK
    <2>4. QED  BY <2>1, <2>3 DEF AloneQueue, FindFree, queueVars
  <1>2. AloneFrame(t)'
    BY <1>0 DEF AloneOK, AloneFrame, AloneQueue, FindFree, Goto, PointOK, TypeOK, hostVars, queueVars, taskVars, lineVars, histVars
  <1>3. AloneAnswered(t)'
    BY <1>0 DEF AloneOK, AloneAnswered, Succeeds, FindFree, Goto, TypeOK, hostVars, queueVars, taskVars, lineVars, histVars
  <1>4. t \in quiet' /\ ReadRight(cmd'[t].word) => QuietAnswers(t)'
    BY <1>0 DEF AloneOK, AloneAnswered, QuietAnswers, FindFree, Goto, Waiting, TypeOK, hostVars, queueVars, taskVars, lineVars, histVars
  <1>5. QED  BY <1>1, <1>2, <1>3, <1>4 DEF AloneOK

LEMMA AloneFill ==
  ASSUME TInv, AloneInv, NEW t \in alone, Fill(t)
  PROVE  AloneOK(t)'
  <1>0. t \in Tasks /\ AloneOK(t) /\ PointOK(t) /\ TypeOK
    BY DEF TInv, TypeOK, AloneInv
  <1>1. AloneQueue(t)'
    BY <1>0 DEF AloneOK, AloneQueue, Fill, Goto, PointOK, TypeOK, hostVars, queueVars, taskVars, lineVars, histVars
  <1>2. AloneFrame(t)'
    BY <1>0 DEF AloneOK, AloneFrame, AloneQueue, Fill, Goto, PointOK, TypeOK, hostVars, queueVars, taskVars, lineVars, histVars
  <1>3. AloneAnswered(t)'
    BY <1>0 DEF AloneOK, AloneAnswered, Succeeds, Fill, Goto, TypeOK, hostVars, queueVars, taskVars, lineVars, histVars
  <1>4. t \in quiet' /\ ReadRight(cmd'[t].word) => QuietAnswers(t)'
    BY <1>0 DEF AloneOK, AloneAnswered, QuietAnswers, Fill, Goto, Waiting, TypeOK, hostVars, queueVars, taskVars, lineVars, histVars
  <1>5. QED  BY <1>1, <1>2, <1>3, <1>4 DEF AloneOK

LEMMA AloneFlag ==
  ASSUME TInv, AloneInv, NEW t \in alone, Flag(t)
  PROVE  AloneOK(t)'
  <1>0. t \in Tasks /\ AloneOK(t) /\ PointOK(t) /\ TypeOK
    BY DEF TInv, TypeOK, AloneInv
  <1>1. AloneQueue(t)'
    BY <1>0 DEF AloneOK, AloneQueue, Flag, Goto, PointOK, TypeOK, hostVars, queueVars, taskVars, lineVars, histVars
  <1>2. AloneFrame(t)'
    BY <1>0 DEF AloneOK, AloneFrame, AloneQueue, Flag, Goto, PointOK, TypeOK, hostVars, queueVars, taskVars, lineVars, histVars
  <1>3. AloneAnswered(t)'
    BY <1>0 DEF AloneOK, AloneAnswered, Succeeds, Flag, Goto, TypeOK, hostVars, queueVars, taskVars, lineVars, histVars
  <1>4. t \in quiet' /\ ReadRight(cmd'[t].word) => QuietAnswers(t)'
    BY <1>0 DEF AloneOK, AloneAnswered, QuietAnswers, Flag, Goto, Waiting, TypeOK, hostVars, queueVars, taskVars, lineVars, histVars
  <1>5. QED  BY <1>1, <1>2, <1>3, <1>4 DEF AloneOK

LEMMA AlonePickUsed ==
  ASSUME TInv, AloneInv, NEW t \in alone, PickUsed(t)
  PROVE  AloneOK(t)'
  <1>0. t \in Tasks /\ AloneOK(t) /\ PointOK(t) /\ TypeOK
    BY DEF TInv, TypeOK, AloneInv
  <1>1. AloneQueue(t)'
    <2>1. PICK s \in Slots : /\ queue_flag[s] /\ valueu[s] = cmd[t].val
                             /\ \A r \in Slots : queue_flag[r] => r = s
      BY <1>0 DEF AloneOK, AloneQueue, PickUsed, Goto
    <2>2. {r \in Slots : queue_flag[r]} = {s}
      BY <2>1
    <2>3. ix' \in {[ix EXCEPT ![t] = r] : r \in FirstOf({s})}
      BY <2>2 DEF PickUsed
    <2>4. FirstOf({s}) = {s}
      BY DEF FirstOf, Slots
    <2>5. ix'[t] = s
      BY <1>0, <2>3, <2>4 DEF TypeOK
    <2>6. pc'[t] \in {"take", "code"}
      BY <1>0 DEF PickUsed, Goto, TypeOK
    <2>7. QED  BY <2>1, <2>5, <2>6 DEF AloneQueue, PickUsed, queueVars
  <1>2. AloneFrame(t)'
    BY <1>0 DEF AloneOK, AloneFrame, AloneQueue, PickUsed, Goto, PointOK, TypeOK, hostVars, queueVars, taskVars, lineVars, histVars
  <1>3. AloneAnswered(t)'
    BY <1>0 DEF AloneOK, AloneAnswered, Succeeds, PickUsed, Goto, TypeOK, hostVars, queueVars, taskVars, lineVars, histVars
  <1>4. t \in quiet' /\ ReadRight(cmd'[t].word) => QuietAnswers(t)'
    BY <1>0 DEF AloneOK, AloneAnswered, QuietAnswers, PickUsed, Goto, Waiting, TypeOK, hostVars, queueVars, taskVars, lineVars, histVars
  <1>5. QED  BY <1>1, <1>2, <1>3, <1>4 DEF AloneOK

LEMMA AloneTake ==
  ASSUME TInv, AloneInv, NEW t \in alone, Take(t)
  PROVE  AloneOK(t)'
  <1>0. t \in Tasks /\ AloneOK(t) /\ PointOK(t) /\ TypeOK
    BY DEF TInv, TypeOK, AloneInv
  <1>1. AloneQueue(t)'
    BY <1>0 DEF AloneOK, AloneQueue, Take, Goto, PointOK, TypeOK, hostVars, queueVars, taskVars, lineVars, histVars
  <1>2. AloneFrame(t)'
    BY <1>0 DEF AloneOK, AloneFrame, AloneQueue, Take, Goto, PointOK, TypeOK, hostVars, queueVars, taskVars, lineVars, histVars
  <1>3. AloneAnswered(t)'
    BY <1>0 DEF AloneOK, AloneAnswered, Succeeds, Take, Goto, TypeOK, hostVars, queueVars, taskVars, lineVars, histVars
  <1>4. t \in quiet' /\ ReadRight(cmd'[t].word) => QuietAnswers(t)'
    BY <1>0 DEF AloneOK, AloneAnswered, QuietAnswers, Take, Goto, Waiting, TypeOK, hostVars, queueVars, taskVars, lineVars, histVars
  <1>5. QED  BY <1>1, <1>2, <1>3, <1>4 DEF AloneOK

LEMMA AloneCodeHead ==
  ASSUME TInv, AloneInv, NEW t \in alone, CodeHead(t)
  PROVE  AloneOK(t)'
  <1>0. t \in Tasks /\ AloneOK(t) /\ PointOK(t) /\ TypeOK
    BY DEF TInv, TypeOK, AloneInv
  <1>1. AloneQueue(t)'
    BY <1>0 DEF AloneOK, AloneQueue, CodeHead, Goto, PointOK, TypeOK, hostVars, queueVars, taskVars, lineVars, histVars
  <1>2. AloneFrame(t)'
    BY <1>0 DEF AloneOK, AloneFrame, AloneQueue, CodeHead, Goto, PointOK, TypeOK, hostVars, queueVars, taskVars, lineVars, histVars
  <1>3. AloneAnswered(t)'
    BY <1>0 DEF AloneOK, AloneAnswered, Succeeds, CodeHead, Goto, TypeOK, hostVars, queueVars, taskVars, lineVars, histVars
  <1>4. t \in quiet' /\ ReadRight(cmd'[t].word) => QuietAnswers(t)'
    BY <1>0 DEF AloneOK, AloneAnswered, QuietAnswers, CodeHead, Goto, Waiting, TypeOK, hostVars, queueVars, taskVars, lineVars, histVars
  <1>5. QED  BY <1>1, <1>2, <1>3, <1>4 DEF AloneOK

LEMMA AloneCodeBody ==
  ASSUME TInv, AloneInv, NEW t \in alone, CodeBody(t)
  PROVE  AloneOK(t)'
  <1>0. t \in Tasks /\ AloneOK(t) /\ PointOK(t) /\ TypeOK
    BY DEF TInv, TypeOK, AloneInv
  <1>1. AloneQueue(t)'
    BY <1>0 DEF AloneOK, AloneQueue, CodeBody, Goto, PointOK, TypeOK, hostVars, queueVars, taskVars, lineVars, histVars
  <1>2. AloneFrame(t)'
    <2>1. ix[t] # 0 /\ valueu[ix[t]] = cmd[t].val
      BY <1>0 DEF AloneOK, AloneQueue, CodeBody, Goto, Slots
    <2>2. sendbuf = <<HeadPart(Parsed(cmd[t].word))>>
      BY <1>0 DEF AloneOK, AloneFrame, CodeBody, Goto
    <2>3. sendbuf' = Append(sendbuf, BodyPart(Write, cmd[t].val))
      BY <2>1 DEF CodeBody
    <2>4. sendbuf' = <<HeadPart(Parsed(cmd[t].word)), BodyPart(Write, cmd[t].val)>>
      BY <2>2, <2>3, AppendToOne
    <2>5. pc'[t] = "copy" /\ slave_id = Parsed(cmd[t].word)
      BY <1>0 DEF AloneOK, AloneFrame, CodeBody, Goto, TypeOK
    <2>6. QED  BY <2>4, <2>5 DEF AloneFrame, CodeBody
  <1>3. AloneAnswered(t)'
    BY <1>0 DEF AloneOK, AloneAnswered, Succeeds, CodeBody, Goto, TypeOK, hostVars, queueVars, taskVars, lineVars, histVars
  <1>4. t \in quiet' /\ ReadRight(cmd'[t].word) => QuietAnswers(t)'
    BY <1>0 DEF AloneOK, AloneAnswered, QuietAnswers, CodeBody, Goto, Waiting, TypeOK, hostVars, queueVars, taskVars, lineVars, histVars
  <1>5. QED  BY <1>1, <1>2, <1>3, <1>4 DEF AloneOK

LEMMA AloneCopyFrame ==
  ASSUME TInv, AloneInv, NEW t \in alone, CopyFrame(t)
  PROVE  AloneOK(t)'
  <1>0. t \in Tasks /\ AloneOK(t) /\ PointOK(t) /\ TypeOK
    BY DEF TInv, TypeOK, AloneInv
  <1>1. AloneQueue(t)'
    BY <1>0 DEF AloneOK, AloneQueue, CopyFrame, Goto, PointOK, TypeOK, hostVars, queueVars, taskVars, lineVars, histVars
  <1>2. AloneFrame(t)'
    BY <1>0 DEF AloneOK, AloneFrame, AloneQueue, CopyFrame, Goto, PointOK, TypeOK, hostVars, queueVars, taskVars, lineVars, histVars
  <1>3. AloneAnswered(t)'
    BY <1>0 DEF AloneOK, AloneAnswered, Succeeds, CopyFrame, Goto, TypeOK, hostVars, queueVars, taskVars, lineVars, histVars
  <1>4. t \in quiet' /\ ReadRight(cmd'[t].word) => QuietAnswers(t)'
    BY <1>0 DEF AloneOK, AloneAnswered, QuietAnswers, CopyFrame, Goto, Waiting, TypeOK, hostVars, queueVars, taskVars, lineVars, histVars
  <1>5. QED  BY <1>1, <1>2, <1>3, <1>4 DEF AloneOK

LEMMA AloneDriver ==
  ASSUME TInv, AloneInv, NEW t \in alone, Enable(t) \/ Before(t) \/ After(t)
  PROVE  AloneOK(t)'
  <1> USE DEF Enable, Before, After
  <1>0. t \in Tasks /\ AloneOK(t) /\ PointOK(t) /\ TypeOK
    BY DEF TInv, TypeOK, AloneInv
  <1>1. AloneQueue(t)'
    BY <1>0 DEF AloneOK, AloneQueue, Goto, TypeOK, hostVars, queueVars, lineVars, histVars
  <1>2. AloneFrame(t)'
    BY <1>0 DEF AloneOK, AloneFrame, Goto, TypeOK, hostVars, queueVars, lineVars, histVars
  <1>3. AloneAnswered(t)'
    BY <1>0 DEF AloneOK, AloneAnswered, Succeeds, Goto, TypeOK, hostVars, lineVars, histVars
  <1>4. t \in quiet' /\ ReadRight(cmd'[t].word) => QuietAnswers(t)'
    BY <1>0 DEF AloneOK, AloneAnswered, QuietAnswers, Goto, Waiting, TypeOK, hostVars, lineVars, histVars
  <1>5. QED  BY <1>1, <1>2, <1>3, <1>4 DEF AloneOK

LEMMA AloneWritePart ==
  ASSUME TInv, AloneInv, NEW t \in alone, WritePart(t)
  PROVE  AloneOK(t)'
  <1>0. t \in Tasks /\ AloneOK(t) /\ PointOK(t) /\ TypeOK
    BY DEF TInv, TypeOK, AloneInv
  <1>1. AloneQueue(t)'
    BY <1>0 DEF AloneOK, AloneQueue, WritePart, Goto, PointOK, TypeOK, hostVars, queueVars, taskVars, lineVars, histVars
  <1> DEFINE H == HeadPart(Parsed(cmd[t].word))
             B == BodyPart(Write, cmd[t].val)
  <1>a. H.part = 1 /\ H.id = Parsed(cmd[t].word) /\ B.part = 2 /\ B.val = cmd[t].val /\ B.fn = Write
    BY DEF HeadPart, BodyPart
  <1>b. out[t] = <<H, B>> \/ (out[t] = <<B>> /\ line \in {<<>>, <<H>>})
    BY <1>0 DEF AloneOK, AloneFrame, WritePart, Goto
  <1>c. /\ pc' = [pc EXCEPT ![t] = IF Len(out[t]) > 1 THEN "write"
                                   ELSE IF Lora THEN "raise" ELSE "after"]
        /\ out' = [out EXCEPT ![t] = Tail(@)] /\ UNCHANGED <<slave_id, cmd, sendbuf>>
    BY DEF WritePart, Goto, hostVars
  <1>d. slave_id = Parsed(cmd[t].word)
    BY <1>0 DEF AloneOK, AloneFrame, WritePart, Goto
  <1> HIDE DEF H, B
  <1>2. AloneFrame(t)'
    <2>1. CASE out[t] = <<H, B>>
      <3>1. pc'[t] = "write" /\ out'[t] = <<B>>
        BY <1>0, <1>c, <2>1 DEF TypeOK
      <3>2. line' \in {<<>>, <<H>>}
        BY <1>a, <2>1 DEF WritePart
      <3>3. QED  BY <1>c, <1>d, <3>1, <3>2 DEF AloneFrame, H, B
    <2>2. CASE out[t] = <<B>>
      <3>1. pc'[t] \in {"raise", "after"}
        BY <1>0, <1>c, <2>2 DEF TypeOK
      <3>2. QED  BY <1>c, <1>d, <3>1 DEF AloneFrame
    <2>3. QED  BY <1>b, <2>1, <2>2
  <1>3. AloneAnswered(t)'
    BY <1>0 DEF AloneOK, AloneAnswered, Succeeds, WritePart, Goto, TypeOK, hostVars, queueVars, taskVars, lineVars, histVars
  <1>4. t \in quiet' /\ ReadRight(cmd'[t].word) => QuietAnswers(t)'
    <2> SUFFICES ASSUME t \in quiet, ReadRight(cmd[t].word) PROVE QuietAnswers(t)'
      BY <1>c DEF WritePart
    <2>1. QuietAnswers(t) /\ pc'[t] \in {"raise", "after", "write"}
      BY <1>0, <1>c DEF AloneOK, TypeOK
    <2>2. rxbuf' = rxbuf /\ done \subseteq done'
      BY DEF WritePart, Served, hostVars
    <2>3. CASE air' = air
      BY <2>1, <2>2, <2>3 DEF QuietAnswers, Waiting
    <2>4. CASE air' # air
      <3>1. out[t] = <<B>> /\ line = <<H>> /\ Served(t, B, Parsed(cmd[t].word))
        BY <1>a, <1>b, <2>4 DEF WritePart
      <3>2. Asked(t, Parsed(cmd[t].word), B.val)
        <4>1. pc[t] # "idle" /\ cmd[t] \in Commands
          BY <1>0 DEF PointOK, WritePart, Goto
        <4>2. Parsed(cmd[t].word) = Meant(cmd[t].word)
          BY <4>1, PartTypes, ReadAsMeant
        <4>3. QED  BY <1>a, <4>1, <4>2 DEF Asked
      <3>3. t \in done'
        BY <1>0, <1>a, <3>1, <3>2 DEF Served
      <3>4. QED  BY <2>1, <2>2, <3>3 DEF QuietAnswers, Waiting
    <2>5. QED  BY <2>3, <2>4
  <1>5. QED  BY <1>1, <1>2, <1>3, <1>4 DEF AloneOK

LEMMA AloneRaise ==
  ASSUME TInv, AloneInv, NEW t \in alone, Raise(t)
  PROVE  AloneOK(t)'
  <1>0. t \in Tasks /\ AloneOK(t) /\ PointOK(t) /\ TypeOK
    BY DEF TInv, TypeOK, AloneInv
  <1>1. AloneQueue(t)'
    BY <1>0 DEF AloneOK, AloneQueue, Raise, Goto, PointOK, TypeOK, hostVars, queueVars, taskVars, lineVars, histVars
  <1>2. AloneFrame(t)'
    BY <1>0 DEF AloneOK, AloneFrame, AloneQueue, Raise, Goto, PointOK, TypeOK, hostVars, queueVars, taskVars, lineVars, histVars
  <1>3. AloneAnswered(t)'
    BY <1>0 DEF AloneOK, AloneAnswered, Succeeds, Raise, Goto, Read, Write, TypeOK, hostVars, queueVars, taskVars, lineVars, histVars
  <1>4. t \in quiet' /\ ReadRight(cmd'[t].word) => QuietAnswers(t)'
    BY <1>0 DEF AloneOK, AloneAnswered, QuietAnswers, Raise, Goto, Waiting, TypeOK, hostVars, queueVars, taskVars, lineVars, histVars
  <1>5. QED  BY <1>1, <1>2, <1>3, <1>4 DEF AloneOK

LEMMA AlonePoll ==
  ASSUME TInv, AloneInv, NEW t \in alone, Poll(t)
  PROVE  AloneOK(t)'
  <1>0. t \in Tasks /\ AloneOK(t) /\ PointOK(t) /\ TypeOK
    BY DEF TInv, TypeOK, AloneInv
  <1>1. AloneQueue(t)'
    BY <1>0 DEF AloneOK, AloneQueue, Poll, Goto, PointOK, TypeOK, hostVars, queueVars, taskVars, lineVars, histVars
  <1>2. AloneFrame(t)'
    BY <1>0 DEF AloneOK, AloneFrame, AloneQueue, Poll, Goto, PointOK, TypeOK, hostVars, queueVars, taskVars, lineVars, histVars
  <1>3. AloneAnswered(t)'
    BY <1>0 DEF AloneOK, AloneAnswered, Succeeds, Poll, Goto, TypeOK, hostVars, queueVars, taskVars, lineVars, histVars
  <1>4. t \in quiet' /\ ReadRight(cmd'[t].word) => QuietAnswers(t)'
    BY <1>0 DEF AloneOK, AloneAnswered, QuietAnswers, Poll, Goto, Waiting, TypeOK, hostVars, queueVars, taskVars, lineVars, histVars
  <1>5. QED  BY <1>1, <1>2, <1>3, <1>4 DEF AloneOK

LEMMA AloneDelay ==
  ASSUME TInv, AloneInv, NEW t \in alone, Delay(t)
  PROVE  AloneOK(t)'
  <1>0. t \in Tasks /\ AloneOK(t) /\ PointOK(t) /\ TypeOK
    BY DEF TInv, TypeOK, AloneInv
  <1>1. AloneQueue(t)'
    BY <1>0 DEF AloneOK, AloneQueue, Delay, Goto, PointOK, TypeOK, hostVars, queueVars, taskVars, lineVars, histVars
  <1>2. AloneFrame(t)'
    BY <1>0 DEF AloneOK, AloneFrame, AloneQueue, Delay, Goto, PointOK, TypeOK, hostVars, queueVars, taskVars, lineVars, histVars
  <1>3. AloneAnswered(t)'
    BY <1>0 DEF AloneOK, AloneAnswered, Succeeds, Delay, Goto, TypeOK, hostVars, queueVars, taskVars, lineVars, histVars
  <1>4. t \in quiet' /\ ReadRight(cmd'[t].word) => QuietAnswers(t)'
    BY <1>0 DEF AloneOK, AloneAnswered, QuietAnswers, Delay, Goto, Waiting, TypeOK, hostVars, queueVars, taskVars, lineVars, histVars
  <1>5. QED  BY <1>1, <1>2, <1>3, <1>4 DEF AloneOK

LEMMA AloneCheck ==
  ASSUME TInv, AloneInv, NEW t \in alone, Check(t)
  PROVE  AloneOK(t)'
  <1>0. t \in Tasks /\ AloneOK(t) /\ PointOK(t) /\ TypeOK
    BY DEF TInv, TypeOK, AloneInv
  <1>1. AloneQueue(t)'
    BY <1>0 DEF AloneOK, AloneQueue, Check, Goto, PointOK, TypeOK, hostVars, queueVars, taskVars, lineVars, histVars
  <1>2. AloneFrame(t)'
    BY <1>0 DEF AloneOK, AloneFrame, AloneQueue, Check, Goto, PointOK, TypeOK, hostVars, queueVars, taskVars, lineVars, histVars
  <1>3. AloneAnswered(t)'
    BY <1>0 DEF AloneOK, AloneAnswered, Succeeds, Check, Goto, TypeOK, hostVars, queueVars, taskVars, lineVars, histVars
  <1>4. t \in quiet' /\ ReadRight(cmd'[t].word) => QuietAnswers(t)'
    BY <1>0 DEF AloneOK, AloneAnswered, QuietAnswers, Check, Goto, Waiting, TypeOK, hostVars, queueVars, taskVars, lineVars, histVars
  <1>5. QED  BY <1>1, <1>2, <1>3, <1>4 DEF AloneOK

LEMMA AloneTimeout ==
  ASSUME TInv, AloneInv, NEW t \in alone, Timeout(t)
  PROVE  AloneOK(t)'
  <1>0. t \in Tasks /\ AloneOK(t) /\ PointOK(t) /\ TypeOK
    BY DEF TInv, TypeOK, AloneInv
  <1>1. AloneQueue(t)'
    BY <1>0 DEF AloneOK, AloneQueue, Timeout, Goto, PointOK, TypeOK, hostVars, queueVars, taskVars, lineVars, histVars
  <1>2. AloneFrame(t)'
    BY <1>0 DEF AloneOK, AloneFrame, AloneQueue, Timeout, Goto, PointOK, TypeOK, hostVars, queueVars, taskVars, lineVars, histVars
  <1>3. AloneAnswered(t)'
    BY <1>0 DEF AloneOK, AloneAnswered, Succeeds, Timeout, Goto, TypeOK, hostVars, queueVars, taskVars, lineVars, histVars
  <1>4. t \in quiet' /\ ReadRight(cmd'[t].word) => QuietAnswers(t)'
    BY <1>0 DEF AloneOK, AloneAnswered, QuietAnswers, Timeout, Goto, Waiting, TypeOK, hostVars, queueVars, taskVars, lineVars, histVars
  <1>5. QED  BY <1>1, <1>2, <1>3, <1>4 DEF AloneOK

LEMMA AloneCommand ==
  ASSUME TInv, NEW t \in Tasks, Command(t), t \in alone'
  PROVE  AloneOK(t)'
  <1>1. /\ pc'[t] = "setid" /\ ix'[t] = 1
        /\ \A s \in Slots : ~queue_flag[s]
        /\ UNCHANGED <<queueVars, slave_id, air, rxbuf, line, out, sendbuf>>
    BY DEF Command, Goto, TInv, TypeOK, hostVars, lineVars
  <1>2. AloneQueue(t)'
    BY <1>1 DEF AloneQueue, queueVars
  <1>3. AloneFrame(t)'
    BY <1>1 DEF AloneFrame
  <1>4. AloneAnswered(t)'
    BY <1>1 DEF AloneAnswered, Succeeds
  <1>5. t \in quiet' /\ ReadRight(cmd'[t].word) => QuietAnswers(t)'
    <2>1. t \in quiet' => air = <<>> /\ rxbuf = <<>>
      BY DEF Command
    <2>2. QED  BY <1>1, <2>1, EmptySeq DEF QuietAnswers, Waiting
  <1>6. QED  BY <1>2, <1>3, <1>4, <1>5 DEF AloneOK

\* The interrupts do not disturb a command that has the bus to itself.
LEMMA AloneISR ==
  ASSUME TInv, AloneInv, NEW t \in alone, UartISR \/ LoseAnswer \/ TimerISR
  PROVE  AloneOK(t)'
  <1>0. /\ AloneOK(t) /\ TypeOK /\ UNCHANGED <<queueVars, taskVars, slave_id, sendbuf, line>>
        /\ UNCHANGED <<done, alone, quiet>>
    BY DEF TInv, AloneInv, UartISR, LoseAnswer, TimerISR, hostVars, lineVars, histVars
  <1>1. AloneQueue(t)' /\ AloneFrame(t)'
    BY <1>0 DEF AloneOK, AloneQueue, AloneFrame, queueVars, taskVars
  <1>2. AloneAnswered(t)'
    <2>1. AloneAnswered(t) /\ pc' = pc /\ result' = result
      BY <1>0 DEF AloneOK, taskVars
    <2>2. UNCHANGED <<send_flag, ack>> \/ ack' # {}
      <3>1. CASE UartISR
        BY <3>1 DEF UartISR, histVars
      <3>2. CASE LoseAnswer
        BY <3>2 DEF LoseAnswer, hostVars, histVars
      <3>3. CASE TimerISR
        BY <3>3 DEF TimerISR, Decode, Accept, Ignore
      <3>4. QED  BY <3>1, <3>2, <3>3
    <2>3. QED  BY <2>1, <2>2 DEF AloneAnswered, Succeeds
  <1>3. ASSUME t \in quiet, ReadRight(cmd[t].word) PROVE QuietAnswers(t)'
    <2>1. QuietAnswers(t) /\ taskVars' = taskVars /\ done' = done
      BY <1>0, <1>3 DEF AloneOK
    <2>2. CASE UartISR
      <3>1. t \in done
        BY <2>1, <2>2, LenProperties, EmptySeq DEF QuietAnswers, UartISR, TInv, TypeOK
      <3>2. QED  BY <2>1, <3>1 DEF QuietAnswers
    <2>3. CASE LoseAnswer
      <3>1. t \in done
        BY <2>1, <2>3, LenProperties, EmptySeq DEF QuietAnswers, LoseAnswer, TInv, TypeOK
      <3>2. QED  BY <2>1, <3>1 DEF QuietAnswers
    <2>4. CASE TimerISR
      <3>1. rxbuf' = rxbuf \/ rxbuf' = <<>>
        BY <2>4 DEF TimerISR, Decode
      <3>2. ack' = ack \/ t \in done
        <4>1. ASSUME NEW f \in {Read, Write}, rxbuf # <<>>, Accepts(f) PROVE t \in done
          <5>1. rxbuf[1] # Junk
            BY <4>1 DEF Accepts, FromSlave, Junk, AnsPart
          <5>2. 1 \in 1..Len(rxbuf)
            BY <4>1, LenProperties, EmptySeq DEF TInv, TypeOK
          <5>3. QED  BY <2>1, <5>1, <5>2 DEF QuietAnswers
        <4>2. QED  BY <2>4, <4>1 DEF TimerISR, Decode, Ignore
      <3>3. air' = air
        BY <2>4 DEF TimerISR, lineVars
      <3>4. QED
        BY <2>1, <3>1, <3>2, <3>3, EmptySeq DEF QuietAnswers, taskVars
    <2>5. QED  BY <2>2, <2>3, <2>4
  <1>4. QED  BY <1>0, <1>1, <1>2, <1>3 DEF AloneOK, taskVars

LEMMA AloneInvNext == TInv /\ AloneInv /\ [Next]_vars => AloneInv'
  <1> SUFFICES ASSUME TInv, AloneInv, [Next]_vars PROVE AloneInv'
    OBVIOUS
  <1>1. Solitary'
    BY SolitaryNext DEF AloneInv
  <1>2. ASSUME NEW t \in alone' PROVE AloneOK(t)'
    <2>1. ASSUME NEW u \in Tasks, Command(u) PROVE AloneOK(t)'
      BY <1>2, <2>1, AloneCommand DEF Command
    <2>2. ASSUME NEW u \in Tasks, Run(u) PROVE AloneOK(t)'
      <3>1. pc[u] # "idle" /\ t \in alone
        BY <1>2, <2>2 DEF Run, SetId, FindFree, Fill, Flag, PickUsed, Take, CodeHead, CodeBody,
           CopyFrame, Enable, Before, WritePart, After, Raise, Poll, Delay, Check, Timeout, Release, Goto, histVars
      <3>2. t = u
        BY <3>1, AloneIsActor DEF AloneInv
      <3>3. ~Release(u)
        BY <1>2, <3>2 DEF Release
      <3>4. QED
        BY <2>2, <3>1, <3>2, <3>3, AloneSetId, AloneFindFree, AloneFill, AloneFlag, AlonePickUsed,
           AloneTake, AloneCodeHead, AloneCodeBody, AloneCopyFrame, AloneDriver, AloneWritePart, AloneRaise,
           AlonePoll, AloneDelay, AloneCheck, AloneTimeout DEF Run
    <2>3. CASE UartISR \/ LoseAnswer \/ TimerISR
      <3>1. t \in alone
        BY <1>2, <2>3 DEF UartISR, LoseAnswer, TimerISR, histVars
      <3>2. QED  BY <2>3, <3>1, AloneISR
    <2>4. CASE UNCHANGED vars
      BY <1>2, <2>4 DEF AloneInv, AloneOK, AloneQueue, AloneFrame, AloneAnswered, QuietAnswers,
         Succeeds, vars, hostVars, queueVars, taskVars, lineVars, histVars
    <2>5. QED  BY <2>1, <2>2, <2>3, <2>4 DEF Next
  <1>3. QED  BY <1>1, <1>2 DEF AloneInv

LEMMA AloneInvAlways == Spec => []AloneInv
  <1>1. Init => AloneInv
    BY DEF Init, AloneInv, Solitary
  <1>2. QED  BY <1>1, TInvAlways, AloneInvNext, PTL DEF Spec

\* A command that has the bus to itself sends the identifier it means and its
\* value, unless it is a "485 send" whose identifier is read wrongly.
THEOREM FrameIsAlwaysCommand == Spec => []FrameIsCommand
  <1>1. TInv /\ AloneInv => FrameIsCommand
    <2> SUFFICES ASSUME TInv, AloneInv, NEW t \in alone, pc[t] = "write",
                        ReadRight(cmd[t].word), NEW i \in 1..Len(out[t])
                 PROVE  out[t][i] \in {HeadPart(Meant(cmd[t].word)), BodyPart(Write, cmd[t].val)}
      BY DEF FrameIsCommand
    <2> DEFINE H == HeadPart(Parsed(cmd[t].word))
               B == BodyPart(Write, cmd[t].val)
    <2>1. out[t] = <<H, B>> \/ out[t] = <<B>>
      BY DEF AloneInv, AloneOK, AloneFrame
    <2>2. H = HeadPart(Meant(cmd[t].word))
      <3>1. t \in Tasks /\ cmd[t] \in Commands
        BY DEF TInv, TypeOK, PointOK
      <3>2. QED  BY <3>1, PartTypes, ReadAsMeant
    <2> HIDE DEF H, B
    <2>3. out[t][i] \in {H, B}
      BY <2>1
    <2>4. QED  BY <2>2, <2>3 DEF B
  <1>2. QED  BY <1>1, TInvAlways, AloneInvAlways, PTL

\* A command that has the bus to itself succeeds only on an answer that the
\* timer interrupt accepted after the request was sent.
THEOREM SuccessIsAlwaysAnswered == Spec => []SuccessIsAnswered
  <1>1. AloneInv => SuccessIsAnswered
    BY DEF AloneInv, AloneOK, AloneAnswered, SuccessIsAnswered
  <1>2. QED  BY <1>1, AloneInvAlways, PTL

\* "send ok" is true of a command that has the bus to itself and that began on
\* a quiet line, unless it is a "485 send" whose identifier is read wrongly:
\* the slave it named has executed its write.
THEOREM SuccessIsAlwaysGenuine == Spec => []SuccessIsGenuine
  <1>1. AloneInv => SuccessIsGenuine
    BY DEF AloneInv, AloneOK, AloneAnswered, QuietAnswers, Succeeds, SuccessIsGenuine
  <1>2. QED  BY <1>1, AloneInvAlways, PTL

-----------------------------------------------------------------------------
(* The write queue of a single task.                                       *)

OneTask == Tasks # {} /\ \A t, u \in Tasks : t = u

\* No slot but those in S is used.
UsedOnly(S) == \A s \in Slots : queue_flag[s] => s \in S

BeforeFlag == {"idle", "setid", "find", "fill", "flag"}

\* Where the command's slot is: nowhere until it is flagged, then the only one
\* used, until it is taken (RS485) or released (LoRa).
Drains(t) ==
  /\ pc[t] \in BeforeFlag => UsedOnly({})
  /\ pc[t] = "sync" => \E s \in Slots : UsedOnly({s})
  /\ pc[t] = "take" => UsedOnly({ix[t]})
  /\ pc[t] \in AfterPick => UsedOnly(IF Lora THEN {ix[t]} ELSE {})

DrainInv == \A t \in Tasks : Drains(t)

LEMMA DrainNext ==
  ASSUME OneTask
  PROVE  TInv /\ DrainInv /\ [Next]_vars => DrainInv'
  <1> SUFFICES ASSUME TInv, DrainInv, [Next]_vars, NEW t \in Tasks PROVE Drains(t)'
    BY DEF DrainInv
  <1> USE DEF Drains, UsedOnly, Goto, AfterPick, Waiting, BeforeFlag
  <1>0. Drains(t) /\ pc \in [Tasks -> Labels] /\ ix \in [Tasks -> Nat] /\ PointOK(t)
    BY DEF DrainInv, TInv, TypeOK
  <1>1. CASE Command(t)
    BY <1>0, <1>1 DEF Command, queueVars
  <1>2. CASE SetId(t)
    BY <1>0, <1>2 DEF SetId, queueVars
  <1>3. CASE FindFree(t)
    <2>1. 1 \in Slots
      BY BusAssumption DEF Slots
    <2>2. {s \in Slots : ~queue_flag[s]} # {}
      BY <1>0, <1>3, <2>1 DEF FindFree
    <2>3. QED  BY <1>0, <1>3, <2>2 DEF FindFree, queueVars
  <1>4. CASE Fill(t)
    BY <1>0, <1>4 DEF Fill
  <1>5. CASE Flag(t)
    <2>1. ix[t] \in Slots /\ UsedOnly({})
      BY <1>0, <1>5 DEF Flag, PointOK
    <2>2. \A s \in Slots : queue_flag'[s] => s = ix[t]
      BY <2>1, <1>5 DEF Flag, TInv, TypeOK
    <2>3. pc[t] = "flag" /\ pc'[t] = "sync"
      BY <1>0, <1>5 DEF Flag
    <2>4. QED  BY <2>1, <2>2, <2>3
  <1>6. CASE PickUsed(t)
    <2> DEFINE used == {s \in Slots : queue_flag[s]}
    <2>1. PICK s \in Slots : UsedOnly({s})
      BY <1>0, <1>6 DEF PickUsed
    <2>2. PICK r \in FirstOf(used) : ix' = [ix EXCEPT ![t] = r]
      BY <1>6 DEF PickUsed
    <2>3. used # {} => r \in used /\ used = {r}
      BY <2>1, <2>2 DEF FirstOf
    <2>4. used # {} => UsedOnly({ix[t]})'
      BY <1>0, <1>6, <2>2, <2>3 DEF PickUsed, queueVars
    <2>5. used = {} => UsedOnly({})'
      BY <1>6 DEF PickUsed, queueVars
    <2>6. QED  BY <1>0, <1>6, <2>4, <2>5 DEF PickUsed
  <1>7. CASE Take(t)
    BY <1>0, <1>7 DEF Take, TInv, TypeOK
  <1>8. CASE \/ CodeHead(t) \/ CodeBody(t) \/ CopyFrame(t) \/ Enable(t) \/ Before(t)
             \/ WritePart(t) \/ After(t) \/ Raise(t)
    BY <1>0, <1>8 DEF CodeHead, CodeBody, CopyFrame, Enable, Before, WritePart, After, Raise, queueVars
  <1>9. CASE Poll(t) \/ Delay(t) \/ Check(t) \/ Timeout(t)
    BY <1>0, <1>9 DEF Poll, Delay, Check, Timeout, queueVars
  <1>10. CASE Release(t)
    <2>1. UsedOnly(IF Lora THEN {ix[t]} ELSE {}) /\ ix[t] \in Slots \cup {0} /\ 0 \notin Slots
      BY <1>0, <1>10 DEF Release, PointOK, Slots
    <2>2. \A s \in Slots : ~queue_flag'[s]
      BY <2>1, <1>10 DEF Release, FreedAfter, TInv, TypeOK
    <2>3. QED  BY <1>0, <1>10, <2>2 DEF Release
  <1>11. CASE UartISR \/ LoseAnswer \/ TimerISR
    BY <1>0, <1>11 DEF UartISR, LoseAnswer, TimerISR, queueVars, taskVars
  <1>12. CASE UNCHANGED vars
    BY <1>0, <1>12 DEF vars, queueVars, taskVars
  <1>13. QED
    <2>1. ASSUME NEW u \in Tasks PROVE u = t
      BY DEF OneTask
    <2>2. QED
      BY <1>1, <1>2, <1>3, <1>4, <1>5, <1>6, <1>7, <1>8, <1>9, <1>10, <1>11, <1>12, <2>1
         DEF Next, Run

\* A single task's commands leave the queue as empty as they found it, whatever
\* becomes of their requests, with any number of slots and on either bus.
THEOREM QueueAlwaysDrains ==
  ASSUME OneTask
  PROVE  Spec => []QueueDrains
  <1>1. Init => DrainInv
    BY DEF Init, DrainInv, Drains, UsedOnly, AfterPick, Waiting
  <1>2. DrainInv => QueueDrains
    <2> SUFFICES ASSUME DrainInv, \A t \in Tasks : pc[t] = "idle", NEW s \in Slots
                 PROVE  ~queue_flag[s]
      BY DEF QueueDrains
    <2>1. PICK t \in Tasks : TRUE
      BY DEF OneTask
    <2>2. UsedOnly({})
      BY <2>1 DEF DrainInv, Drains, BeforeFlag
    <2>3. QED  BY <2>2 DEF UsedOnly
  <1>3. TInv /\ DrainInv /\ [Next]_vars => DrainInv'
    BY DrainNext
  <1>4. QED  BY <1>1, <1>2, <1>3, TInvAlways, PTL DEF Spec
=============================================================================
