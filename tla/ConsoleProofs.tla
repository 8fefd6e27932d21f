---------------------------- MODULE ConsoleProofs ----------------------------
(***************************************************************************)
(* The console implements LineSource, for every fifo and alphabet: as long *)
(* as nothing is spoilt, what read_data found at its first search is what  *)
(* it finds at the second, copies and erases, because bytes that come      *)
(* meanwhile are appended behind the end of the line.                      *)
(***************************************************************************)
EXTENDS Console, LeastElement, SequenceTheorems, TLAPS

Unread == CASE task = "erase"   -> SubSeq(fifo, Limit(len_t) + 1, Len(fifo))
            [] task = "shorten" -> SubSeq(fifo, 1, Len(fifo) - len_t)
            [] OTHER            -> fifo

\* Where read_data stands, if nothing is spoilt.
Found ==
  /\ task = "again" => LineEnd(fifo) # 0
  /\ task \in {"substr", "erase"} => len_t # 0 /\ len_t = LineEnd(fifo)
  /\ task = "erase" => da = SubSeq(fifo, 1, len_t)

LInv ==
  /\ ConsoleTypeOK
  /\ task \in {"sleep", "find", "again", "substr"} => da = <<>>
  /\ ~spoilt => Found

-----------------------------------------------------------------------------
\* The first end of a line is one, and none is before it.
LEMMA FirstEndFirst ==
  ASSUME NEW s \in Seq(Bytes)
  PROVE  /\ Ends(s) = {} => LineEnd(s) = 0
         /\ Ends(s) # {} => /\ LineEnd(s) \in Ends(s) /\ LineEnd(s) \in 2..Len(s)
                            /\ \A j \in Ends(s) : LineEnd(s) <= j
  <1>1. Ends(s) \in SUBSET Nat /\ Ends(s) \subseteq 2..Len(s)
    BY DEF Ends
  <1>2. ASSUME Ends(s) # {}
        PROVE  /\ FirstEnd(s) \in Ends(s)
               /\ \A j \in Ends(s) : FirstEnd(s) <= j
    <2>1. \E k \in Ends(s) : \A j \in Ends(s) : k <= j
      BY <1>1, <1>2, Least
    <2>2. QED  BY <2>1 DEF FirstEnd
  <1>3. QED  BY <1>1, <1>2 DEF LineEnd

\* A byte behind it changes nothing for the first line.
LEMMA EndKept ==
  ASSUME NEW s \in Seq(Bytes), NEW b \in Bytes, LineEnd(s) # 0
  PROVE  LineEnd(Append(s, b)) = LineEnd(s)
  <1> DEFINE t == Append(s, b)
  <1>1. /\ t \in Seq(Bytes) /\ Len(t) = Len(s) + 1 /\ Len(s) \in Nat
        /\ \A i \in 1..Len(s) : t[i] = s[i]
    OBVIOUS
  <1>2. LineEnd(s) \in Ends(s) /\ LineEnd(s) \in 2..Len(s) /\ \A j \in Ends(s) : LineEnd(s) <= j
    BY FirstEndFirst
  <1>3. ASSUME NEW k \in 2..Len(s) PROVE k \in Ends(t) <=> k \in Ends(s)
    <2>1. k - 1 \in 1..Len(s) /\ k \in 1..Len(s) /\ k \in 2..Len(t)
      BY <1>1
    <2>2. t[k - 1] = s[k - 1] /\ t[k] = s[k]
      BY <1>1, <2>1
    <2>3. QED  BY <2>1, <2>2 DEF Ends
  <1>4. LineEnd(s) \in Ends(t)
    BY <1>2, <1>3
  <1>5. LineEnd(t) \in Ends(t) /\ LineEnd(t) \in 2..Len(t) /\ LineEnd(t) <= LineEnd(s)
    BY <1>1, <1>4, FirstEndFirst
  <1>6. LineEnd(t) \in Ends(s)
    BY <1>1, <1>2, <1>3, <1>5
  <1>7. LineEnd(s) <= LineEnd(t)
    BY <1>2, <1>6
  <1>8. QED  BY <1>2, <1>5, <1>7

\* The first line is a line.
LEMMA FirstIsLine ==
  ASSUME NEW s \in Seq(Bytes), LineEnd(s) # 0
  PROVE  Lines!IsLine(SubSeq(s, 1, LineEnd(s)))
  <1> DEFINE n == LineEnd(s)
             line == SubSeq(s, 1, n)
  <1>1. n \in Ends(s) /\ n \in 2..Len(s) /\ \A j \in Ends(s) : n <= j
    BY FirstEndFirst
  <1>2. Len(s) \in Nat /\ \A i \in 1..n : s[i] \in Bytes
    BY <1>1
  <1>3. line \in Seq(Bytes) /\ Len(line) = n /\ \A i \in 1..n : line[i] = s[i]
    <2> HIDE DEF n
    <2>1. 1 \in Int /\ n \in Int /\ 1 <= n
      BY <1>1
    <2>2. /\ SubSeq(s, 1, n) \in Seq(Bytes)
          /\ Len(SubSeq(s, 1, n)) = IF 1 <= n THEN n - 1 + 1 ELSE 0
          /\ \A i \in 1..(n - 1 + 1) : SubSeq(s, 1, n)[i] = s[1 + i - 1]
      BY <1>2, <2>1, SubSeqProperties
    <2>3. QED  BY <2>1, <2>2
  <1>4. ASSUME NEW k \in 1..n PROVE Lines!Ended(line, k) <=> k \in Ends(s)
    <2> HIDE DEF n, line
    <2>1. k >= 2 => line[k - 1] = s[k - 1]
      BY <1>1, <1>3
    <2>2. line[k] = s[k] /\ k <= Len(line) /\ k <= Len(s)
      BY <1>1, <1>2, <1>3
    <2>3. QED  BY <1>2, <2>1, <2>2 DEF Lines!Ended, Ends
  <1> HIDE DEF n, line
  <1>5. Lines!Ended(line, Len(line))
    BY <1>1, <1>3, <1>4
  <1>6. \A k \in 1..(Len(line) - 1) : ~Lines!Ended(line, k)
    BY <1>1, <1>2, <1>3, <1>4
  <1>7. Lines!IsLine(line)
    BY <1>5, <1>6 DEF Lines!IsLine
  <1>8. QED  BY <1>7 DEF n, line

-----------------------------------------------------------------------------
\* Parts of the fifo.
LEMMA Part ==
  ASSUME NEW s \in Seq(Bytes), NEW m \in Nat \ {0}, NEW n \in 0..Len(s)
  PROVE  /\ SubSeq(s, m, n) \in Seq(Bytes)
         /\ Len(SubSeq(s, m, n)) = IF m <= n THEN n - m + 1 ELSE 0
         /\ \A i \in 1..(n - m + 1) : SubSeq(s, m, n)[i] = s[m + i - 1]
  <1>1. \A i \in m..n : s[i] \in Bytes
    OBVIOUS
  <1>2. QED  BY <1>1, SubSeqProperties

\* What erase leaves behind once it is shortened: what followed.
LEMMA Moved ==
  ASSUME NEW s \in Seq(Bytes), NEW n \in 0..Len(s),
         NEW t, t = SubSeq(s, n + 1, Len(s)) \o SubSeq(s, Len(s) - n + 1, Len(s))
  PROVE  /\ t \in Seq(Bytes) /\ Len(t) = Len(s)
         /\ SubSeq(t, 1, Len(t) - n) = SubSeq(s, n + 1, Len(s))
  <1> DEFINE u == SubSeq(s, n + 1, Len(s))
             v == SubSeq(s, Len(s) - n + 1, Len(s))
             L == Len(s)
  <1>1. L \in Nat /\ n \in Nat /\ n <= L
    OBVIOUS
  <1>2. u \in Seq(Bytes) /\ Len(u) = L - n
    <2>1. n + 1 \in Nat \ {0} /\ L \in 0..Len(s)
      BY <1>1
    <2>2. u \in Seq(Bytes) /\ Len(u) = IF n + 1 <= L THEN L - (n + 1) + 1 ELSE 0
      BY <2>1, Part
    <2>3. QED  BY <1>1, <2>2
  <1>3. v \in Seq(Bytes) /\ Len(v) = n
    <2>1. L - n + 1 \in Nat \ {0} /\ L \in 0..Len(s)
      BY <1>1
    <2>2. v \in Seq(Bytes) /\ Len(v) = IF L - n + 1 <= L THEN L - (L - n + 1) + 1 ELSE 0
      BY <2>1, Part
    <2>3. QED  BY <1>1, <2>2
  <1> HIDE DEF u, v, L
  <1>4. t = u \o v
    BY DEF u, v, L
  <1>5. t \in Seq(Bytes) /\ Len(t) = L
    <2>1. u \o v \in Seq(Bytes) /\ Len(u \o v) = Len(u) + Len(v)
      BY <1>2, <1>3, ConcatProperties
    <2>2. Len(u) + Len(v) = L
      BY <1>1, <1>2, <1>3
    <2>3. QED  BY <1>4, <2>1, <2>2
  <1>6. SubSeq(t, 1, Len(t) - n) = u
    <2>1. CASE n = L
      <3>1. u = <<>>
        BY <1>1, <1>2, <2>1
      <3>2. SubSeq(t, 1, 0) = <<>>
        BY SubSeqEmpty
      <3>3. Len(t) - n = 0
        <4>1. L - n = 0
          BY <1>1, <2>1
        <4>2. QED  BY <1>5, <4>1
      <3>4. QED  BY <3>1, <3>2, <3>3
    <2>2. CASE n # L
      <3>1. 1 \in 1..Len(u) /\ Len(u) \in 1..Len(u)
        BY <1>1, <1>2, <2>2
      <3>2. SubSeq(u \o v, 1, Len(u)) = SubSeq(u, 1, Len(u))
        BY <1>2, <1>3, <3>1, SubSeqOfConcat1
      <3>3. SubSeq(u, 1, Len(u)) = u
        BY <1>2, SubSeqFull
      <3>4. QED  BY <1>2, <1>4, <1>5, <3>2, <3>3
    <2>3. QED  BY <2>1, <2>2
  <1>7. QED  BY <1>5, <1>6 DEF u, L

\* A byte behind the fifo is a byte behind every end of it.
LEMMA PartAppended ==
  ASSUME NEW s \in Seq(Bytes), NEW b \in Bytes, NEW n \in 0..Len(s)
  PROVE  /\ SubSeq(Append(s, b), n + 1, Len(s) + 1) = Append(SubSeq(s, n + 1, Len(s)), b)
         /\ SubSeq(Append(s, b), 1, n) = SubSeq(s, 1, n)
  <1> DEFINE L == Len(s)
             t == Append(s, b)
             u == SubSeq(s, n + 1, L)
  <1>1. /\ L \in Nat /\ n \in Nat /\ n <= L /\ t \in Seq(Bytes) /\ Len(t) = L + 1
        /\ \A i \in 1..L : t[i] = s[i]
        /\ t[L + 1] = b
    BY AppendProperties
  <1>2. /\ u \in Seq(Bytes) /\ Len(u) = L - n /\ \A i \in 1..(L - n) : u[i] = s[n + i]
    <2>1. n + 1 \in Nat \ {0} /\ L \in 0..Len(s)
      BY <1>1
    <2>2. /\ u \in Seq(Bytes) /\ Len(u) = IF n + 1 <= L THEN L - (n + 1) + 1 ELSE 0
          /\ \A i \in 1..(L - (n + 1) + 1) : u[i] = s[n + 1 + i - 1]
      BY <2>1, Part
    <2>3. QED  BY <1>1, <2>2
  <1>3. /\ SubSeq(t, n + 1, L + 1) \in Seq(Bytes) /\ Len(SubSeq(t, n + 1, L + 1)) = L + 1 - n
        /\ \A i \in 1..(L + 1 - n) : SubSeq(t, n + 1, L + 1)[i] = t[n + i]
    <2>1. n + 1 \in Nat \ {0} /\ L + 1 \in 0..Len(t)
      BY <1>1
    <2>2. /\ SubSeq(t, n + 1, L + 1) \in Seq(Bytes)
          /\ Len(SubSeq(t, n + 1, L + 1)) = IF n + 1 <= L + 1 THEN L + 1 - (n + 1) + 1 ELSE 0
          /\ \A i \in 1..(L + 1 - (n + 1) + 1) : SubSeq(t, n + 1, L + 1)[i] = t[n + 1 + i - 1]
      BY <1>1, <2>1, Part
    <2>3. QED  BY <1>1, <2>2
  <1>4. /\ SubSeq(t, 1, n) \in Seq(Bytes) /\ Len(SubSeq(t, 1, n)) = n
        /\ \A i \in 1..n : SubSeq(t, 1, n)[i] = t[i]
    <2>1. 1 \in Nat \ {0} /\ n \in 0..Len(t)
      BY <1>1
    <2>2. /\ SubSeq(t, 1, n) \in Seq(Bytes)
          /\ Len(SubSeq(t, 1, n)) = IF 1 <= n THEN n - 1 + 1 ELSE 0
          /\ \A i \in 1..(n - 1 + 1) : SubSeq(t, 1, n)[i] = t[1 + i - 1]
      BY <1>1, <2>1, Part
    <2>3. QED  BY <1>1, <2>2
  <1>5. /\ SubSeq(s, 1, n) \in Seq(Bytes) /\ Len(SubSeq(s, 1, n)) = n
        /\ \A i \in 1..n : SubSeq(s, 1, n)[i] = s[i]
    <2>1. 1 \in Nat \ {0}
      OBVIOUS
    <2>2. /\ SubSeq(s, 1, n) \in Seq(Bytes)
          /\ Len(SubSeq(s, 1, n)) = IF 1 <= n THEN n - 1 + 1 ELSE 0
          /\ \A i \in 1..(n - 1 + 1) : SubSeq(s, 1, n)[i] = s[1 + i - 1]
      BY <2>1, Part
    <2>3. QED  BY <1>1, <2>2
  <1> HIDE DEF L, t, u
  <1>6. /\ Append(u, b) \in Seq(Bytes) /\ Len(Append(u, b)) = L + 1 - n
        /\ \A i \in 1..(L - n) : Append(u, b)[i] = u[i]
        /\ Append(u, b)[L + 1 - n] = b
    <2>1. /\ Append(u, b) \in Seq(Bytes) /\ Len(Append(u, b)) = Len(u) + 1
          /\ \A i \in 1..Len(u) : Append(u, b)[i] = u[i]
          /\ Append(u, b)[Len(u) + 1] = b
      BY <1>2, AppendProperties
    <2>2. Len(u) + 1 = L + 1 - n
      BY <1>1, <1>2
    <2>3. QED  BY <1>2, <2>1, <2>2
  <1>7. SubSeq(t, n + 1, L + 1) = Append(u, b)
    <2>1. ASSUME NEW i \in 1..(L + 1 - n) PROVE SubSeq(t, n + 1, L + 1)[i] = Append(u, b)[i]
      <3>1. SubSeq(t, n + 1, L + 1)[i] = t[n + i]
        BY <1>3
      <3>2. CASE i = L + 1 - n
        BY <1>1, <1>6, <3>1, <3>2
      <3>3. CASE i # L + 1 - n
        <4>1. i \in 1..(L - n) /\ n + i \in 1..L
          BY <1>1, <3>3
        <4>2. QED  BY <1>1, <1>2, <1>6, <3>1, <4>1
      <3>4. QED  BY <3>2, <3>3
    <2>2. QED  BY <1>3, <1>6, <2>1, SeqEqual
  <1>8. SubSeq(t, 1, n) = SubSeq(s, 1, n)
    <2>1. \A i \in 1..n : t[i] = s[i]
      BY <1>1
    <2>2. QED  BY <1>4, <1>5, <2>1, SeqEqual
  <1>9. QED  BY <1>7, <1>8 DEF L, t, u

-----------------------------------------------------------------------------
LEMMA LInvInit == ConsoleInit => LInv
  <1> SUFFICES ASSUME ConsoleInit PROVE LInv
    OBVIOUS
  <1>1. /\ fifo = <<>> /\ task = "sleep" /\ len_t = 0 /\ da = <<>>
        /\ typed = 0 /\ spoilt = FALSE
    BY DEF ConsoleInit
  <1>2. <<>> \in Seq(Bytes) /\ Len(<<>>) = 0
    OBVIOUS
  <1>3. 0 \in 0..MaxFifo /\ 0 <= MaxFifo /\ 0 \in 0..MaxTyped
    BY ConsoleAssumption
  <1>4. ConsoleTypeOK
    BY <1>1, <1>2, <1>3 DEF ConsoleTypeOK
  <1>5. QED  BY <1>1, <1>4 DEF LInv, Found

\* A byte comes: what the fifo then holds.
LEMMA ReceivedFifo ==
  ASSUME ConsoleTypeOK, NEW b \in Bytes, Receive(b)
  PROVE  /\ fifo' \in Seq(Bytes) /\ Len(fifo') <= MaxFifo /\ Len(fifo) <= Len(fifo')
         /\ Len(fifo) # MaxFifo => fifo' = Append(fifo, b) /\ Len(fifo') = Len(fifo) + 1
  <1>1. /\ fifo \in Seq(Bytes) /\ Len(fifo) \in Nat /\ Len(fifo) <= MaxFifo /\ MaxFifo \in Nat
    BY ConsoleAssumption DEF ConsoleTypeOK
  <1>2. /\ Append(fifo, b) \in Seq(Bytes) /\ Append(fifo, b) # <<>>
        /\ Len(Append(fifo, b)) = Len(fifo) + 1
    BY <1>1, AppendProperties
  <1>3. fifo' = Capped(Append(fifo, b))
    BY DEF Receive
  <1>4. CASE Len(fifo) = MaxFifo
    <2>1. fifo' = Tail(Append(fifo, b))
      BY <1>1, <1>2, <1>3, <1>4 DEF Capped
    <2>2. /\ Tail(Append(fifo, b)) \in Seq(Bytes)
          /\ Len(Tail(Append(fifo, b))) = Len(Append(fifo, b)) - 1
      BY <1>2, HeadTailProperties
    <2>3. QED  BY <1>1, <1>2, <1>4, <2>1, <2>2
  <1>5. CASE Len(fifo) # MaxFifo
    BY <1>1, <1>2, <1>3, <1>5 DEF Capped
  <1>6. QED  BY <1>4, <1>5

LEMMA ReceiveKeeps ==
  ASSUME LInv, NEW b \in Bytes, Receive(b)
  PROVE  LInv'
  <1>1. UNCHANGED <<task, len_t, da>> /\ ConsoleTypeOK
    BY DEF Receive, LInv
  <1>2. /\ fifo' \in Seq(Bytes) /\ Len(fifo') <= MaxFifo /\ Len(fifo) <= Len(fifo')
        /\ Len(fifo) # MaxFifo => fifo' = Append(fifo, b)
        /\ Len(fifo) \in Nat /\ Len(fifo') \in Nat /\ fifo \in Seq(Bytes)
    BY <1>1, ReceivedFifo DEF ConsoleTypeOK
  <1>3. ConsoleTypeOK'
    <2>1. typed' \in 0..MaxTyped /\ spoilt' \in BOOLEAN
      BY <1>1, ConsoleAssumption DEF Receive, ConsoleTypeOK
    <2>2. task' = "shorten" => len_t' <= Len(fifo')
      <3>1. len_t \in Nat
        BY <1>1, ConsoleAssumption DEF ConsoleTypeOK
      <3>2. QED  BY <1>1, <1>2, <3>1 DEF ConsoleTypeOK
    <2>3. QED  BY <1>1, <1>2, <2>1, <2>2 DEF ConsoleTypeOK
  <1>4. ASSUME ~spoilt' PROVE Found'
    <2>1. ~spoilt /\ Len(fifo) # MaxFifo
      BY <1>1, <1>4 DEF Receive, ConsoleTypeOK
    <2>2. Found /\ fifo' = Append(fifo, b)
      BY <1>2, <2>1 DEF LInv
    <2>3. LineEnd(fifo) # 0 => LineEnd(fifo') = LineEnd(fifo)
      BY <1>2, <2>2, EndKept
    <2>4. task = "erase" => SubSeq(fifo', 1, len_t) = SubSeq(fifo, 1, len_t)
      <3> SUFFICES ASSUME task = "erase" PROVE SubSeq(fifo', 1, len_t) = SubSeq(fifo, 1, len_t)
        OBVIOUS
      <3>1. len_t \in 0..Len(fifo)
        <4>1. LineEnd(fifo) # 0 /\ len_t = LineEnd(fifo)
          BY <2>2 DEF Found
        <4>2. QED  BY <1>2, <4>1, FirstEndFirst
      <3>2. QED  BY <1>2, <2>2, <3>1, PartAppended
    <2>5. LineEnd(fifo)' = LineEnd(fifo')
      BY DEF LineEnd, FirstEnd, Ends
    <2>6. QED  BY <1>1, <2>2, <2>3, <2>4, <2>5 DEF Found
  <1>5. QED  BY <1>1, <1>3, <1>4 DEF LInv

LEMMA TaskKeeps ==
  ASSUME LInv, TaskStep
  PROVE  LInv'
  <1>1. /\ ConsoleTypeOK /\ fifo \in Seq(Bytes) /\ Len(fifo) \in Nat /\ Len(fifo) <= MaxFifo
        /\ MaxFifo \in Nat \ {0} /\ len_t \in 0..MaxFifo
    BY ConsoleAssumption DEF LInv, ConsoleTypeOK
  <1>2. LineEnd(fifo) \in 0..Len(fifo)
    BY <1>1, FirstEndFirst
  <1>3. Limit(len_t) \in 0..Len(fifo)
    BY <1>1 DEF Limit
  <1>4. CASE Available \/ Find
    BY <1>1, <1>4 DEF Available, Find, LInv, ConsoleTypeOK, Found
  <1>10. CASE Execute
    <2>1. /\ task' = "sleep" /\ da' = <<>> /\ len_t' = 0
          /\ UNCHANGED <<fifo, typed, spoilt>>
      BY <1>10 DEF Execute
    <2>2. <<>> \in Seq(Bytes) /\ 0 \in 0..MaxFifo
      BY <1>1
    <2>3. QED  BY <1>1, <2>1, <2>2 DEF LInv, ConsoleTypeOK, Found
  <1>5. CASE FindAgain
    <2>1. len_t' \in 0..MaxFifo
      BY <1>1, <1>2, <1>5 DEF FindAgain
    <2>2. QED  BY <1>1, <1>5, <2>1 DEF FindAgain, LInv, ConsoleTypeOK, Found
  <1>6. CASE Substr
    <2>1. da' \in Seq(Bytes)
      <3>1. 1 \in Nat \ {0} /\ Limit(len_t) \in 0..Len(fifo)
        BY <1>3
      <3>2. QED  BY <1>1, <1>6, <3>1, Part DEF Substr
    <2>2. ~spoilt => len_t <= Len(fifo)
      BY <1>1, <1>2, <1>6 DEF Substr, LInv, Found
    <2>3. ~spoilt => da' = SubSeq(fifo, 1, len_t)
      BY <1>6, <2>2 DEF Substr, Limit
    <2>4. QED  BY <1>1, <1>6, <2>1, <2>3 DEF Substr, LInv, ConsoleTypeOK, Found
  <1>7. CASE Erase
    <2>1. /\ len_t' = Limit(len_t)
          /\ fifo' = SubSeq(fifo, Limit(len_t) + 1, Len(fifo))
                       \o SubSeq(fifo, Len(fifo) - Limit(len_t) + 1, Len(fifo))
          /\ task' = "shorten" /\ UNCHANGED <<da, typed, spoilt>>
      BY <1>7 DEF Erase
    <2>2. fifo' \in Seq(Bytes) /\ Len(fifo') = Len(fifo)
      BY <1>1, <1>3, <2>1, Moved
    <2>3. len_t' \in 0..MaxFifo /\ len_t' <= Len(fifo')
      BY <1>1, <1>3, <2>1, <2>2
    <2>4. QED  BY <1>1, <2>1, <2>2, <2>3 DEF LInv, ConsoleTypeOK, Found
  <1>8. CASE Shorten
    <2>1. /\ fifo' = SubSeq(fifo, 1, Len(fifo) - len_t) /\ task = "shorten"
          /\ spoilt' = (spoilt /\ fifo' # <<>>)
          /\ task' = "execute" /\ UNCHANGED <<len_t, da, typed>>
      BY <1>8 DEF Shorten
    <2>2. Len(fifo) - len_t \in 0..Len(fifo)
      BY <1>1, <2>1 DEF ConsoleTypeOK
    <2>3. /\ fifo' \in Seq(Bytes)
          /\ Len(fifo') = IF 1 <= Len(fifo) - len_t THEN Len(fifo) - len_t - 1 + 1 ELSE 0
      <3>1. 1 \in Nat \ {0}
        OBVIOUS
      <3>2. QED  BY <1>1, <2>1, <2>2, <3>1, Part
    <2>4. Len(fifo') <= MaxFifo
      BY <1>1, <2>2, <2>3
    <2>5. spoilt' \in BOOLEAN
      BY <1>1, <2>1 DEF ConsoleTypeOK
    <2>6. QED  BY <1>1, <2>1, <2>3, <2>4, <2>5 DEF LInv, ConsoleTypeOK, Found
  <1>9. QED  BY <1>4, <1>5, <1>6, <1>7, <1>8, <1>10 DEF TaskStep

LEMMA LInvNext == LInv /\ [ConsoleNext]_consoleVars => LInv'
  <1> SUFFICES ASSUME LInv, [ConsoleNext]_consoleVars PROVE LInv'
    OBVIOUS
  <1>1. CASE UNCHANGED consoleVars
    <2>1. LineEnd(fifo)' = LineEnd(fifo)
      BY <1>1 DEF consoleVars, LineEnd, FirstEnd, Ends
    <2>2. QED  BY <1>1, <2>1 DEF consoleVars, LInv, ConsoleTypeOK, Found
  <1>2. QED  BY <1>1, ReceiveKeeps, TaskKeeps DEF ConsoleNext

LEMMA LInvAlways == ConsoleSpec => []LInv
  BY LInvInit, LInvNext, PTL DEF ConsoleSpec

\* The console's variables keep their types; the fifo never holds more than it
\* may, and erase never cuts off more than there is.
THEOREM ConsoleTypes == ConsoleSpec => []ConsoleTypeOK
  <1>1. LInv => ConsoleTypeOK
    BY DEF LInv
  <1>2. QED  BY <1>1, LInvAlways, PTL

-----------------------------------------------------------------------------
\* The refinement.
LEMMA UnreadTyped == LInv => Unread \in Seq(Bytes) /\ da \in Seq(Bytes)
  <1> SUFFICES ASSUME LInv PROVE Unread \in Seq(Bytes)
    BY DEF LInv, ConsoleTypeOK
  <1>1. /\ fifo \in Seq(Bytes) /\ Len(fifo) \in Nat /\ len_t \in Nat
        /\ task = "shorten" => len_t <= Len(fifo)
    BY ConsoleAssumption DEF LInv, ConsoleTypeOK
  <1>2. CASE task = "erase"
    <2>1. Limit(len_t) + 1 \in Nat \ {0} /\ Len(fifo) \in 0..Len(fifo)
      BY <1>1 DEF Limit
    <2>2. SubSeq(fifo, Limit(len_t) + 1, Len(fifo)) \in Seq(Bytes)
      BY <1>1, <2>1, Part
    <2>3. QED  BY <1>2, <2>2 DEF Unread
  <1>3. CASE task = "shorten"
    <2>1. 1 \in Nat \ {0} /\ Len(fifo) - len_t \in 0..Len(fifo)
      BY <1>1, <1>3
    <2>2. SubSeq(fifo, 1, Len(fifo) - len_t) \in Seq(Bytes)
      BY <1>1, <2>1, Part
    <2>3. QED  BY <1>3, <2>2 DEF Unread
  <1>4. CASE task # "erase" /\ task # "shorten"
    BY <1>1, <1>4 DEF Unread
  <1>5. QED  BY <1>2, <1>3, <1>4

\* A byte that spoils nothing is typed: it comes behind everything unread.
LEMMA ReceiveTypes ==
  ASSUME LInv, NEW b \in Bytes, Receive(b), ~spoilt'
  PROVE  Unread' = Append(Unread, b) /\ UNCHANGED <<da, spoilt>>
  <1>1. /\ fifo \in Seq(Bytes) /\ Len(fifo) \in Nat /\ len_t \in Nat
        /\ spoilt \in BOOLEAN /\ ConsoleTypeOK
    BY ConsoleAssumption DEF LInv, ConsoleTypeOK
  <1>2. UNCHANGED <<task, len_t, da, spoilt>> /\ task # "shorten" /\ Len(fifo) # MaxFifo /\ Found
    BY <1>1 DEF Receive, LInv
  <1>3. fifo' = Append(fifo, b) /\ Len(fifo') = Len(fifo) + 1
    BY <1>1, <1>2, ReceivedFifo
  <1>4. CASE task = "erase"
    <2>1. len_t \in 0..Len(fifo)
      <3>1. LineEnd(fifo) # 0 /\ len_t = LineEnd(fifo)
        BY <1>2, <1>4 DEF Found
      <3>2. QED  BY <1>1, <3>1, FirstEndFirst
    <2>2. Limit(len_t) = len_t /\ Limit(len_t)' = len_t
      BY <1>1, <1>2, <1>3, <2>1 DEF Limit
    <2>3. SubSeq(Append(fifo, b), len_t + 1, Len(fifo) + 1) = Append(SubSeq(fifo, len_t + 1, Len(fifo)), b)
      BY <1>1, <2>1, PartAppended
    <2>4. Unread = SubSeq(fifo, len_t + 1, Len(fifo))
      BY <1>4, <2>2 DEF Unread
    <2>5. Unread' = SubSeq(Append(fifo, b), len_t + 1, Len(fifo) + 1)
      BY <1>2, <1>3, <1>4, <2>2 DEF Unread
    <2>6. QED  BY <1>2, <2>3, <2>4, <2>5
  <1>5. CASE task # "erase"
    BY <1>2, <1>3, <1>5 DEF Unread
  <1>6. QED  BY <1>4, <1>5

\* Before and after a step that looks or moves, the same is unread.
LEMMA StillUnread ==
  ASSUME LInv, Available \/ Find \/ FindAgain \/ Erase \/ (Shorten /\ spoilt' = spoilt)
  PROVE  Unread' = Unread /\ UNCHANGED <<da, spoilt>>
  <1>1. /\ fifo \in Seq(Bytes) /\ Len(fifo) \in Nat /\ len_t \in Nat
    BY ConsoleAssumption DEF LInv, ConsoleTypeOK
  <1>2. CASE Available \/ Find \/ FindAgain
    BY <1>2 DEF Available, Find, FindAgain, Unread
  <1>3. CASE Erase
    <2>1. /\ len_t' = Limit(len_t) /\ task = "erase" /\ task' = "shorten"
          /\ fifo' = SubSeq(fifo, Limit(len_t) + 1, Len(fifo))
                       \o SubSeq(fifo, Len(fifo) - Limit(len_t) + 1, Len(fifo))
          /\ UNCHANGED <<da, spoilt>>
      BY <1>3 DEF Erase
    <2>2. Limit(len_t) \in 0..Len(fifo)
      BY <1>1 DEF Limit
    <2>3. SubSeq(fifo', 1, Len(fifo') - Limit(len_t)) = SubSeq(fifo, Limit(len_t) + 1, Len(fifo))
      BY <1>1, <2>1, <2>2, Moved
    <2>4. QED  BY <2>1, <2>3 DEF Unread
  <1>4. CASE Shorten /\ spoilt' = spoilt
    <2>1. task = "shorten" /\ task' = "execute" /\ fifo' = SubSeq(fifo, 1, Len(fifo) - len_t)
          /\ UNCHANGED <<da, spoilt>>
      BY <1>4 DEF Shorten
    <2>2. QED  BY <2>1 DEF Unread
  <1>5. QED  BY <1>2, <1>3, <1>4

\* What is copied is the first line, and what stays unread is the rest.
LEMMA SubstrServes ==
  ASSUME LInv, Substr, ~spoilt
  PROVE  da = <<>> /\ Lines!IsLine(da') /\ Unread = da' \o Unread' /\ UNCHANGED spoilt
  <1>1. /\ fifo \in Seq(Bytes) /\ Len(fifo) \in Nat /\ len_t \in Nat
    BY ConsoleAssumption DEF LInv, ConsoleTypeOK
  <1>2. /\ task = "substr" /\ task' = "erase" /\ da' = SubSeq(fifo, 1, Limit(len_t))
        /\ UNCHANGED <<fifo, len_t, spoilt>>
    BY DEF Substr
  <1>3. da = <<>> /\ len_t # 0 /\ len_t = LineEnd(fifo)
    BY <1>2 DEF LInv, Found
  <1>4. len_t \in 2..Len(fifo)
    BY <1>1, <1>3, FirstEndFirst
  <1>5. Limit(len_t) = len_t /\ Limit(len_t)' = len_t
    BY <1>1, <1>2, <1>4 DEF Limit
  <1>6. Lines!IsLine(da')
    BY <1>1, <1>2, <1>3, <1>5, FirstIsLine
  <1>7. Unread = fifo /\ Unread' = SubSeq(fifo, len_t + 1, Len(fifo))
    BY <1>2, <1>5 DEF Unread
  <1>8. SubSeq(fifo, 1, len_t) \o SubSeq(fifo, len_t + 1, Len(fifo)) = SubSeq(fifo, 1, Len(fifo))
    <2>1. 1 \in 1..(Len(fifo) + 1) /\ len_t \in (1 - 1)..Len(fifo) /\ Len(fifo) \in len_t..Len(fifo)
      BY <1>1, <1>4
    <2>2. QED  BY <1>1, <2>1, ConcatAdjacentSubSeq
  <1>9. SubSeq(fifo, 1, Len(fifo)) = fifo
    BY <1>1, SubSeqFull
  <1>10. QED  BY <1>2, <1>3, <1>5, <1>6, <1>7, <1>8, <1>9

\* Every step is one of LineSource's or none.
LEMMA StepServes ==
  ASSUME LInv, LInv', [ConsoleNext]_consoleVars
  PROVE  \/ (\E b \in Bytes : Unread' = Append(Unread, b)) /\ UNCHANGED <<da, spoilt>>
         \/ da = <<>> /\ Lines!IsLine(da') /\ Unread = da' \o Unread' /\ UNCHANGED spoilt
         \/ da' = <<>> /\ UNCHANGED <<Unread, spoilt>>
         \/ spoilt' = TRUE /\ Unread' \in Seq(Bytes) /\ da' \in Seq(Bytes)
         \/ spoilt /\ spoilt' = FALSE /\ Unread' = <<>> /\ UNCHANGED da
         \/ UNCHANGED <<Unread, da, spoilt>>
  <1>1. spoilt \in BOOLEAN /\ spoilt' \in BOOLEAN
    BY DEF LInv, ConsoleTypeOK
  <1>2. Unread' \in Seq(Bytes) /\ da' \in Seq(Bytes)
    <2>1. (LInv => Unread \in Seq(Bytes) /\ da \in Seq(Bytes))'
      BY UnreadTyped, PTL
    <2>2. QED  BY <2>1
  <1>3. CASE spoilt'
    BY <1>1, <1>2, <1>3
  <1>4. CASE ~spoilt' /\ UNCHANGED consoleVars
    BY <1>4 DEF consoleVars, Unread, Limit
  <1>5. CASE ~spoilt' /\ \E b \in Bytes : Receive(b)
    BY <1>5, ReceiveTypes
  <1>6. CASE ~spoilt' /\ TaskStep
    <2>1. CASE Available \/ Find \/ FindAgain \/ Erase \/ (Shorten /\ spoilt' = spoilt)
      BY <2>1, StillUnread
    <2>2. CASE Shorten /\ spoilt' # spoilt
      <3>1. spoilt /\ spoilt' = FALSE /\ fifo' = <<>> /\ task' = "execute" /\ UNCHANGED da
        BY <1>1, <1>6, <2>2 DEF Shorten
      <3>2. Unread' = <<>>
        BY <3>1 DEF Unread
      <3>3. QED  BY <3>1, <3>2
    <2>3. CASE Substr
      <3>1. ~spoilt
        BY <1>6, <2>3 DEF Substr
      <3>2. QED  BY <2>3, <3>1, SubstrServes
    <2>4. CASE Execute
      BY <2>4 DEF Execute, Unread
    <2>5. QED  BY <1>6, <2>1, <2>2, <2>3, <2>4 DEF TaskStep
  <1>7. QED  BY <1>3, <1>4, <1>5, <1>6 DEF ConsoleNext

\* The console implements LineSource: each command executed is the next complete
\* line, exactly as it was typed, whatever arrives between the steps of
\* read_data (USART.cpp:334-345), as long as nothing is spoilt.
THEOREM ConsoleServesLines == ConsoleSpec => ServesLines
  <1>1. ConsoleInit => Lines!Init
    BY DEF ConsoleInit, Lines!Init
  <1>2. ASSUME LInv, LInv', [ConsoleNext]_consoleVars
        PROVE  [Lines!Next]_(Lines!vars)
    BY <1>2, StepServes
    DEF Lines!Next, Lines!Type, Lines!Serve, Lines!Finish, Lines!Fault, Lines!Recover, Lines!vars, Unread
  <1>3. QED  BY <1>1, <1>2, LInvAlways, PTL DEF ConsoleSpec, ServesLines, Lines!Spec
=============================================================================
