----------------------------- MODULE ChatProofs -----------------------------
(***************************************************************************)
(* The cutting of a streamed answer into sentences, and the requests of    *)
(* turns that supersede each other wherever they are, for any chunks, any  *)
(* number of rounds, calls and turns: until a superseded turn writes       *)
(* behind its successor, a history sent to the service has the results of  *)
(* each call, and no others, behind the message that made it.              *)
(***************************************************************************)
EXTENDS Chat, SequenceFacts

\* A cut was made behind a mark that ends a sentence whatever follows, or
\* behind a dot whose successor had arrived and was not part of the token
Cut(x, p) ==
    /\ p \in 1..Len(x)
    /\ \/ x[p] = "!"
       \/ x[p] = "." /\ p < Len(x) /\ x[p + 1] # "a"

CutWell(x, s) ==
    /\ x \in Seq(Chars)
    /\ IsFiniteSet(s) /\ 0 \in s
    /\ \A p \in s \ {0} : Cut(x, p)

CutInv ==
    /\ text \in [Turns -> Seq(Chars)] /\ DOMAIN cuts = Turns
    /\ cuts = [t \in Turns |-> cuts[t]]
    /\ \A t \in Turns : CutWell(text[t], cuts[t])

\* Where findSentenceEnd cuts
LEMMA EndFacts ==
    ASSUME NEW s \in Seq(Chars), findSentenceEnd(s) # 0
    PROVE  LET e == findSentenceEnd(s) IN
           /\ e \in 1..Len(s)
           /\ s[e] = "!" \/ (s[e] = "." /\ e < Len(s) /\ s[e + 1] # "a")
<1>1. SentenceEnds(s) # {} /\ findSentenceEnd(s) = Max(SentenceEnds(s))
  BY DEF findSentenceEnd
<1>2. SentenceEnds(s) \in SUBSET (1..Len(s)) /\ Len(s) \in Nat
  BY DEF SentenceEnds
<1>3. IsFiniteSet(SentenceEnds(s)) /\ SentenceEnds(s) \in SUBSET Int
  <2>1. IsFiniteSet(1..Len(s))
    BY <1>2, FS_Interval
  <2>2. IsFiniteSet(SentenceEnds(s))
    BY <1>2, <2>1, FS_Subset
  <2> QED BY <1>2, <2>2
<1>4. findSentenceEnd(s) \in SentenceEnds(s)
  BY <1>1, <1>3, MaxFacts
<1> HIDE DEF findSentenceEnd
<1> QED BY <1>2, <1>4 DEF SentenceEnds

\* A chunk appended and cut keeps every cut behind a mark
LEMMA CutChunk ==
    ASSUME NEW x, NEW s, CutWell(x, s), NEW c \in Seq(Chars)
    PROVE  LET e == findSentenceEnd(SubSeq(x, Max(s) + 1, Len(x)) \o c) IN
           CutWell(x \o c, IF e = 0 THEN s ELSE s \cup {Max(s) + e})
<1> DEFINE m == Max(s)
           old == SubSeq(x, m + 1, Len(x))
           buf == old \o c
           e == findSentenceEnd(buf)
           y == x \o c
           z == IF e = 0 THEN s ELSE s \cup {m + e}
<1>2. x \in Seq(Chars)
  BY DEF CutWell
<1>3. /\ y \in Seq(Chars) /\ Len(y) = Len(x) + Len(c)
      /\ Len(x) \in Nat /\ Len(c) \in Nat
      /\ \A i \in 1..Len(x) : y[i] = x[i]
      /\ \A i \in 1..Len(c) : y[Len(x) + i] = c[i]
  BY <1>2
<1>4. s \in SUBSET Int /\ s \subseteq 0..Len(x) /\ s # {}
  BY <1>3 DEF CutWell, Cut
<1>5. m \in 0..Len(x)
  BY <1>4, MaxFacts DEF CutWell
<1> HIDE DEF m, y
<1>6. /\ buf \in Seq(Chars) /\ Len(buf) = Len(y) - m
      /\ \A i \in 1..Len(buf) : buf[i] = y[m + i]
  <2>2. /\ old \in Seq(Chars) /\ Len(old) = Len(x) - m
        /\ \A i \in 1..Len(old) : old[i] = x[m + i]
    <3>1. ASSUME NEW q \in Seq(Chars), NEW n \in 0..Len(q)
          PROVE  /\ SubSeq(q, n + 1, Len(q)) \in Seq(Chars)
                 /\ Len(SubSeq(q, n + 1, Len(q))) = Len(q) - n
                 /\ \A i \in 1..Len(q) - n : SubSeq(q, n + 1, Len(q))[i] = q[n + i]
      OBVIOUS
    <3> QED BY <1>2, <1>5, <3>1
  <2> HIDE DEF old
  <2>3. buf \in Seq(Chars) /\ Len(buf) = Len(old) + Len(c)
        /\ (\A i \in 1..Len(old) : buf[i] = old[i])
        /\ \A i \in 1..Len(c) : buf[Len(old) + i] = c[i]
    <3>1. ASSUME NEW a \in Seq(Chars), NEW b \in Seq(Chars)
          PROVE  /\ a \o b \in Seq(Chars) /\ Len(a \o b) = Len(a) + Len(b)
                 /\ \A i \in 1..Len(a) : (a \o b)[i] = a[i]
                 /\ \A i \in 1..Len(b) : (a \o b)[Len(a) + i] = b[i]
      OBVIOUS
    <3> QED BY <1>2, <2>2, <3>1
  <2> HIDE DEF buf
  <2>4. ASSUME NEW i \in 1..Len(buf) PROVE buf[i] = y[m + i]
    <3>0. i \in Nat /\ i >= 1 /\ i <= Len(old) + Len(c) /\ Len(old) \in Nat /\ m \in Nat
      BY <1>3, <1>5, <2>2, <2>3
    <3>1. CASE i <= Len(old)
      <4>1. i \in 1..Len(old) /\ m + i \in 1..Len(x)
        BY <1>3, <1>5, <2>2, <3>0, <3>1
      <4> QED BY <1>3, <2>2, <2>3, <4>1
    <3>2. CASE i > Len(old)
      <4> DEFINE j == i - Len(old)
      <4>1. j \in 1..Len(c) /\ Len(old) + j = i /\ Len(x) + j = m + i
        BY <1>3, <2>2, <3>0, <3>2
      <4> HIDE DEF j
      <4> QED BY <1>3, <2>3, <4>1
    <3> QED BY <3>0, <3>1, <3>2
  <2>5. Len(buf) = Len(y) - m
    BY <1>3, <1>5, <2>2, <2>3
  <2> QED BY <2>3, <2>4, <2>5
<1>7. ASSUME NEW p \in s \ {0} PROVE Cut(y, p)
  <2>1. Cut(x, p)
    BY <1>7 DEF CutWell
  <2> QED BY <1>3, <2>1 DEF Cut
<1>8. ASSUME e # 0, NEW a, a = m + e PROVE Cut(y, a)
  <2>1. /\ e \in 1..Len(buf)
        /\ buf[e] = "!" \/ (buf[e] = "." /\ e < Len(buf) /\ buf[e + 1] # "a")
    BY <1>6, <1>8, EndFacts
  <2> HIDE DEF e, buf
  <2>2. m + e \in 1..Len(y) /\ y[m + e] = buf[e]
    BY <1>3, <1>5, <1>6, <2>1
  <2>3. e < Len(buf) => m + e < Len(y) /\ y[m + e + 1] = buf[e + 1]
    BY <1>3, <1>5, <1>6, <2>1
  <2> QED BY <1>3, <1>5, <1>8, <2>1, <2>2, <2>3 DEF Cut
<1> HIDE DEF e
<1>10. IsFiniteSet(z) /\ 0 \in z
  <2>1. \A v : IsFiniteSet(s \cup {v})
    BY FS_AddElement DEF CutWell
  <2> QED BY <2>1 DEF CutWell
<1>11. ASSUME NEW p \in z \ {0} PROVE Cut(y, p)
  <2>1. p \in s \ {0} \/ (e # 0 /\ p = m + e)
    BY <1>11
  <2> QED BY <1>7, <1>8, <2>1
<1>12. CutWell(y, z)
  BY <1>3, <1>10, <1>11 DEF CutWell
<1> QED BY <1>12 DEF y, z, e, m

\* Every step keeps the cuts where they belong
LEMMA CutInductive == CutInv /\ [Next]_vars => CutInv'
<1> SUFFICES ASSUME CutInv, [Next]_vars PROVE CutInv'
  OBVIOUS
<1>0. /\ text \in [Turns -> Seq(Chars)] /\ cuts = [t \in Turns |-> cuts[t]]
      /\ \A t \in Turns : CutWell(text[t], cuts[t])
  BY DEF CutInv
<1>1. CASE UNCHANGED textVars
  BY <1>1 DEF textVars, CutInv
<1>t. ASSUME NEW t \in Turns, NEW x \in Seq(Chars), NEW s, CutWell(x, s),
             text' = [text EXCEPT ![t] = x], cuts' = [cuts EXCEPT ![t] = s]
      PROVE  CutInv'
  <2>1. text' \in [Turns -> Seq(Chars)] /\ DOMAIN cuts' = Turns /\ cuts' = [u \in Turns |-> cuts'[u]]
    BY <1>0, <1>t
  <2>2. ASSUME NEW u \in Turns PROVE CutWell(text'[u], cuts'[u])
    <3>1. CASE u = t
      BY <1>0, <1>t, <3>1
    <3>2. CASE u # t
      BY <1>0, <1>t, <3>2
    <3> QED BY <3>1, <3>2
  <2> QED BY <2>1, <2>2 DEF CutInv
<1>2. ASSUME NEW t \in Turns, noText(t) PROVE CutInv'
  <2>0. <<>> \in Seq(Chars)
    OBVIOUS
  <2>1. IsFiniteSet({0}) /\ <<>> \in Seq(Chars)
    BY <2>0, FS_Singleton
  <2>2. CutWell(<<>>, {0})
    BY <2>1 DEF CutWell
  <2> QED BY <1>t, <1>2, <2>1, <2>2 DEF noText
<1>3. ASSUME NEW t \in Turns, emitChunk(t) PROVE CutInv'
  <2> DEFINE e(c) == findSentenceEnd(sentenceBuf(t) \o c)
  <2>1. PICK c \in Chunks :
          /\ text' = [text EXCEPT ![t] = text[t] \o c]
          /\ cuts' = [cuts EXCEPT ![t] = IF e(c) = 0 THEN cuts[t] ELSE cuts[t] \cup {Max(cuts[t]) + e(c)}]
    <3> HIDE DEF sentenceBuf, findSentenceEnd
    <3> QED BY <1>0, <1>3 DEF emitChunk
  <2>2. c \in Seq(Chars)
    BY ChatAssumption
  <2>3. CutWell(text[t] \o c, IF e(c) = 0 THEN cuts[t] ELSE cuts[t] \cup {Max(cuts[t]) + e(c)})
    BY <1>0, <2>2, CutChunk DEF sentenceBuf
  <2> HIDE DEF e
  <2>4. text[t] \o c \in Seq(Chars)
    BY <2>3 DEF CutWell
  <2> QED BY <1>t, <2>1, <2>3, <2>4
<1> QED
  BY <1>1, <1>2, <1>3 DEF Next, chatStep, startChat, sendRequest, answerText, streamFails,
     openaiCalls, ollamaCalls, forceTextResponse, openaiRunCall, ollamaRunCall, openaiChunk,
     ollamaChunk, agentChunk, vars

\* Nothing is cut at first
LEMMA CutInit == Init => CutInv
<1>1. <<>> \in Seq(Chars)
    OBVIOUS
<1>2. IsFiniteSet({0})
    BY FS_Singleton
<1> QED
    BY <1>1, <1>2 DEF Init, CutInv, CutWell

\* findSentenceEnd never tears a token: wherever the network divides the
\* stream, no cut falls between a dot and the letter or digit behind it, for
\* any chunks and any length of text, also when a cancelled turn still streams.
THEOREM CutsCorrect == Spec => []TokensWhole
<1>1. CutInv => TokensWhole
    BY DEF CutInv, CutWell, Cut, TokensWhole
<1> QED
    BY <1>1, CutInit, CutInductive, PTL DEF Spec, Safety

---------------------------------------------------------------------------
(* The shape of a history *)

Roles == {"system", "user", "assistant", "tool"}
CallIds == Turns \X Nat \X Nat
CallSet == [id : CallIds, sig : STRING]
Messages == [role : Roles, calls : Seq(CallSet), id : CallIds \cup {<<>>}]

\* It begins with the system prompt, and results make no calls
History(h) ==
    /\ h \in Seq(Messages) /\ h # <<>> /\ h[1] = Message("system")
    /\ \A i \in 1 .. Len(h) : h[i].role = "tool" => h[i].calls = <<>>

Speech(h) == {i \in 1 .. Len(h) : h[i].role # "tool"}

\* The k messages behind the one at i, and no more, are results
Extent(h, i, k) == i + k <= Len(h) /\ (i + k < Len(h) => h[i + k + 1].role # "tool")

\* The results behind the message at i are those of its first k calls, in order
Block(h, i, k) ==
    /\ Extent(h, i, k) /\ k <= Len(h[i].calls)
    /\ \A j \in 1 .. k : h[i + j] = Result(h[i].calls[j].id)

\* They are the results of all its calls, in some order: what a repair puts in
\* comes before what was there
Closed(h, i) ==
    LET n == Len(h[i].calls) IN
    /\ Extent(h, i, n)
    /\ \A j \in 1 .. n : \E m \in 1 .. n : h[i + j] = Result(h[i].calls[m].id)
    /\ \A m \in 1 .. n : \E j \in 1 .. n : h[i + j] = Result(h[i].calls[m].id)

\* Every message has all its results or the first few; all of them
Settled(h) == \A i \in Speech(h) : Closed(h, i) \/ \E k \in Nat : Block(h, i, k)
Tidy(h) == \A i \in Speech(h) : Closed(h, i)

\* The message at p waits for the results of its calls behind the k-th
OpenAt(h, calls, p, k) ==
    /\ Block(h, p, k) /\ p + k = Len(h) /\ k < Len(h[p].calls)
    /\ calls = SubSeq(h[p].calls, k + 1, Len(h[p].calls))
    /\ \A i \in Speech(h) : i # p => Closed(h, i)
Open(h, calls) == \E p \in Speech(h) : \E k \in Nat : OpenAt(h, calls, p, k)

\* No two calls have the same id, and all ids are in B
Distinct(h, B) ==
    /\ \A i, j \in 1 .. Len(h) : \A n \in 1 .. Len(h[i].calls), m \in 1 .. Len(h[j].calls) :
           h[i].calls[n].id = h[j].calls[m].id => i = j /\ n = m
    /\ \A i \in 1 .. Len(h) : \A n \in 1 .. Len(h[i].calls) : h[i].calls[n].id \in B

\* What a message of a history is made of
LEMMA MessageFacts ==
    ASSUME NEW h, History(h)
    PROVE  /\ Len(h) \in Nat /\ Len(h) >= 1 /\ DOMAIN h = 1 .. Len(h)
           /\ \A i \in 1 .. Len(h) :
                /\ h[i] \in Messages /\ h[i].calls \in Seq(CallSet) /\ Len(h[i].calls) \in Nat
                /\ \A n \in 1 .. Len(h[i].calls) : h[i].calls[n].id \in CallIds
           /\ h[1].role # "tool" /\ h[1].calls = <<>> /\ Len(h[1].calls) = 0 /\ 1 \in Speech(h)
<1>1. /\ h \in Seq(Messages) /\ h # <<>> /\ h[1] = Message("system")
    BY DEF History
<1>2. Len(h) \in Nat /\ Len(h) >= 1 /\ DOMAIN h = 1 .. Len(h) /\ \A i \in 1 .. Len(h) : h[i] \in Messages
    BY <1>1
<1>3. ASSUME NEW i \in 1 .. Len(h)
      PROVE  /\ h[i].calls \in Seq(CallSet) /\ Len(h[i].calls) \in Nat
             /\ \A n \in 1 .. Len(h[i].calls) : h[i].calls[n].id \in CallIds
  <2>1. h[i].calls \in Seq(CallSet)
      BY <1>2 DEF Messages
  <2>2. Len(h[i].calls) \in Nat /\ \A n \in 1 .. Len(h[i].calls) : h[i].calls[n] \in CallSet
      BY <2>1
  <2>3. \A c \in CallSet : c.id \in CallIds
      BY DEF CallSet
  <2> QED
      BY <2>1, <2>2, <2>3
<1>4. h[1].role = "system" /\ h[1].calls = <<>>
    BY <1>1 DEF Message
<1>5. Len(<<>>) = 0
    OBVIOUS
<1>6. 1 \in Speech(h)
    BY <1>2, <1>4 DEF Speech
<1> QED
    BY <1>2, <1>3, <1>4, <1>5, <1>6

\* Results of all the calls, in order
LEMMA BlockCloses ==
    ASSUME NEW h, NEW i, Block(h, i, Len(h[i].calls))
    PROVE  Closed(h, i)
BY DEF Block, Closed

\* Every result belongs to a message: one that has all of its results, or one
\* that has at least those of its calls up to this one
LEMMA Owner ==
    ASSUME NEW h, History(h), Settled(h), NEW k \in 1 .. Len(h), h[k].role = "tool"
    PROVE  \E i \in Speech(h) : \E m \in 1 .. Len(h[i].calls) :
               /\ h[k] = Result(h[i].calls[m].id)
               /\ Closed(h, i) \/ \E c \in Nat : Block(h, i, c) /\ m <= c
<1> DEFINE I == {i \in 1 .. k : h[i].role # "tool"}
<1>0. Len(h) \in Nat /\ k \in Nat /\ k >= 1 /\ k <= Len(h) /\ h[1].role # "tool"
    BY MessageFacts
<1>1. I \in SUBSET Int /\ IsFiniteSet(I) /\ I # {}
  <2>1. IsFiniteSet(1 .. k)
      BY <1>0, FS_Interval
  <2>2. 1 \in I /\ I \subseteq 1 .. k /\ 1 .. k \subseteq Int
      BY <1>0
  <2> HIDE DEF I
  <2> QED
      BY <2>1, <2>2, FS_Subset
<1>2. PICK p \in I : \A j \in I : j <= p
  <2> HIDE DEF I
  <2> QED
      BY <1>1, LastIndex
<1>3. p \in Speech(h) /\ p \in 1 .. Len(h) /\ p < k /\ p \in Nat
  <2>1. p \in 1 .. k /\ h[p].role # "tool"
      BY <1>2
  <2>2. p # k
      BY <2>1
  <2> QED
      BY <1>0, <2>1, <2>2 DEF Speech
<1>4. \A j \in p + 1 .. k : h[j].role = "tool"
  <2> SUFFICES ASSUME NEW j \in p + 1 .. k, h[j].role # "tool" PROVE FALSE
      OBVIOUS
  <2>1. j \in I
      BY <1>0, <1>3
  <2> QED
      BY <1>0, <1>2, <1>3, <2>1
<1>5. ASSUME NEW c \in Nat, Extent(h, p, c) PROVE k - p \in 1 .. c /\ p + (k - p) = k
  <2>1. k <= p + c
    <3> SUFFICES ASSUME p + c < k PROVE FALSE
        BY <1>0, <1>3
    <3>1. p + c < Len(h) /\ p + c + 1 \in p + 1 .. k
        BY <1>0, <1>3
    <3> QED
        BY <1>4, <1>5, <3>1 DEF Extent
  <2> QED
      BY <1>0, <1>3, <2>1
<1>6. Len(h[p].calls) \in Nat
    BY <1>3, MessageFacts
<1>7. CASE Closed(h, p)
  <2>1. k - p \in 1 .. Len(h[p].calls) /\ p + (k - p) = k
      BY <1>5, <1>6, <1>7 DEF Closed
  <2>2. \E m \in 1 .. Len(h[p].calls) : h[p + (k - p)] = Result(h[p].calls[m].id)
      BY <1>7, <2>1 DEF Closed
  <2> QED
      BY <1>3, <1>7, <2>1, <2>2
<1>8. ASSUME NEW c \in Nat, Block(h, p, c)
      PROVE  \E m \in 1 .. Len(h[p].calls) : h[k] = Result(h[p].calls[m].id) /\ m <= c
  <2>1. k - p \in 1 .. c /\ p + (k - p) = k /\ c <= Len(h[p].calls)
      BY <1>5, <1>8 DEF Block
  <2>2. h[p + (k - p)] = Result(h[p].calls[k - p].id)
      BY <1>8, <2>1 DEF Block
  <2>3. k - p \in 1 .. Len(h[p].calls) /\ k - p <= c
      BY <1>0, <1>3, <1>6, <2>1
  <2> QED
      BY <2>1, <2>2, <2>3
<1>9. Closed(h, p) \/ \E c \in Nat : Block(h, p, c)
    BY <1>3 DEF Settled
<1> QED
    BY <1>3, <1>7, <1>8, <1>9

\* A tidy history is what the API accepts
LEMMA TidyIsWellFormed ==
    ASSUME NEW h, History(h), Tidy(h)
    PROVE  WellFormed(h)
<1> SUFFICES ASSUME NEW i \in DOMAIN h, h[i].role # "tool"
             PROVE  /\ Len(resultsAfter(h, i)) = Len(h[i].calls)
                    /\ {h[i].calls[n].id : n \in DOMAIN h[i].calls} = Answered(resultsAfter(h, i))
    BY DEF WellFormed
<1> DEFINE k == Len(h[i].calls)
           stop == {j \in i + 1 .. Len(h) : h[j].role # "tool"}
           end == IF stop = {} THEN Len(h) ELSE Min(stop) - 1
           r == SubSeq(h, i + 1, end)
<1>1. i \in 1 .. Len(h) /\ i \in Speech(h) /\ Len(h) \in Nat /\ k \in Nat /\ h \in Seq(Messages)
      /\ h[i].calls \in Seq(CallSet)
    BY MessageFacts DEF Speech, History
<1>2. Closed(h, i)
    BY <1>1 DEF Tidy
<1>3. /\ i + k <= Len(h)
      /\ \A j \in 1 .. k : \E m \in 1 .. k : h[i + j] = Result(h[i].calls[m].id)
      /\ \A m \in 1 .. k : \E j \in 1 .. k : h[i + j] = Result(h[i].calls[m].id)
      /\ i + k < Len(h) => h[i + k + 1].role # "tool"
    BY <1>2 DEF Closed, Extent
<1> HIDE DEF k
<1>4. \A j \in i + 1 .. i + k : h[j].role = "tool"
  <2> SUFFICES ASSUME NEW j \in i + 1 .. i + k PROVE h[j].role = "tool"
      OBVIOUS
  <2>1. j - i \in 1 .. k /\ i + (j - i) = j
      BY <1>1
  <2>2. \E m \in 1 .. k : h[i + (j - i)] = Result(h[i].calls[m].id)
      BY <1>3, <2>1
  <2> QED
      BY <2>1, <2>2 DEF Result
<1>5. end = i + k
  <2>1. CASE i + k = Len(h)
    <3>1. stop = {}
        BY <1>4, <2>1
    <3> QED
        BY <2>1, <3>1
  <2>2. CASE i + k # Len(h)
    <3>0. i + k <= Len(h) /\ i \in Nat /\ k \in Nat /\ Len(h) \in Nat
        BY <1>1, <1>3
    <3>1. i + k < Len(h) /\ i + k + 1 \in i + 1 .. Len(h)
      <4>1. \A a, b, c \in Nat : a + b <= c /\ a + b # c =>
                a + b < c /\ a + b + 1 \in a + 1 .. c
          OBVIOUS
      <4> QED
          BY <2>2, <3>0, <4>1
    <3>2. i + k + 1 \in stop
      <4>1. h[i + k + 1].role # "tool"
          BY <1>3, <3>1
      <4> QED
          BY <3>1, <4>1
    <3>3. \A j \in stop : i + k + 1 <= j /\ j \in Int
      <4> SUFFICES ASSUME NEW j \in i + 1 .. Len(h), h[j].role # "tool" PROVE i + k + 1 <= j
          OBVIOUS
      <4>1. j \notin i + 1 .. i + k
          BY <1>4
      <4> QED
          BY <1>1, <4>1
    <3>4. Min(stop) = i + k + 1
      <4> HIDE DEF stop
      <4>0. i + k + 1 \in Int
          BY <1>1
      <4>1. \A m \in stop : (\A j \in stop : m <= j) => m = i + k + 1
          BY <3>2, <3>3, <4>0
      <4> DEFINE Least(m) == \A j \in stop : m <= j
      <4>2. i + k + 1 \in stop /\ Least(i + k + 1)
          BY <3>2, <3>3
      <4>3. (CHOOSE m \in stop : Least(m)) = i + k + 1
        <5> HIDE DEF Least
        <5>1. \A m \in stop : Least(m) => m = i + k + 1
            BY <4>1 DEF Least
        <5> QED
            BY <4>2, <5>1
      <4> QED
          BY <4>3 DEF Min
    <3> HIDE DEF stop
    <3> QED
        BY <1>1, <3>2, <3>4
  <2> QED
      BY <2>1, <2>2
<1> HIDE DEF end
<1>6. r \in Seq(Messages) /\ Len(r) = k /\ \A j \in 1 .. k : r[j] = h[i + j]
  <2>0. i + k <= Len(h) /\ i \in Nat /\ k \in Nat /\ Len(h) \in Nat /\ i >= 1
      BY <1>1, <1>3
  <2>1. /\ i + 1 \in 1 .. Len(h) + 1 /\ end \in i .. Len(h) /\ end - (i + 1) + 1 = k
      BY <1>5, <2>0
  <2>2. ASSUME NEW j \in 1 .. k PROVE (i + 1) + j - 1 = i + j
      BY <1>1
  <2>3. /\ r \in Seq(Messages) /\ Len(r) = end - (i + 1) + 1
        /\ \A j \in 1 .. end - (i + 1) + 1 : r[j] = h[(i + 1) + j - 1]
    <3>1. ASSUME NEW m \in 1 .. Len(h) + 1, NEW n \in m - 1 .. Len(h)
          PROVE  /\ SubSeq(h, m, n) \in Seq(Messages) /\ Len(SubSeq(h, m, n)) = n - m + 1
                 /\ \A j \in 1 .. n - m + 1 : SubSeq(h, m, n)[j] = h[m + j - 1]
        BY <1>1
    <3>2. end \in (i + 1) - 1 .. Len(h)
        BY <1>1, <2>1
    <3> QED
        BY <2>1, <3>1, <3>2
  <2> QED
      BY <2>1, <2>2, <2>3
<1>7. resultsAfter(h, i) = r
    BY DEF resultsAfter, end
<1> HIDE DEF r
<1>8. DOMAIN r = 1 .. k /\ DOMAIN h[i].calls = 1 .. k
    BY <1>1, <1>6 DEF k
<1>9. /\ \A j \in 1 .. k : r[j].role = "tool" /\ \E m \in 1 .. k : r[j].id = h[i].calls[m].id
      /\ \A m \in 1 .. k : \E j \in 1 .. k : r[j].id = h[i].calls[m].id
  <2>1. \A x : Result(x).role = "tool" /\ Result(x).id = x
      BY DEF Result
  <2>2. ASSUME NEW j \in 1 .. k
        PROVE  r[j].role = "tool" /\ \E m \in 1 .. k : r[j].id = h[i].calls[m].id
    <3>1. PICK m \in 1 .. k : h[i + j] = Result(h[i].calls[m].id)
        BY <1>3
    <3>2. r[j] = Result(h[i].calls[m].id)
        BY <1>6, <3>1
    <3> QED
        BY <2>1, <3>2
  <2>3. ASSUME NEW m \in 1 .. k PROVE \E j \in 1 .. k : r[j].id = h[i].calls[m].id
    <3>1. PICK j \in 1 .. k : h[i + j] = Result(h[i].calls[m].id)
        BY <1>3
    <3>2. r[j] = Result(h[i].calls[m].id)
        BY <1>6, <3>1
    <3> QED
        BY <2>1, <3>2
  <2> QED
      BY <2>2, <2>3
<1>10. Answered(r) = {h[i].calls[n].id : n \in 1 .. k}
  <2>1. Answered(r) = {r[j].id : j \in 1 .. k}
      BY <1>8, <1>9 DEF Answered
  <2>2. ASSUME NEW j \in 1 .. k PROVE r[j].id \in {h[i].calls[n].id : n \in 1 .. k}
    <3>1. PICK m \in 1 .. k : r[j].id = h[i].calls[m].id
        BY <1>9
    <3> QED
        BY <3>1
  <2>3. ASSUME NEW n \in 1 .. k PROVE h[i].calls[n].id \in {r[j].id : j \in 1 .. k}
    <3>1. PICK j \in 1 .. k : r[j].id = h[i].calls[n].id
        BY <1>9
    <3> QED
        BY <3>1
  <2> QED
      BY <2>1, <2>2, <2>3
<1> QED
    BY <1>6, <1>7, <1>8, <1>10 DEF k

\* Two stretches that read the same are blocks alike
LEMMA Stretch ==
    ASSUME NEW h, NEW g, NEW i, NEW p, NEW k \in Nat, g[p] = h[i],
           Extent(g, p, k), \A j \in 1 .. k : g[p + j] = h[i + j]
    PROVE  /\ Block(h, i, k) => Block(g, p, k)
           /\ k = Len(h[i].calls) /\ Closed(h, i) => Closed(g, p)
<1>1. ASSUME Block(h, i, k) PROVE Block(g, p, k)
    BY <1>1 DEF Block
<1>2. ASSUME k = Len(h[i].calls), Closed(h, i) PROVE Closed(g, p)
  <2>1. /\ \A j \in 1 .. k : \E m \in 1 .. k : h[i + j] = Result(h[i].calls[m].id)
        /\ \A m \in 1 .. k : \E j \in 1 .. k : h[i + j] = Result(h[i].calls[m].id)
      BY <1>2 DEF Closed
  <2>2. ASSUME NEW j \in 1 .. k PROVE \E m \in 1 .. k : g[p + j] = Result(g[p].calls[m].id)
    <3>1. PICK m \in 1 .. k : h[i + j] = Result(h[i].calls[m].id)
        BY <2>1
    <3> QED
        BY <3>1
  <2>3. ASSUME NEW m \in 1 .. k PROVE \E j \in 1 .. k : g[p + j] = Result(g[p].calls[m].id)
    <3>1. PICK j \in 1 .. k : h[i + j] = Result(h[i].calls[m].id)
        BY <2>1
    <3> QED
        BY <3>1
  <2>4. Len(g[p].calls) = k
      BY <1>2
  <2> QED
      BY Zenon, <2>2, <2>3, <2>4 DEF Closed
<1> QED
    BY <1>1, <1>2

\* A message behind all others leaves their results alone
LEMMA AppendMessage ==
    ASSUME NEW h, History(h), NEW m \in Messages, m.role # "tool"
    PROVE  LET g == Append(h, m) IN
           /\ History(g) /\ Len(g) = Len(h) + 1 /\ g[Len(h) + 1] = m
           /\ \A i \in 1 .. Len(h) : g[i] = h[i]
           /\ Speech(g) = Speech(h) \cup {Len(h) + 1}
           /\ \A i \in Speech(h) : \A k \in Nat : Block(h, i, k) => Block(g, i, k)
           /\ \A i \in Speech(h) : Closed(h, i) => Closed(g, i)
           /\ Block(g, Len(h) + 1, 0)
<1> DEFINE g == Append(h, m)
           l == Len(h)
<1>0. h \in Seq(Messages) /\ l \in Nat /\ l >= 1
    BY MessageFacts DEF History
<1>1. /\ g \in Seq(Messages) /\ Len(g) = l + 1 /\ g[l + 1] = m /\ g # <<>>
      /\ \A i \in 1 .. l : g[i] = h[i]
    BY <1>0
<1> HIDE DEF g, l
<1>2. History(g)
  <2>1. g[1] = Message("system")
      BY <1>0, <1>1 DEF History
  <2>2. ASSUME NEW i \in 1 .. Len(g), g[i].role = "tool" PROVE g[i].calls = <<>>
    <3>1. i # l + 1
        BY <1>1, <2>2
    <3>2. i \in 1 .. l
        BY <1>0, <1>1, <3>1
    <3> QED
        BY <1>1, <2>2, <3>2 DEF History, l
  <2> QED
      BY <1>1, <2>1, <2>2 DEF History
<1>3. Speech(g) = Speech(h) \cup {l + 1}
  <2>1. 1 .. Len(g) = 1 .. l \cup {l + 1}
      BY <1>0, <1>1
  <2> QED
      BY <1>1, <2>1 DEF Speech, l
<1>4. ASSUME NEW i \in Speech(h), NEW k \in Nat, Extent(h, i, k)
      PROVE  g[i] = h[i] /\ Extent(g, i, k) /\ \A j \in 1 .. k : g[i + j] = h[i + j]
  <2>1. i \in 1 .. l /\ g[i] = h[i] /\ i + k <= l
      BY <1>1, <1>4 DEF Speech, Extent, l
  <2>2. \A j \in 1 .. k : i + j \in 1 .. l
      BY <1>0, <2>1
  <2>3. g[i + k + 1].role # "tool"
    <3>1. CASE i + k = l
        BY <1>1, <3>1
    <3>2. CASE i + k < l
      <4>1. i + k + 1 \in 1 .. l
          BY <1>0, <2>1, <3>2
      <4> QED
          BY <1>1, <1>4, <3>2, <4>1 DEF Extent, l
    <3> QED
        BY <1>0, <2>1, <3>1, <3>2
  <2>4. i + k <= Len(g)
      BY <1>0, <1>1, <2>1
  <2> QED
      BY <1>1, <2>1, <2>2, <2>3, <2>4 DEF Extent
<1>5. ASSUME NEW i \in Speech(h)
      PROVE  /\ \A k \in Nat : Block(h, i, k) => Block(g, i, k)
             /\ Closed(h, i) => Closed(g, i)
  <2>1. ASSUME NEW k \in Nat, Block(h, i, k) PROVE Block(g, i, k)
      BY <1>4, <2>1, Stretch DEF Block
  <2>2. ASSUME Closed(h, i) PROVE Closed(g, i)
    <3>1. Len(h[i].calls) \in Nat /\ Extent(h, i, Len(h[i].calls))
        BY <2>2, MessageFacts DEF Speech, Closed
    <3> QED
        BY <1>4, <2>2, <3>1, Stretch
  <2> QED
      BY <2>1, <2>2
<1>6. Block(g, l + 1, 0)
  <2>1. Len(g[l + 1].calls) \in Nat
    <3>1. l + 1 \in 1 .. Len(g)
        BY <1>0, <1>1
    <3> QED
        BY <1>2, <3>1, MessageFacts
  <2>2. (l + 1) + 0 = Len(g) /\ Len(g) \in Nat
      BY <1>0, <1>1
  <2> QED
      BY <2>1, <2>2 DEF Block, Extent
<1> QED
    BY <1>1, <1>2, <1>3, <1>5, <1>6 DEF g, l

\* A history whose calls are those of another, each once, has no more ids
LEMMA Renumbered ==
    ASSUME NEW h, NEW g, NEW f, NEW B, Distinct(h, B),
           \A i \in 1 .. Len(g) : g[i].calls # <<>> =>
               f[i] \in 1 .. Len(h) /\ g[i].calls = h[f[i]].calls,
           \A i, j \in 1 .. Len(g) :
               g[i].calls # <<>> /\ g[j].calls # <<>> /\ f[i] = f[j] => i = j
    PROVE  Distinct(g, B)
<1>1. ASSUME NEW i \in 1 .. Len(g), NEW n \in 1 .. Len(g[i].calls)
      PROVE  f[i] \in 1 .. Len(h) /\ g[i].calls = h[f[i]].calls /\ g[i].calls # <<>>
  <2>1. g[i].calls # <<>>
    <3>1. Len(<<>>) = 0 /\ 1 .. 0 = {}
        OBVIOUS
    <3> QED
        BY <3>1
  <2> QED
      BY <2>1
<1>2. ASSUME NEW i \in 1 .. Len(g), NEW j \in 1 .. Len(g),
             NEW n \in 1 .. Len(g[i].calls), NEW m \in 1 .. Len(g[j].calls),
             g[i].calls[n].id = g[j].calls[m].id
      PROVE  i = j /\ n = m
  <2>0. /\ f[i] \in 1 .. Len(h) /\ f[j] \in 1 .. Len(h)
        /\ g[i].calls = h[f[i]].calls /\ g[j].calls = h[f[j]].calls
        /\ g[i].calls # <<>> /\ g[j].calls # <<>>
      BY <1>1
  <2>1. f[i] = f[j] /\ n = m
    <3>1. n \in 1 .. Len(h[f[i]].calls) /\ m \in 1 .. Len(h[f[j]].calls)
          /\ h[f[i]].calls[n].id = h[f[j]].calls[m].id
        BY <1>2, <2>0
    <3>2. \A a, b \in 1 .. Len(h) : \A x \in 1 .. Len(h[a].calls), y \in 1 .. Len(h[b].calls) :
              h[a].calls[x].id = h[b].calls[y].id => a = b /\ x = y
        BY DEF Distinct
    <3>3. PICK a \in 1 .. Len(h) : a = f[i]
        BY <2>0
    <3>4. PICK b \in 1 .. Len(h) : b = f[j]
        BY <2>0
    <3>5. n \in 1 .. Len(h[a].calls) /\ m \in 1 .. Len(h[b].calls)
          /\ h[a].calls[n].id = h[b].calls[m].id
        BY <3>1, <3>3, <3>4
    <3>6. a = b /\ n = m
        BY SMTT(30), <3>2, <3>5
    <3> QED
        BY <3>3, <3>4, <3>6
  <2> QED
      BY <2>0, <2>1
<1>3. ASSUME NEW i \in 1 .. Len(g), NEW n \in 1 .. Len(g[i].calls)
      PROVE  g[i].calls[n].id \in B
    BY <1>1 DEF Distinct
<1> QED
    BY <1>2, <1>3 DEF Distinct

\* What pruning leaves: the prompt, and the messages from one that is no result
LEMMA PruneFacts ==
    ASSUME NEW h, History(h), h[Len(h)].role # "tool", Len(h) >= 2
    PROVE  LET g == pruneHistory(h) IN
           \E d \in 0 .. Len(h) - 2 :
             /\ g \in Seq(Messages) /\ Len(g) = Len(h) - d /\ g[1] = h[1]
             /\ \A i \in 2 .. Len(g) : g[i] = h[i + d]
             /\ d > 0 => g[2].role # "tool"
<1> DEFINE g == pruneHistory(h)
           l == Len(h)
           W == HistoryWindow
           tail == SubSeq(h, l - W + 1, l)
           starts == {i \in DOMAIN tail : tail[i].role # "tool"}
<1>0. h \in Seq(Messages) /\ l \in Nat /\ l >= 2 /\ W \in Nat /\ W >= 1
  <2>1. {MaxTurns, MaxRounds, HistoryWindow} \subseteq Nat \ {0}
      BY ChatAssumption
  <2>2. HistoryWindow \in Nat \ {0}
      BY <2>1
  <2> QED
      BY <2>2, MessageFacts DEF History
<1>sub. ASSUME NEW s \in Seq(Messages), NEW m \in 1 .. Len(s) + 1
        PROVE  /\ SubSeq(s, m, Len(s)) \in Seq(Messages)
               /\ Len(SubSeq(s, m, Len(s))) = Len(s) - m + 1
               /\ \A j \in 1 .. Len(s) - m + 1 : SubSeq(s, m, Len(s))[j] = s[m + j - 1]
    OBVIOUS
<1>1. CASE l <= W + 1
  <2>1. g = h
      BY <1>1 DEF pruneHistory
  <2>2. 0 \in 0 .. l - 2 /\ l - 0 = l /\ (\A i \in 2 .. l : i + 0 = i) /\ ~(0 > 0)
      BY <1>0
  <2> QED
      BY <1>0, <2>1, <2>2
<1>2. CASE ~(l <= W + 1)
  <2>1. g = <<h[1]>> \o IF starts = {} THEN <<>> ELSE SubSeq(tail, Min(starts), Len(tail))
      BY <1>2 DEF pruneHistory
  <2>2. /\ tail \in Seq(Messages) /\ Len(tail) = W
        /\ \A j \in 1 .. W : tail[j] = h[(l - W) + j]
    <3>1. l - W + 1 \in 1 .. l + 1 /\ l - (l - W + 1) + 1 = W
        BY <1>0, <1>2
    <3>2. /\ tail \in Seq(Messages) /\ Len(tail) = l - (l - W + 1) + 1
          /\ \A j \in 1 .. l - (l - W + 1) + 1 : tail[j] = h[(l - W + 1) + j - 1]
        BY <1>0, <1>sub, <3>1
    <3>3. \A j \in 1 .. W : (l - W + 1) + j - 1 = (l - W) + j
        BY <1>0
    <3> QED
        BY <3>1, <3>2, <3>3
  <2> HIDE DEF tail
  <2>3. DOMAIN tail = 1 .. W
      BY <2>2
  <2>4. W \in starts /\ starts \subseteq 1 .. W
    <3>1. W \in 1 .. W /\ (l - W) + W = l
        BY <1>0
    <3>2. tail[W] = h[l]
        BY <2>2, <3>1
    <3> QED
        BY <2>3, <3>1, <3>2
  <2> HIDE DEF starts
  <2>5. PICK a \in 1 .. W : a = Min(starts) /\ a \in starts
    <3>1. starts \in SUBSET (0 .. W) /\ starts # {}
        BY <1>0, <2>4
    <3>2. Min(starts) \in starts
        BY <1>0, <3>1, MinFacts
    <3> QED
        BY <2>4, <3>2
  <2> DEFINE kept == SubSeq(tail, a, Len(tail))
             d == (l - W) + a - 2
  <2>6. /\ kept \in Seq(Messages) /\ Len(kept) = W - a + 1
        /\ \A j \in 1 .. W - a + 1 : kept[j] = tail[a + j - 1]
    <3>1. a \in 1 .. W + 1
        BY <1>0
    <3> QED
        BY <1>sub, <2>2, <3>1
  <2>7. g = <<h[1]>> \o kept
      BY <2>1, <2>4, <2>5
  <2> HIDE DEF kept, g
  <2>8. h[1] \in Messages
      BY <1>0
  <2>9. /\ g \in Seq(Messages) /\ Len(g) = 1 + Len(kept) /\ g[1] = h[1]
        /\ \A j \in 1 .. Len(kept) : g[j + 1] = kept[j]
    <3>1. ASSUME NEW x \in Messages, NEW s \in Seq(Messages)
          PROVE  /\ <<x>> \o s \in Seq(Messages) /\ Len(<<x>> \o s) = 1 + Len(s)
                 /\ (<<x>> \o s)[1] = x /\ \A j \in 1 .. Len(s) : (<<x>> \o s)[j + 1] = s[j]
        OBVIOUS
    <3> QED
        BY <2>6, <2>7, <2>8, <3>1
  <2>10. d \in 1 .. l - 2 /\ Len(g) = l - d /\ Len(g) >= 2 /\ Len(g) \in Nat
      BY SMTT(30), <1>0, <1>2, <2>5, <2>6, <2>9
  <2>11. ASSUME NEW i \in 2 .. Len(g) PROVE g[i] = h[i + d]
    <3>1. i - 1 \in 1 .. W - a + 1 /\ (i - 1) + 1 = i /\ a + (i - 1) - 1 \in 1 .. W
          /\ (l - W) + (a + (i - 1) - 1) = i + d
      <4>1. /\ l \in Nat /\ W \in Nat /\ a \in 1 .. W /\ Len(g) = W - a + 2
            /\ i \in 2 .. W - a + 2
          BY <1>0, <2>5, <2>6, <2>9
      <4> HIDE DEF l, W
      <4> QED
          BY <4>1
    <3>2. g[i] = kept[i - 1]
        BY <2>6, <2>9, <3>1
    <3>3. kept[i - 1] = tail[a + (i - 1) - 1]
        BY <2>6, <3>1
    <3>4. tail[a + (i - 1) - 1] = h[(l - W) + (a + (i - 1) - 1)]
        BY <2>2, <3>1
    <3> QED
        BY <3>1, <3>2, <3>3, <3>4
  <2>12. g[2].role # "tool"
    <3>1. 1 \in 1 .. W - a + 1 /\ a + 1 - 1 = a /\ 1 + 1 = 2
        BY <1>0, <2>5
    <3>2. g[2] = kept[1]
      <4>1. 1 \in 1 .. Len(kept)
          BY <2>6, <3>1
      <4> QED
          BY <2>9, <3>1, <4>1
    <3>3. kept[1] = tail[a]
        BY <2>6, <3>1
    <3>4. tail[a].role # "tool"
        BY <2>5 DEF starts
    <3> QED
        BY <3>2, <3>3, <3>4
  <2>13. d \in 0 .. l - 2
      BY <1>0, <2>10
  <2> HIDE DEF d
  <2> QED
      BY <2>9, <2>10, <2>11, <2>12, <2>13 DEF g
<1> QED
    BY <1>1, <1>2

\* Pruning keeps the shape of a history
LEMMA PruneHistory ==
    ASSUME NEW h, History(h), h[Len(h)].role # "tool", Len(h) >= 2
    PROVE  History(pruneHistory(h))
<1> DEFINE g == pruneHistory(h)
           l == Len(h)
<1>0. /\ l \in Nat /\ l >= 2 /\ h[1] = Message("system") /\ h[1].calls = <<>>
      /\ h[1].role # "tool" /\ Len(h[1].calls) = 0
    BY MessageFacts DEF History
<1>1. PICK d \in 0 .. l - 2 :
          /\ g \in Seq(Messages) /\ Len(g) = l - d /\ g[1] = h[1]
          /\ \A i \in 2 .. Len(g) : g[i] = h[i + d]
          /\ d > 0 => g[2].role # "tool"
    BY PruneFacts
<1> HIDE DEF g, l
<1>2. d \in Nat /\ Len(g) \in Nat /\ Len(g) >= 2
      /\ \A i \in 2 .. Len(g) : i \in 1 .. Len(g) /\ i + d \in 1 .. l
    BY <1>0, <1>1
<1>3. History(g)
  <2>1. g # <<>>
      BY <1>1, <1>2
  <2>2. ASSUME NEW i \in 1 .. Len(g), g[i].role = "tool" PROVE g[i].calls = <<>>
    <3>1. i # 1
        BY <1>0, <1>1, <2>2
    <3>2. i \in 2 .. Len(g)
        BY <1>2, <3>1
    <3> QED
        BY <1>1, <1>2, <2>2, <3>2 DEF History, l
  <2> QED
      BY <1>0, <1>1, <2>1, <2>2 DEF History
<1> QED
    BY <1>3 DEF g

\* Pruning leaves a history whose messages have the results they had
LEMMA PruneKeeps ==
    ASSUME NEW h, History(h), h[Len(h)].role # "tool", Len(h) >= 2, NEW B, Distinct(h, B)
    PROVE  LET g == pruneHistory(h) IN
           /\ History(g) /\ Distinct(g, B) /\ Len(g) >= 2
           /\ \E d \in 0 .. Len(h) - 2 :
                /\ Len(g) = Len(h) - d /\ \A i \in 2 .. Len(g) : g[i] = h[i + d]
                /\ \A i \in Speech(g) \ {1} :
                     /\ i + d \in Speech(h)
                     /\ \A k \in Nat : Block(h, i + d, k) => Block(g, i, k)
                     /\ Closed(h, i + d) => Closed(g, i)
                /\ d > 0 \/ Closed(h, 1) => Closed(g, 1)
<1> DEFINE g == pruneHistory(h)
           l == Len(h)
<1>0. /\ l \in Nat /\ l >= 2 /\ h[1] = Message("system") /\ h[1].calls = <<>>
      /\ h[1].role # "tool" /\ Len(h[1].calls) = 0
    BY MessageFacts DEF History
<1>1. PICK d \in 0 .. l - 2 :
          /\ g \in Seq(Messages) /\ Len(g) = l - d /\ g[1] = h[1]
          /\ \A i \in 2 .. Len(g) : g[i] = h[i + d]
          /\ d > 0 => g[2].role # "tool"
    BY PruneFacts
<1> HIDE DEF g, l
<1>2. d \in Nat /\ Len(g) \in Nat /\ Len(g) >= 2
      /\ \A i \in 2 .. Len(g) : i \in 1 .. Len(g) /\ i + d \in 1 .. l
    BY <1>0, <1>1
<1>3. History(g)
    BY PruneHistory DEF g
<1>4. Distinct(g, B)
  <2> DEFINE f == [i \in 1 .. Len(g) |-> i + d]
  <2>1. ASSUME NEW i \in 1 .. Len(g), g[i].calls # <<>>
        PROVE  f[i] \in 1 .. Len(h) /\ g[i].calls = h[f[i]].calls
    <3>1. i # 1
        BY <1>0, <1>1, <2>1
    <3>2. i \in 2 .. Len(g) /\ f[i] = i + d
        BY <1>2, <3>1
    <3> QED
        BY <1>1, <1>2, <3>2 DEF l
  <2>2. \A i, j \in 1 .. Len(g) : f[i] = f[j] => i = j
      BY <1>2
  <2> HIDE DEF f
  <2> QED
      BY <2>1, <2>2, Renumbered
<1>5. ASSUME NEW i \in Speech(g) \ {1} PROVE i \in 2 .. Len(g) /\ i + d \in Speech(h) /\ g[i] = h[i + d]
  <2>1. i \in 2 .. Len(g)
      BY <1>2 DEF Speech
  <2> QED
      BY <1>1, <1>2, <2>1 DEF Speech, l
<1>6. ASSUME NEW i \in Speech(g) \ {1}, NEW k \in Nat, Extent(h, i + d, k)
      PROVE  /\ g[i] = h[i + d] /\ Extent(g, i, k)
             /\ \A j \in 1 .. k : g[i + j] = h[(i + d) + j]
  <2>1. i \in 2 .. Len(g) /\ g[i] = h[i + d] /\ i \in Nat
      BY <1>2, <1>5
  <2>2. /\ (i + d) + k <= l
        /\ (i + d) + k < l => h[(i + d) + k + 1].role # "tool"
      BY <1>6 DEF Extent, l
  <2>3. i + k <= Len(g)
      BY <1>0, <1>1, <1>2, <2>1, <2>2
  <2>4. ASSUME NEW j \in 1 .. k PROVE g[i + j] = h[(i + d) + j]
    <3>0. d \in Nat /\ Len(g) \in Nat /\ i >= 2 /\ j \in Nat /\ j >= 1 /\ j <= k
        BY <1>2, <2>1
    <3>1. i + j \in 2 .. Len(g) /\ (i + j) + d = (i + d) + j
        BY <2>1, <2>3, <3>0
    <3> QED
        BY <1>1, <3>1
  <2>5. ASSUME i + k < Len(g) PROVE g[i + k + 1].role # "tool"
    <3>1. i + k + 1 \in 2 .. Len(g) /\ (i + k + 1) + d = (i + d) + k + 1
        BY <1>2, <2>1, <2>5
    <3>2. (i + d) + k < l
        BY <1>0, <1>1, <1>2, <2>1, <2>5
    <3>3. g[i + k + 1] = h[(i + k + 1) + d]
        BY <1>1, <3>1
    <3> QED
        BY <2>2, <3>1, <3>2, <3>3
  <2> QED
      BY <2>1, <2>3, <2>4, <2>5 DEF Extent
<1>8. ASSUME NEW i \in Speech(g) \ {1}
      PROVE  /\ \A k \in Nat : Block(h, i + d, k) => Block(g, i, k)
             /\ Closed(h, i + d) => Closed(g, i)
  <2>1. ASSUME NEW k \in Nat, Block(h, i + d, k) PROVE Block(g, i, k)
      BY <1>6, <2>1, Stretch DEF Block
  <2>2. ASSUME Closed(h, i + d) PROVE Closed(g, i)
    <3>1. Len(h[i + d].calls) \in Nat /\ Extent(h, i + d, Len(h[i + d].calls))
        BY <1>5, <2>2, MessageFacts DEF Speech, Closed
    <3> QED
        BY <1>6, <2>2, <3>1, Stretch
  <2> QED
      BY <2>1, <2>2
<1>7. ASSUME d > 0 \/ Closed(h, 1) PROVE Closed(g, 1)
  <2>1. Len(g[1].calls) = 0
      BY <1>0, <1>1
  <2>2. g[2].role # "tool"
    <3>1. CASE d > 0
        BY <1>1, <3>1
    <3>2. CASE ~(d > 0)
      <4>1. d = 0 /\ 2 + d = 2 /\ 2 \in 2 .. Len(g)
          BY <1>2, <3>2
      <4>2. g[2] = h[2]
          BY <1>1, <4>1
      <4>3. Extent(h, 1, 0)
          BY <1>0, <1>7, <3>2 DEF Closed
      <4>4. 1 + 0 < Len(h) /\ 1 + 0 + 1 = 2
          BY <1>0 DEF l
      <4> QED
          BY <4>2, <4>3, <4>4 DEF Extent
    <3> QED
        BY <3>1, <3>2
  <2>3. 1 + 0 <= Len(g) /\ 1 + 0 + 1 = 2
      BY <1>2
  <2>4. Block(g, 1, 0)
      BY <2>1, <2>2, <2>3 DEF Block, Extent
  <2> QED
      BY <2>1, <2>4, BlockCloses
<1> QED
    BY <1>1, <1>2, <1>3, <1>4, <1>5, <1>7, <1>8 DEF g, l

\* So pruned, a settled history is settled and a tidy one is tidy
LEMMA PruneSettled ==
    ASSUME NEW h, History(h), h[Len(h)].role # "tool", Len(h) >= 2, NEW B, Distinct(h, B), Settled(h)
    PROVE  LET g == pruneHistory(h) IN
           /\ History(g) /\ Distinct(g, B) /\ Len(g) >= 2 /\ Settled(g)
           /\ Tidy(h) => Tidy(g)
<1> DEFINE g == pruneHistory(h)
<1>1. History(g) /\ Distinct(g, B) /\ Len(g) >= 2
    BY PruneKeeps
<1>2. PICK d \in 0 .. Len(h) - 2 :
          /\ \A i \in Speech(g) \ {1} :
               /\ i + d \in Speech(h)
               /\ \A k \in Nat : Block(h, i + d, k) => Block(g, i, k)
               /\ Closed(h, i + d) => Closed(g, i)
          /\ d > 0 \/ Closed(h, 1) => Closed(g, 1)
    BY PruneKeeps
<1> HIDE DEF g
<1>3. Closed(g, 1)
  <2>1. 1 \in Speech(h) /\ Len(h[1].calls) = 0
      BY MessageFacts
  <2>2. ASSUME NEW k \in Nat, Block(h, 1, k) PROVE Closed(h, 1)
    <3>1. k = 0
        BY <2>1, <2>2 DEF Block
    <3> QED
        BY <2>1, <2>2, <3>1, BlockCloses
  <2>3. Closed(h, 1)
      BY <2>1, <2>2 DEF Settled
  <2> QED
      BY <1>2, <2>3
<1>4. Settled(g)
    BY <1>2, <1>3 DEF Settled
<1>5. Tidy(h) => Tidy(g)
    BY <1>2, <1>3 DEF Tidy
<1> QED
    BY <1>1, <1>4, <1>5 DEF g

\* The results for the calls of a message behind the e-th
Rest(m, e) == [j \in 1 .. Len(m.calls) - e |-> Result(m.calls[e + j].id)]

\* They are results, one for each of those calls
LEMMA RestFacts ==
    ASSUME NEW m \in Messages, NEW e \in 0 .. Len(m.calls)
    PROVE  /\ Len(m.calls) \in Nat /\ m.calls \in Seq(CallSet) /\ DOMAIN m.calls = 1 .. Len(m.calls)
           /\ \A n \in 1 .. Len(m.calls) : /\ Result(m.calls[n].id) \in Messages
                                           /\ Result(m.calls[n].id).role = "tool"
                                           /\ Result(m.calls[n].id).calls = <<>>
                                           /\ Result(m.calls[n].id).id = m.calls[n].id
           /\ Rest(m, e) \in Seq(Messages) /\ Len(Rest(m, e)) = Len(m.calls) - e
           /\ Len(m.calls) - e \in Nat
           /\ \A j \in 1 .. Len(m.calls) - e :
                  e + j \in 1 .. Len(m.calls) /\ Rest(m, e)[j] = Result(m.calls[e + j].id)
<1> DEFINE l == Len(m.calls)
<1>1. m.calls \in Seq(CallSet)
    BY DEF Messages
<1>2. l \in Nat /\ DOMAIN m.calls = 1 .. l /\ \A n \in 1 .. l : m.calls[n] \in CallSet
    BY <1>1
<1>3. \A n \in 1 .. l : m.calls[n].id \in CallIds
    BY <1>2 DEF CallSet
<1>4. ASSUME NEW x \in CallIds
      PROVE  Result(x) \in Messages /\ Result(x).role = "tool" /\ Result(x).calls = <<>> /\ Result(x).id = x
  <2>1. <<>> \in Seq(CallSet)
      OBVIOUS
  <2> QED
      BY <2>1 DEF Result, Messages, Roles
<1>5. \A n \in 1 .. l : /\ Result(m.calls[n].id) \in Messages
                        /\ Result(m.calls[n].id).role = "tool"
                        /\ Result(m.calls[n].id).calls = <<>>
                        /\ Result(m.calls[n].id).id = m.calls[n].id
    BY <1>3, <1>4
<1>6. l - e \in Nat /\ \A j \in 1 .. l - e : e + j \in 1 .. l
  <2>1. e \in 0 .. l
      OBVIOUS
  <2> HIDE DEF l
  <2> QED
      BY <1>2, <2>1
<1>7. Rest(m, e) = [j \in 1 .. l - e |-> Result(m.calls[e + j].id)]
    BY DEF Rest
<1> HIDE DEF l
<1>8. \A j \in 1 .. l - e : Result(m.calls[e + j].id) \in Messages
    BY <1>5, <1>6
<1>9. /\ Rest(m, e) \in Seq(Messages) /\ Len(Rest(m, e)) = l - e
      /\ \A j \in 1 .. l - e : Rest(m, e)[j] = Result(m.calls[e + j].id)
    BY <1>6, <1>7, <1>8
<1> QED
    BY <1>1, <1>2, <1>5, <1>6, <1>9 DEF l

\* What reconcileHistory inserts behind a message: the results of the calls
\* behind the e-th, where the message has those of the first e
LEMMA PlaceholderFacts ==
    ASSUME NEW h, History(h), Settled(h), NEW B, Distinct(h, B), NEW i \in 1 .. Len(h),
           NEW e \in 0 .. Len(h[i].calls),
           h[i].role = "tool" \/ Closed(h, i) => e = Len(h[i].calls),
           ~(h[i].role = "tool" \/ Closed(h, i)) => Block(h, i, e)
    PROVE  placeholders(h, h[i]) = Rest(h[i], e)
<1> DEFINE m == h[i]
           k == Len(m.calls)
           s == [n \in DOMAIN m.calls |->
                    IF m.calls[n].id \in Answered(h) THEN <<>> ELSE <<Result(m.calls[n].id)>>]
<1>0. m \in Messages /\ Len(h) \in Nat /\ DOMAIN h = 1 .. Len(h) /\ i \in Nat
    BY MessageFacts
<1>1. /\ Rest(m, e) \in Seq(Messages) /\ Len(Rest(m, e)) = k - e /\ k \in Nat
      /\ DOMAIN m.calls = 1 .. k
      /\ \A n \in 1 .. k : /\ Result(m.calls[n].id) \in Messages
                           /\ Result(m.calls[n].id).role = "tool"
                           /\ Result(m.calls[n].id).id = m.calls[n].id
      /\ \A j \in 1 .. k - e : Rest(m, e)[j] = Result(m.calls[e + j].id)
    BY <1>0, RestFacts
<1>2. placeholders(h, m) = FlattenSeq(s)
    BY DEF placeholders
<1>3. s = [n \in 1 .. k |-> IF m.calls[n].id \in Answered(h) THEN <<>> ELSE <<Result(m.calls[n].id)>>]
    BY <1>1
<1>4. s \in Seq(Seq(Messages)) /\ Len(s) = k
      /\ \A n \in 1 .. k : s[n] = IF m.calls[n].id \in Answered(h) THEN <<>>
                                  ELSE <<Result(m.calls[n].id)>>
  <2>1. \A n \in 1 .. k : <<Result(m.calls[n].id)>> \in Seq(Messages)
      BY <1>1
  <2>2. <<>> \in Seq(Messages)
      OBVIOUS
  <2>3. \A n \in 1 .. k : (IF m.calls[n].id \in Answered(h) THEN <<>>
                           ELSE <<Result(m.calls[n].id)>>) \in Seq(Messages)
      BY <2>1, <2>2
  <2> HIDE DEF k, m, s
  <2> QED
      BY <1>1, <1>3, <2>3
<1>e. e \in 0 .. k /\ e \in Nat
    BY <1>1
<1> HIDE DEF s, k
<1>5. ASSUME NEW n \in 1 .. k, n <= e PROVE m.calls[n].id \in Answered(h)
  <2>0. m.role # "tool"
    <3>1. m.role = "tool" => m.calls = <<>>
        BY DEF History
    <3>2. m.calls # <<>>
      <4>1. Len(<<>>) = 0 /\ 1 .. 0 = {}
          OBVIOUS
      <4> QED
          BY <1>5, <4>1 DEF k
    <3> QED
        BY <3>1, <3>2
  <2>1. \E j \in 1 .. e : i + e <= Len(h) /\ h[i + j] = Result(m.calls[n].id)
    <3>1. CASE Closed(h, i)
      <4>1. e = k
          BY <3>1 DEF k
      <4>2. i + k <= Len(h) /\ \E j \in 1 .. k : h[i + j] = Result(m.calls[n].id)
          BY <3>1 DEF Closed, Extent, k
      <4> QED
          BY <4>1, <4>2
    <3>2. CASE ~Closed(h, i)
      <4>1. Block(h, i, e) /\ n \in 1 .. e
          BY <1>1, <1>e, <1>5, <2>0, <3>2
      <4>2. i + e <= Len(h) /\ h[i + n] = Result(m.calls[n].id)
          BY <4>1 DEF Block, Extent
      <4> QED
          BY <4>1, <4>2
    <3> QED
        BY <3>1, <3>2
  <2>2. PICK j \in 1 .. e : i + e <= Len(h) /\ h[i + j] = Result(m.calls[n].id)
      BY <2>1
  <2>3. i + j \in 1 .. Len(h)
      BY <1>0, <1>e, <2>2
  <2>4. h[i + j].role = "tool" /\ h[i + j].id = m.calls[n].id
      BY <1>1, <2>2
  <2> QED
      BY <1>0, <2>3, <2>4 DEF Answered
<1>6. ASSUME NEW n \in 1 .. k, n > e, m.calls[n].id \in Answered(h) PROVE FALSE
  <2>0. ~Closed(h, i) /\ Block(h, i, e)
    <3>1. e # k
        BY <1>1, <1>e, <1>6
    <3> QED
        BY <3>1 DEF k
  <2>1. PICK j \in 1 .. Len(h) : h[j].role = "tool" /\ h[j].id = m.calls[n].id
      BY <1>0, <1>6 DEF Answered
  <2>2. PICK p \in Speech(h) : \E q \in 1 .. Len(h[p].calls) :
            /\ h[j] = Result(h[p].calls[q].id)
            /\ Closed(h, p) \/ \E c \in Nat : Block(h, p, c) /\ q <= c
      BY <2>1, Owner
  <2>3. PICK q \in 1 .. Len(h[p].calls) :
            /\ h[j] = Result(h[p].calls[q].id)
            /\ Closed(h, p) \/ \E c \in Nat : Block(h, p, c) /\ q <= c
      BY <2>2
  <2>4. p \in 1 .. Len(h)
      BY DEF Speech
  <2>5. h[i].calls[n].id = h[p].calls[q].id
    <3>1. h[j].id = h[p].calls[q].id
        BY <2>3 DEF Result
    <3> QED
        BY <2>1, <3>1
  <2>6. i = p /\ n = q
    <3>1. \A a, b \in 1 .. Len(h) : \A x \in 1 .. Len(h[a].calls), y \in 1 .. Len(h[b].calls) :
              h[a].calls[x].id = h[b].calls[y].id => a = b /\ x = y
        BY DEF Distinct
    <3>2. n \in 1 .. Len(h[i].calls)
        BY DEF k
    <3> HIDE DEF m
    <3> QED
        BY <2>4, <2>5, <3>1, <3>2
  <2>7. PICK c \in Nat : Block(h, i, c) /\ n <= c
      BY <2>0, <2>3, <2>6
  <2>8. e + 1 \in 1 .. c /\ i + (e + 1) = i + e + 1 /\ i + e < i + c /\ i + c <= Len(h)
    <3>1. i + c <= Len(h)
        BY <2>7 DEF Block, Extent
    <3> QED
        BY <1>0, <1>1, <1>e, <1>6, <2>7, <3>1
  <2>9. h[i + (e + 1)] = Result(h[i].calls[e + 1].id)
      BY <2>7, <2>8 DEF Block
  <2>10. h[i + e + 1].role # "tool"
    <3>1. i + e < Len(h)
        BY <1>0, <1>e, <2>8
    <3> QED
        BY <2>0, <3>1 DEF Block, Extent
  <2> QED
      BY <2>8, <2>9, <2>10 DEF Result
<1>7. /\ Len(Rest(m, e)) = Len(s) - e /\ e \in 0 .. Len(s)
      /\ \A n \in 1 .. Len(s) : n <= e => s[n] = <<>>
      /\ \A n \in 1 .. Len(s) : n > e => s[n] = <<Rest(m, e)[n - e]>>
  <2>1. Len(s) = k
      BY <1>4
  <2>2. ASSUME NEW n \in 1 .. k, n > e PROVE s[n] = <<Rest(m, e)[n - e]>>
    <3>1. n - e \in 1 .. k - e /\ e + (n - e) = n
        BY <1>1, <1>e, <2>2
    <3>2. Rest(m, e)[n - e] = Result(m.calls[n].id)
        BY <1>1, <3>1
    <3> HIDE DEF m
    <3> QED
        BY <1>4, <1>6, <2>2, <3>2
  <2> HIDE DEF m
  <2> QED
      BY <1>1, <1>4, <1>5, <1>e, <2>1, <2>2
<1>8. FlattenSeq(s) = Rest(m, e)
  <2> HIDE DEF m
  <2> QED
      BY <1>1, <1>4, <1>7, FlattenRest
<1> QED
    BY <1>2, <1>8

\* Whatever the history, a repair inserts nothing but results
LEMMA PlaceholdersAreResults ==
    ASSUME NEW h, History(h), NEW i \in 1 .. Len(h)
    PROVE  LET c == placeholders(h, h[i]) IN
           /\ c \in Seq(Messages) /\ Len(c) \in Nat
           /\ \A j \in 1 .. Len(c) : c[j].role = "tool" /\ c[j].calls = <<>>
<1> DEFINE m == h[i]
           k == Len(m.calls)
           Good == {x \in Messages : x.role = "tool" /\ x.calls = <<>>}
           s == [n \in DOMAIN m.calls |->
                    IF m.calls[n].id \in Answered(h) THEN <<>> ELSE <<Result(m.calls[n].id)>>]
<1>0. m \in Messages
    BY MessageFacts
<1>1. k \in Nat /\ DOMAIN m.calls = 1 .. k /\ \A n \in 1 .. k : Result(m.calls[n].id) \in Good
  <2>1. 0 \in 0 .. k
      BY MessageFacts
  <2> QED
      BY <1>0, <2>1, RestFacts
<1>2. placeholders(h, m) = FlattenSeq(s)
    BY DEF placeholders
<1>3. s \in Seq(Seq(Good))
  <2>1. s = [n \in 1 .. k |-> IF m.calls[n].id \in Answered(h) THEN <<>> ELSE <<Result(m.calls[n].id)>>]
      BY <1>1
  <2>2. <<>> \in Seq(Good) /\ \A n \in 1 .. k : <<Result(m.calls[n].id)>> \in Seq(Good)
    <3> HIDE DEF Good
    <3> QED
        BY <1>1
  <2>3. \A n \in 1 .. k : (IF m.calls[n].id \in Answered(h) THEN <<>>
                           ELSE <<Result(m.calls[n].id)>>) \in Seq(Good)
      BY <2>2
  <2> HIDE DEF k, m, s, Good
  <2> QED
      BY <1>1, <2>1, <2>3
<1>4. FlattenSeq(s) \in Seq(Good)
  <2>1. <<>> \in Seq(Good)
      OBVIOUS
  <2> HIDE DEF s, Good
  <2> QED
      BY <1>3, <2>1, FlattenAppend
<1> HIDE DEF s
<1>5. ASSUME NEW c \in Seq(Good)
      PROVE  /\ c \in Seq(Messages) /\ Len(c) \in Nat
             /\ \A j \in 1 .. Len(c) : c[j].role = "tool" /\ c[j].calls = <<>>
  <2>1. Len(c) \in Nat /\ DOMAIN c = 1 .. Len(c) /\ \A j \in 1 .. Len(c) : c[j] \in Good
    <3> HIDE DEF Good
    <3> QED
        OBVIOUS
  <2>2. c = [j \in 1 .. Len(c) |-> c[j]]
      BY <2>1
  <2>3. \A j \in 1 .. Len(c) : c[j] \in Messages
      BY <2>1
  <2> QED
      BY <2>1, <2>2, <2>3
<1> QED
    BY <1>2, <1>4, <1>5

\* r is h with each message's placeholders behind it; those of the i-th end at b[i]
Inserted(h, r, b) ==
    /\ b[Len(h)] = Len(r)
    /\ \A i, j \in 0 .. Len(h) : i <= j => b[i] <= b[j]
    /\ \A i \in 1 .. Len(h) :
         LET c == placeholders(h, h[i]) IN
         /\ b[i - 1] \in Nat /\ b[i] = b[i - 1] + 1 + Len(c)
         /\ b[i] \in Nat /\ b[i] <= Len(r)
         /\ r[b[i - 1] + 1] = h[i]
         /\ \A j \in 1 .. Len(c) : r[b[i - 1] + 1 + j] = c[j]
    /\ \A k \in Speech(r) : \E i \in Speech(h) : k = b[i - 1] + 1 /\ r[k] = h[i]

\* What reconcileHistory makes of a history: the messages in their order, each
\* with what is inserted behind it, and no call is new
LEMMA ReconcileFacts ==
    ASSUME NEW h, History(h)
    PROVE  LET r == reconcileHistory(h) IN
           /\ History(r) /\ \A B : Distinct(h, B) => Distinct(r, B)
           /\ \E b \in [0 .. Len(h) -> Nat] : Inserted(h, r, b)
<1> DEFINE l == Len(h)
           p == [i \in DOMAIN h |-> <<h[i]>> \o placeholders(h, h[i])]
           r == FlattenSeq(p)
           c(i) == placeholders(h, h[i])
<1>0. l \in Nat /\ l >= 1 /\ DOMAIN h = 1 .. l /\ \A i \in 1 .. l : h[i] \in Messages
    BY MessageFacts
<1>1. ASSUME NEW i \in 1 .. l
      PROVE  /\ c(i) \in Seq(Messages) /\ Len(c(i)) \in Nat
             /\ \A j \in 1 .. Len(c(i)) : c(i)[j].role = "tool" /\ c(i)[j].calls = <<>>
    BY PlaceholdersAreResults
<1>p. ASSUME NEW i \in 1 .. l PROVE p[i] = <<h[i]>> \o c(i)
    BY <1>0
<1> HIDE DEF c
<1>2. ASSUME NEW i \in 1 .. l
      PROVE  /\ p[i] \in Seq(Messages) /\ Len(p[i]) = 1 + Len(c(i)) /\ p[i][1] = h[i]
             /\ \A j \in 1 .. Len(c(i)) : p[i][j + 1] = c(i)[j]
  <2>1. ASSUME NEW x \in Messages, NEW s \in Seq(Messages)
        PROVE  /\ <<x>> \o s \in Seq(Messages) /\ Len(<<x>> \o s) = 1 + Len(s)
               /\ (<<x>> \o s)[1] = x /\ \A j \in 1 .. Len(s) : (<<x>> \o s)[j + 1] = s[j]
      OBVIOUS
  <2>2. p[i] = <<h[i]>> \o c(i)
      BY <1>p
  <2> HIDE DEF p
  <2> QED
      BY <1>0, <1>1, <2>1, <2>2
<1>3. p \in Seq(Seq(Messages)) /\ Len(p) = l
  <2>1. p = [i \in 1 .. l |-> p[i]]
      BY <1>0
  <2> HIDE DEF p
  <2>2. \A i \in 1 .. l : p[i] \in Seq(Messages)
      BY <1>2
  <2> QED
      BY <1>0, <2>1, <2>2
<1>4. reconcileHistory(h) = r
    BY DEF reconcileHistory
<1> HIDE DEF p
<1>5. r \in Seq(Messages)
  <2>1. <<>> \in Seq(Messages)
      OBVIOUS
  <2> QED
      BY <1>3, <2>1, FlattenAppend
<1>6. PICK b \in [0 .. l -> Nat] :
          /\ b[0] = 0 /\ b[l] = Len(r)
          /\ \A i \in 1 .. l : b[i] = b[i - 1] + Len(p[i])
          /\ \A i, j \in 0 .. l : i <= j => b[i] <= b[j]
          /\ \A i \in 1 .. l : \A j \in 1 .. Len(p[i]) : r[b[i - 1] + j] = p[i][j]
          /\ \A k \in 1 .. Len(r) : \E i \in 1 .. l : b[i - 1] < k /\ k <= b[i]
  <2>1. \E b \in [0 .. Len(p) -> Nat] :
          /\ b[0] = 0 /\ b[Len(p)] = Len(r)
          /\ \A i \in 1 .. Len(p) : b[i] = b[i - 1] + Len(p[i])
          /\ \A i, j \in 0 .. Len(p) : i <= j => b[i] <= b[j]
          /\ \A i \in 1 .. Len(p) : \A j \in 1 .. Len(p[i]) : r[b[i - 1] + j] = p[i][j]
          /\ \A k \in 1 .. Len(r) : \E i \in 1 .. Len(p) : b[i - 1] < k /\ k <= b[i]
      BY <1>3, FlattenPieces
  <2>2. Len(p) = l
      BY <1>3
  <2> HIDE DEF r, l
  <2> QED
      BY <2>1, <2>2
<1> HIDE DEF r, l
<1>7. Len(r) \in Nat /\ DOMAIN r = 1 .. Len(r)
    BY <1>5
<1>8. ASSUME NEW i \in 1 .. l
      PROVE  /\ b[i - 1] \in Nat /\ b[i] = b[i - 1] + 1 + Len(c(i)) /\ Len(c(i)) \in Nat
             /\ b[i] \in Nat /\ b[i] <= Len(r)
             /\ r[b[i - 1] + 1] = h[i]
             /\ \A j \in 1 .. Len(c(i)) : r[b[i - 1] + 1 + j] = c(i)[j]
  <2>1. i - 1 \in 0 .. l /\ i \in 0 .. l /\ l \in 0 .. l /\ i <= l
      BY <1>0
  <2>2. b[i - 1] \in Nat /\ b[i] \in Nat /\ Len(c(i)) \in Nat /\ b[i] <= Len(r)
      BY <1>1, <1>6, <2>1
  <2>3. b[i] = b[i - 1] + Len(p[i]) /\ Len(p[i]) = 1 + Len(c(i))
      BY <1>2, <1>6
  <2>4. \A j \in 1 .. Len(p[i]) : r[b[i - 1] + j] = p[i][j]
      BY <1>6
  <2>5. r[b[i - 1] + 1] = h[i]
    <3>1. 1 \in 1 .. Len(p[i])
        BY <2>2, <2>3
    <3> QED
        BY <1>2, <2>4, <3>1
  <2>6. ASSUME NEW j \in 1 .. Len(c(i)) PROVE r[b[i - 1] + 1 + j] = c(i)[j]
    <3>1. j + 1 \in 1 .. Len(p[i]) /\ b[i - 1] + (j + 1) = b[i - 1] + 1 + j
        BY SMTT(30), <2>2, <2>3
    <3>2. r[b[i - 1] + (j + 1)] = p[i][j + 1]
        BY <2>4, <3>1
    <3>3. p[i][j + 1] = c(i)[j]
        BY <1>2
    <3> QED
        BY <3>1, <3>2, <3>3
  <2>7. b[i] = b[i - 1] + 1 + Len(c(i))
      BY <2>2, <2>3
  <2> QED
      BY <2>2, <2>5, <2>6, <2>7
<1>9. ASSUME NEW k \in 1 .. Len(r)
      PROVE  \E i \in 1 .. l : /\ b[i - 1] < k /\ k <= b[i]
                               /\ \/ k = b[i - 1] + 1 /\ r[k] = h[i]
                                  \/ r[k].role = "tool" /\ r[k].calls = <<>>
  <2>1. PICK i \in 1 .. l : b[i - 1] < k /\ k <= b[i]
      BY <1>6
  <2>2. /\ b[i - 1] \in Nat /\ b[i] = b[i - 1] + 1 + Len(c(i)) /\ Len(c(i)) \in Nat
        /\ r[b[i - 1] + 1] = h[i]
        /\ \A j \in 1 .. Len(c(i)) : r[b[i - 1] + 1 + j] = c(i)[j]
      BY <1>8
  <2>3. CASE k = b[i - 1] + 1
      BY <2>1, <2>2, <2>3
  <2>4. CASE k # b[i - 1] + 1
    <3> DEFINE j == k - b[i - 1] - 1
    <3>1. j \in 1 .. Len(c(i)) /\ b[i - 1] + 1 + j = k
      <4>1. /\ k \in Nat /\ b[i - 1] \in Nat /\ Len(c(i)) \in Nat /\ b[i - 1] < k
            /\ k <= b[i - 1] + 1 + Len(c(i))
          BY <1>7, <2>1, <2>2
      <4> QED
          BY SMTT(30), <2>4, <4>1
    <3> HIDE DEF j
    <3>2. r[k] = c(i)[j]
        BY <2>2, <3>1
    <3>3. r[k].role = "tool" /\ r[k].calls = <<>>
        BY <1>1, <3>1, <3>2
    <3> QED
        BY <2>1, <3>3
  <2> QED
      BY <2>3, <2>4
<1>10. ASSUME NEW k \in Speech(r) PROVE \E i \in Speech(h) : k = b[i - 1] + 1 /\ r[k] = h[i]
  <2>1. k \in 1 .. Len(r) /\ r[k].role # "tool"
      BY DEF Speech
  <2>2. PICK i \in 1 .. l : k = b[i - 1] + 1 /\ r[k] = h[i]
      BY <1>9, <2>1
  <2> QED
      BY <2>1, <2>2 DEF Speech, l
<1>11. History(r)
  <2>1. r[1] = h[1] /\ Len(r) >= 1
    <3>1. 1 \in 1 .. l /\ 1 - 1 = 0
        BY <1>0
    <3>2. b[1] = b[0] + 1 + Len(c(1)) /\ Len(c(1)) \in Nat /\ b[1] <= Len(r) /\ r[b[0] + 1] = h[1]
        BY <1>8, <3>1
    <3> QED
        BY <1>6, <1>7, <3>2
  <2>2. r # <<>>
      BY <1>5, <2>1
  <2>3. ASSUME NEW k \in 1 .. Len(r), r[k].role = "tool" PROVE r[k].calls = <<>>
    <3>1. (\E i \in 1 .. l : r[k] = h[i]) \/ r[k].calls = <<>>
        BY <1>9
    <3> QED
        BY <2>3, <3>1 DEF History, l
  <2> QED
      BY <1>5, <2>1, <2>2, <2>3 DEF History
<1>12. ASSUME NEW B, Distinct(h, B) PROVE Distinct(r, B)
  <2> DEFINE f == [k \in 1 .. Len(r) |-> CHOOSE i \in 1 .. l : k = b[i - 1] + 1 /\ r[k] = h[i]]
  <2>1. ASSUME NEW k \in 1 .. Len(r), r[k].calls # <<>>
        PROVE  f[k] \in 1 .. l /\ k = b[f[k] - 1] + 1 /\ r[k] = h[f[k]]
    <3>1. \E i \in 1 .. l : k = b[i - 1] + 1 /\ r[k] = h[i]
        BY <1>9, <2>1
    <3> QED
        BY <3>1
  <2>2. \A k \in 1 .. Len(r) : r[k].calls # <<>> =>
            f[k] \in 1 .. Len(h) /\ r[k].calls = h[f[k]].calls
    <3> HIDE DEF f
    <3> QED
        BY <2>1 DEF l
  <2>3. \A k, j \in 1 .. Len(r) :
            r[k].calls # <<>> /\ r[j].calls # <<>> /\ f[k] = f[j] => k = j
    <3> HIDE DEF f
    <3> QED
        BY <2>1
  <2> HIDE DEF f
  <2> QED
      BY SMTT(30), <1>12, <2>2, <2>3, Renumbered
<1>13. Inserted(h, r, b)
    BY <1>6, <1>8, <1>10 DEF Inserted, l, c
<1> QED
    BY <1>4, <1>6, <1>11, <1>12, <1>13 DEF l

\* What reconcileHistory makes of a settled history: every message has its
\* results, and no call is new
LEMMA ReconcileTidies ==
    ASSUME NEW h, History(h), Settled(h), NEW B, Distinct(h, B)
    PROVE  LET r == reconcileHistory(h) IN History(r) /\ Tidy(r) /\ Distinct(r, B)
<1> DEFINE l == Len(h)
           r == reconcileHistory(h)
           d(i) == IF h[i].role = "tool" \/ Closed(h, i) THEN Len(h[i].calls)
                   ELSE CHOOSE a \in Nat : Block(h, i, a)
           c(i) == Rest(h[i], d(i))
<1>0. l \in Nat /\ l >= 1 /\ DOMAIN h = 1 .. l /\ \A i \in 1 .. l : h[i] \in Messages
    BY MessageFacts
<1>d. ASSUME NEW i \in 1 .. l
      PROVE  /\ d(i) \in 0 .. Len(h[i].calls) /\ Len(h[i].calls) \in Nat
             /\ h[i].role = "tool" \/ Closed(h, i) => d(i) = Len(h[i].calls)
             /\ ~(h[i].role = "tool" \/ Closed(h, i)) => Block(h, i, d(i))
  <2>0. Len(h[i].calls) \in Nat
      BY MessageFacts
  <2>1. CASE h[i].role = "tool" \/ Closed(h, i)
    <3>1. d(i) = Len(h[i].calls)
        BY <2>1
    <3> HIDE DEF d
    <3> QED
        BY <2>0, <2>1, <3>1
  <2>2. CASE ~(h[i].role = "tool" \/ Closed(h, i))
    <3>1. \E a \in Nat : Block(h, i, a)
        BY <2>2 DEF Settled, Speech
    <3>2. d(i) = CHOOSE a \in Nat : Block(h, i, a)
        BY <2>2
    <3>3. d(i) \in Nat /\ Block(h, i, d(i))
        BY <3>1, <3>2
    <3> HIDE DEF d
    <3>4. d(i) <= Len(h[i].calls)
        BY <3>3 DEF Block
    <3> QED
        BY <2>0, <2>2, <3>3, <3>4
  <2> QED
      BY <2>1, <2>2
<1> HIDE DEF d
<1>1. ASSUME NEW i \in 1 .. l
      PROVE  /\ placeholders(h, h[i]) = c(i)
             /\ Len(c(i)) \in Nat /\ Len(c(i)) = Len(h[i].calls) - d(i)
  <2>1. placeholders(h, h[i]) = c(i)
      BY <1>d, PlaceholderFacts
  <2>2. /\ \A n \in 1 .. Len(h[i].calls) : /\ Result(h[i].calls[n].id).role = "tool"
                                            /\ Result(h[i].calls[n].id).calls = <<>>
        /\ c(i) \in Seq(Messages) /\ Len(c(i)) = Len(h[i].calls) - d(i)
        /\ Len(h[i].calls) - d(i) \in Nat
        /\ \A j \in 1 .. Len(h[i].calls) - d(i) :
               d(i) + j \in 1 .. Len(h[i].calls) /\ c(i)[j] = Result(h[i].calls[d(i) + j].id)
      BY <1>0, <1>d, RestFacts
  <2> HIDE DEF c
  <2> QED
      BY <2>1, <2>2
<1> HIDE DEF c
<1>6. History(r) /\ Distinct(r, B) /\ Len(r) \in Nat
    BY ReconcileFacts, MessageFacts
<1>7. PICK b \in [0 .. Len(h) -> Nat] : Inserted(h, r, b)
    BY ReconcileFacts
<1> HIDE DEF r, l
<1>8. /\ b \in [0 .. l -> Nat]
      /\ b[l] = Len(r)
      /\ \A i, j \in 0 .. l : i <= j => b[i] <= b[j]
      /\ \A i \in 1 .. l :
           /\ b[i - 1] \in Nat /\ b[i] = b[i - 1] + 1 + Len(c(i))
           /\ b[i] \in Nat /\ b[i] <= Len(r)
           /\ r[b[i - 1] + 1] = h[i]
           /\ \A j \in 1 .. Len(c(i)) : r[b[i - 1] + 1 + j] = c(i)[j]
      /\ \A k \in Speech(r) : \E i \in Speech(h) : k = b[i - 1] + 1 /\ r[k] = h[i]
  <2>1. ASSUME NEW i \in 1 .. l
        PROVE  /\ b[i - 1] \in Nat /\ b[i] = b[i - 1] + 1 + Len(c(i))
               /\ b[i] \in Nat /\ b[i] <= Len(r)
               /\ r[b[i - 1] + 1] = h[i]
               /\ \A j \in 1 .. Len(c(i)) : r[b[i - 1] + 1 + j] = c(i)[j]
    <3>1. placeholders(h, h[i]) = c(i)
        BY <1>1
    <3>2. /\ b[i - 1] \in Nat /\ b[i] = b[i - 1] + 1 + Len(placeholders(h, h[i]))
          /\ b[i] \in Nat /\ b[i] <= Len(r)
          /\ r[b[i - 1] + 1] = h[i]
          /\ \A j \in 1 .. Len(placeholders(h, h[i])) : r[b[i - 1] + 1 + j] = placeholders(h, h[i])[j]
        BY Zenon, <1>7 DEF Inserted, l
    <3> HIDE DEF c
    <3> QED
        BY <3>1, <3>2
  <2> QED
      BY <1>7, <2>1 DEF Inserted, l
<1>13. ASSUME NEW k \in Speech(r) PROVE Closed(r, k)
  <2>1. PICK i \in Speech(h) : k = b[i - 1] + 1 /\ r[k] = h[i]
      BY <1>8
  <2> DEFINE n == Len(h[i].calls)
  <2>2. i \in 1 .. l /\ h[i].role # "tool" /\ n \in Nat /\ h[i] \in Messages /\ i \in Nat
    <3>1. i \in 1 .. l /\ h[i].role # "tool"
        BY DEF Speech, l
    <3> QED
        BY <1>0, <3>1, MessageFacts DEF l
  <2>3. /\ b[i - 1] \in Nat /\ b[i] = b[i - 1] + 1 + Len(c(i)) /\ Len(c(i)) \in Nat
        /\ b[i] \in Nat /\ b[i] <= Len(r)
        /\ \A j \in 1 .. Len(c(i)) : r[b[i - 1] + 1 + j] = c(i)[j]
      BY <1>1, <1>8, <2>2
  <2>next. ASSUME NEW e \in i .. l, b[e] < Len(r), e < l => h[e + 1].role # "tool"
           PROVE  r[b[e] + 1].role # "tool"
    <3>1. e # l
        BY <1>6, <1>8, <2>next
    <3>2. e + 1 \in 1 .. l /\ (e + 1) - 1 = e /\ e < l
        BY <1>0, <2>2, <3>1
    <3>3. r[b[e] + 1] = h[e + 1]
        BY <1>8, <3>2
    <3> QED
        BY <2>next, <3>2, <3>3
  <2> DEFINE e == d(i)
             u == n - e
  <2>4. /\ e \in 0 .. n /\ e \in Nat /\ u \in Nat /\ u + e = n /\ Len(c(i)) = u
        /\ \A j \in 1 .. u : e + j \in 1 .. n /\ c(i)[j] = Result(h[i].calls[e + j].id)
    <3>1. e \in 0 .. n
        BY <1>d, <2>2
    <3>2. /\ n - e \in Nat /\ Len(c(i)) = n - e
          /\ \A j \in 1 .. n - e : e + j \in 1 .. n /\ c(i)[j] = Result(h[i].calls[e + j].id)
        BY <2>2, <3>1, RestFacts DEF c
    <3> HIDE DEF n, e
    <3> QED
        BY <2>2, <3>1, <3>2
  <2>5. /\ i + e <= l /\ (i + e < l => h[i + e + 1].role # "tool")
        /\ \A j \in 1 .. e : \E m \in 1 .. n : h[i + j] = Result(h[i].calls[m].id)
        /\ \A m \in 1 .. e : \E j \in 1 .. e : h[i + j] = Result(h[i].calls[m].id)
    <3>1. CASE Closed(h, i)
      <4>1. e = n
          BY <1>d, <2>2, <3>1
      <4>2. /\ i + n <= l /\ (i + n < l => h[i + n + 1].role # "tool")
            /\ \A j \in 1 .. n : \E m \in 1 .. n : h[i + j] = Result(h[i].calls[m].id)
            /\ \A m \in 1 .. n : \E j \in 1 .. n : h[i + j] = Result(h[i].calls[m].id)
          BY <3>1 DEF Closed, Extent, l
      <4> HIDE DEF n, e, u
      <4> QED
          BY <4>1, <4>2
    <3>2. CASE ~Closed(h, i)
      <4>1. Block(h, i, e)
          BY <1>d, <2>2, <3>2
      <4>2. /\ i + e <= l /\ (i + e < l => h[i + e + 1].role # "tool")
            /\ \A j \in 1 .. e : h[i + j] = Result(h[i].calls[j].id)
          BY <4>1 DEF Block, Extent, l
      <4>3. \A j \in 1 .. e : j \in 1 .. n
        <5> HIDE DEF n, e, u
        <5> QED
            BY <2>2, <2>4
      <4> HIDE DEF n, e, u
      <4> QED
          BY <4>2, <4>3
    <3> QED
        BY <3>1, <3>2
  <2> HIDE DEF n, e, u
  <2>6. b[i] = k + u /\ k \in Nat
    <3>1. b[i - 1] \in Nat /\ b[i] = b[i - 1] + 1 + u /\ u \in Nat /\ k = b[i - 1] + 1
        BY <2>1, <2>3, <2>4, Zenon
    <3> QED
        BY <3>1
  <2>7. ASSUME NEW j \in 1 .. e
        PROVE  /\ b[i + j] = b[i + (j - 1)] + 1
               /\ r[b[i + (j - 1)] + 1] = h[i + j]
    <3>1. i + j \in 1 .. l /\ (i + j) - 1 = i + (j - 1)
      <4>1. i + e <= l
          BY <2>5
      <4> QED
          BY <1>0, <2>2, <2>4, <4>1
    <3>2. PICK m \in 1 .. n : h[i + j] = Result(h[i].calls[m].id)
        BY <2>5
    <3>3. h[i + j].role = "tool" /\ h[i + j].calls = <<>> /\ Len(<<>>) = 0
        BY <3>2 DEF Result
    <3>4. Len(c(i + j)) = 0
      <4>1. d(i + j) = 0 /\ Len(c(i + j)) = Len(h[i + j].calls) - d(i + j)
          BY <1>1, <1>d, <3>1, <3>3
      <4> QED
          BY <3>3, <4>1
    <3>5. /\ b[(i + j) - 1] \in Nat /\ b[i + j] = b[(i + j) - 1] + 1 + Len(c(i + j))
          /\ r[b[(i + j) - 1] + 1] = h[i + j]
        BY <1>8, <3>1
    <3> QED
        BY <3>1, <3>4, <3>5
  <2>8. \A j \in 0 .. e : b[i + j] = k + u + j
    <3> DEFINE T == {j \in 0 .. e : b[i + j] = k + u + j}
    <3>1. 0 \in T
      <4>1. i + 0 = i /\ k + u + 0 = k + u
          BY <2>2, <2>4, <2>6
      <4> QED
          BY <2>4, <2>6, <4>1
    <3>2. ASSUME NEW j \in 0 .. e - 1, j \in T PROVE j + 1 \in T
      <4>1. j + 1 \in 1 .. e /\ (j + 1) - 1 = j /\ j + 1 \in 0 .. e
          BY <2>4
      <4>2. b[i + (j + 1)] = b[i + j] + 1
          BY <2>7, <4>1
      <4>3. b[i + j] = k + u + j
          BY <3>2
      <4>4. (k + u + j) + 1 = k + u + (j + 1)
          BY <2>4, <2>6
      <4> QED
          BY <4>1, <4>2, <4>3, <4>4
    <3>3. \A j \in 0 .. e : j \in T
      <4> HIDE DEF T
      <4> QED
          BY <2>4, <3>1, <3>2, Induction
    <3> QED
        BY <3>3
  <2>9. b[i + e] = k + n /\ i + e \in i .. l /\ i + e \in 0 .. l /\ k + n <= Len(r)
    <3>1. e \in 0 .. e /\ i + e <= l /\ l \in 0 .. l
        BY <1>0, <2>4, <2>5
    <3>2. b[i + e] = k + u + e
        BY <2>8, <3>1
    <3>3. k + u + e = k + n /\ i + e \in i .. l /\ i + e \in 0 .. l
      <4>1. \A w, x, y, z \in Nat : w + (x + y) = w + x + y /\ (z + y <= l => z + y \in z .. l /\ z + y \in 0 .. l)
          BY <1>0
      <4> QED
          BY <2>2, <2>4, <2>6, <3>1, <4>1
    <3>4. b[i + e] <= b[l]
        BY <1>8, <3>1, <3>3
    <3> QED
        BY <1>8, <3>2, <3>3, <3>4
  <2>10. k + n < Len(r) => r[k + n + 1].role # "tool"
      BY <2>next, <2>5, <2>9
  <2>11. ASSUME NEW j \in 1 .. u PROVE r[k + j] = Result(h[i].calls[e + j].id)
      BY <2>1, <2>3, <2>4
  <2>12. ASSUME NEW j \in 1 .. e PROVE r[k + (u + j)] = h[i + j]
    <3>1. j - 1 \in 0 .. e /\ (k + u + (j - 1)) + 1 = k + (u + j)
        BY <2>4, <2>6
    <3>2. b[i + (j - 1)] = k + u + (j - 1)
        BY <2>8, <3>1
    <3> QED
        BY <2>7, <3>1, <3>2
  <2>13. ASSUME NEW j \in 1 .. n PROVE \E m \in 1 .. n : r[k + j] = Result(r[k].calls[m].id)
    <3>1. CASE j <= u
      <4>1. j \in 1 .. u
          BY <2>2, <2>4, <3>1
      <4>2. e + j \in 1 .. n /\ r[k + j] = Result(h[i].calls[e + j].id)
          BY <2>4, <2>11, <4>1
      <4> QED
          BY <2>1, <4>2
    <3>2. CASE ~(j <= u)
      <4>1. j - u \in 1 .. e /\ u + (j - u) = j
          BY <2>2, <2>4, <3>2
      <4>2. r[k + j] = h[i + (j - u)]
          BY <2>12, <4>1
      <4>3. PICK m \in 1 .. n : h[i + (j - u)] = Result(h[i].calls[m].id)
          BY <2>5, <4>1
      <4> QED
          BY <2>1, <4>2, <4>3
    <3> QED
        BY <3>1, <3>2
  <2>14. ASSUME NEW m \in 1 .. n PROVE \E j \in 1 .. n : r[k + j] = Result(r[k].calls[m].id)
    <3>1. CASE m > e
      <4>1. m - e \in 1 .. u /\ e + (m - e) = m /\ m - e \in 1 .. n
          BY <2>2, <2>4, <3>1
      <4>2. r[k + (m - e)] = Result(h[i].calls[m].id)
          BY <2>11, <4>1
      <4> QED
          BY <2>1, <4>1, <4>2
    <3>2. CASE ~(m > e)
      <4>1. m \in 1 .. e
          BY <2>2, <2>4, <3>2
      <4>2. PICK j \in 1 .. e : h[i + j] = Result(h[i].calls[m].id)
          BY <2>5, <4>1
      <4>3. u + j \in 1 .. n
          BY <2>2, <2>4
      <4>4. r[k + (u + j)] = Result(h[i].calls[m].id)
          BY <2>12, <4>2
      <4> QED
          BY <2>1, <4>3, <4>4
    <3> QED
        BY <3>1, <3>2
  <2>15. Len(r[k].calls) = n
      BY <2>1 DEF n
  <2>16. Extent(r, k, n)
      BY <2>9, <2>10 DEF Extent
  <2> QED
      BY Zenon, <2>13, <2>14, <2>15, <2>16 DEF Closed
<1>14. Tidy(r)
    BY <1>13 DEF Tidy
<1> QED
    BY <1>6, <1>14 DEF r

\* A message without calls
LEMMA PlainFacts ==
    ASSUME NEW h, History(h), Settled(h), NEW B, Distinct(h, B), NEW role \in Roles \ {"tool"}
    PROVE  LET g == Append(h, Message(role)) IN
           /\ History(g) /\ Settled(g) /\ Distinct(g, B) /\ (Tidy(h) => Tidy(g))
           /\ Len(g) >= 2 /\ g[Len(g)].role # "tool"
<1> DEFINE m == Message(role)
           g == Append(h, m)
           l == Len(h)
<1>1. m \in Messages /\ m.role # "tool" /\ m.calls = <<>> /\ Len(m.calls) = 0
  <2>1. <<>> \in Seq(CallSet)
      OBVIOUS
  <2> QED
      BY <2>1 DEF Message, Messages
<1> HIDE DEF m
<1>2. /\ History(g) /\ Len(g) = l + 1 /\ g[l + 1] = m
      /\ \A i \in 1 .. l : g[i] = h[i]
      /\ Speech(g) = Speech(h) \cup {l + 1}
      /\ \A i \in Speech(h) : \A k \in Nat : Block(h, i, k) => Block(g, i, k)
      /\ \A i \in Speech(h) : Closed(h, i) => Closed(g, i)
      /\ Block(g, l + 1, 0)
    BY <1>1, AppendMessage
<1>3. l \in Nat /\ l >= 1
    BY MessageFacts
<1> HIDE DEF g, l
<1>4. Closed(g, l + 1)
  <2>1. Block(g, l + 1, Len(g[l + 1].calls))
      BY <1>1, <1>2
  <2> QED
      BY <2>1, BlockCloses
<1>5. Settled(g) /\ (Tidy(h) => Tidy(g))
    BY <1>2, <1>4 DEF Settled, Tidy
<1>6. Distinct(g, B)
  <2> DEFINE f == [i \in 1 .. Len(g) |-> i]
  <2>1. ASSUME NEW i \in 1 .. Len(g), g[i].calls # <<>>
        PROVE  f[i] \in 1 .. Len(h) /\ g[i].calls = h[f[i]].calls
    <3>1. i # l + 1
        BY <1>1, <1>2, <2>1
    <3>2. i \in 1 .. l /\ f[i] = i
        BY <1>2, <1>3, <3>1
    <3> QED
        BY <1>2, <3>2 DEF l
  <2>2. \A i, j \in 1 .. Len(g) : f[i] = f[j] => i = j
      OBVIOUS
  <2> HIDE DEF f
  <2> QED
      BY <2>1, <2>2, Renumbered
<1> QED
    BY <1>1, <1>2, <1>3, <1>5, <1>6 DEF g, m

\* A message with calls, and the pruning that follows it
LEMMA AskFacts ==
    ASSUME NEW h, History(h), Settled(h), NEW B, Distinct(h, B), NEW C, B \subseteq C,
           NEW calls \in Seq(CallSet), calls # <<>>,
           \A n \in 1 .. Len(calls) : calls[n].id \in C \ B,
           \A n, m \in 1 .. Len(calls) : calls[n].id = calls[m].id => n = m
    PROVE  LET g == pruneHistory(Append(h, Asks(calls))) IN
           /\ History(g) /\ Settled(g) /\ Distinct(g, C)
           /\ Tidy(h) => Open(g, calls)
<1> DEFINE m == Asks(calls)
           a == Append(h, m)
           g == pruneHistory(a)
           l == Len(h)
<1>1. m \in Messages /\ m.role # "tool" /\ m.calls = calls
    BY DEF Asks, Messages, Roles
<1> HIDE DEF m
<1>2. /\ History(a) /\ Len(a) = l + 1 /\ a[l + 1] = m
      /\ \A i \in 1 .. l : a[i] = h[i]
      /\ Speech(a) = Speech(h) \cup {l + 1}
      /\ \A i \in Speech(h) : \A k \in Nat : Block(h, i, k) => Block(a, i, k)
      /\ \A i \in Speech(h) : Closed(h, i) => Closed(a, i)
      /\ Block(a, l + 1, 0)
    BY <1>1, AppendMessage
<1>3. l \in Nat /\ l >= 1
    BY MessageFacts
<1> HIDE DEF a, l
<1>4. Settled(a)
    BY <1>2 DEF Settled
<1>5. Distinct(a, C)
  <2>0. ASSUME NEW i \in 1 .. Len(a) PROVE (i = l + 1 /\ a[i].calls = calls)
                                          \/ (i \in 1 .. l /\ a[i].calls = h[i].calls)
      BY <1>1, <1>2, <1>3
  <2>1. ASSUME NEW i \in 1 .. Len(a), NEW n \in 1 .. Len(a[i].calls)
        PROVE  /\ a[i].calls[n].id \in C
               /\ i \in 1 .. l => a[i].calls[n].id \in B
               /\ i = l + 1 => a[i].calls[n].id \notin B
    <3>1. CASE i = l + 1 /\ a[i].calls = calls
      <4>1. i \notin 1 .. l
          BY <1>3, <3>1
      <4> QED
          BY <3>1, <4>1
    <3>2. CASE i \in 1 .. l /\ a[i].calls = h[i].calls
      <4>1. i # l + 1
          BY <1>3, <3>2
      <4>2. a[i].calls[n].id \in B
          BY <3>2 DEF Distinct, l
      <4> QED
          BY <4>1, <4>2
    <3> QED
        BY <2>0, <3>1, <3>2
  <2>2. ASSUME NEW i \in 1 .. Len(a), NEW j \in 1 .. Len(a),
               NEW n \in 1 .. Len(a[i].calls), NEW k \in 1 .. Len(a[j].calls),
               a[i].calls[n].id = a[j].calls[k].id
        PROVE  i = j /\ n = k
    <3>1. CASE i = l + 1 /\ j = l + 1
      <4>1. a[i].calls = calls /\ a[j].calls = calls
          BY <1>1, <1>2, <3>1
      <4> QED
          BY <2>2, <3>1, <4>1
    <3>2. CASE i \in 1 .. l /\ j \in 1 .. l
      <4>1. a[i].calls = h[i].calls /\ a[j].calls = h[j].calls
          BY <1>2, <3>2
      <4>2. \A x, y \in 1 .. l : \A u \in 1 .. Len(h[x].calls), v \in 1 .. Len(h[y].calls) :
                h[x].calls[u].id = h[y].calls[v].id => x = y /\ u = v
          BY DEF Distinct, l
      <4>3. n \in 1 .. Len(h[i].calls) /\ k \in 1 .. Len(h[j].calls)
            /\ h[i].calls[n].id = h[j].calls[k].id
          BY <2>2, <4>1
      <4> QED
          BY <3>2, <4>2, <4>3
    <3>3. (i = l + 1 \/ i \in 1 .. l) /\ (j = l + 1 \/ j \in 1 .. l)
        BY <2>0
    <3> QED
        BY <2>1, <2>2, <3>1, <3>2, <3>3
  <2> QED
      BY <2>1, <2>2 DEF Distinct
<1>6. a[Len(a)].role # "tool" /\ Len(a) >= 2
    BY <1>1, <1>2, <1>3
<1>7. History(g) /\ Distinct(g, C) /\ Len(g) >= 2 /\ Settled(g)
    BY <1>2, <1>4, <1>5, <1>6, PruneSettled
<1>8. PICK d \in 0 .. Len(a) - 2 :
          /\ Len(g) = Len(a) - d /\ \A i \in 2 .. Len(g) : g[i] = a[i + d]
          /\ \A i \in Speech(g) \ {1} :
               /\ i + d \in Speech(a)
               /\ \A k \in Nat : Block(a, i + d, k) => Block(g, i, k)
               /\ Closed(a, i + d) => Closed(g, i)
          /\ d > 0 \/ Closed(a, 1) => Closed(g, 1)
    BY <1>2, <1>5, <1>6, PruneKeeps
<1> HIDE DEF g
<1>9. ASSUME Tidy(h) PROVE Open(g, calls)
  <2> DEFINE p == Len(g)
  <2>1. p \in Nat /\ p >= 2 /\ p \in 2 .. p /\ p + d = l + 1 /\ d \in Nat
    <3>1. p \in Nat
        BY <1>7, MessageFacts
    <3> QED
        BY <1>2, <1>3, <1>7, <1>8, <3>1
  <2>2. g[p] = m
      BY <1>2, <1>8, <2>1
  <2>3. p \in Speech(g)
      BY <1>1, <2>1, <2>2 DEF Speech
  <2>4. Block(g, p, 0)
    <3>1. p \in Speech(g) \ {1}
      <4>1. p # 1
        <5> HIDE DEF p
        <5> QED
            BY <2>1
      <4> QED
          BY <2>3, <4>1
    <3> QED
        BY <1>2, <1>8, <2>1, <3>1
  <2>5. ASSUME NEW i \in Speech(g), i # p PROVE Closed(g, i)
    <3>1. CASE i = 1
      <4>1. 1 \in Speech(h)
          BY MessageFacts
      <4>2. Closed(a, 1)
          BY <1>2, <1>9, <4>1 DEF Tidy
      <4> QED
          BY <1>8, <3>1, <4>2
    <3>2. CASE i # 1
      <4>1. i + d \in Speech(a) /\ (Closed(a, i + d) => Closed(g, i))
          BY <1>8, <3>2
      <4>2. i \in 2 .. p /\ i + d # l + 1
          BY <2>1, <2>5, <3>2 DEF Speech
      <4>3. i + d \in Speech(h)
          BY <1>2, <4>1, <4>2
      <4>4. Closed(a, i + d)
          BY <1>2, <1>9, <4>3 DEF Tidy
      <4> QED
          BY <4>1, <4>4
    <3> QED
        BY <3>1, <3>2
  <2>6. /\ Len(calls) \in Nat /\ Len(calls) > 0
        /\ SubSeq(calls, 1, Len(calls)) = calls
    <3>1. Len(calls) \in Nat /\ Len(calls) > 0
        OBVIOUS
    <3>2. SubSeq(calls, 1, Len(calls)) = calls
        OBVIOUS
    <3> QED
        BY <3>1, <3>2
  <2>7. OpenAt(g, calls, p, 0)
    <3>1. p + 0 = Len(g) /\ 0 + 1 = 1
        BY <2>1
    <3>2. g[p].calls = calls
        BY <1>1, <2>2
    <3> QED
        BY <2>4, <2>5, <2>6, <3>1, <3>2 DEF OpenAt
  <2> QED
      BY <2>3, <2>7 DEF Open
<1> QED
    BY <1>7, <1>9 DEF g, a, m

\* A message that waits for results has the first few
LEMMA OpenIsSettled ==
    ASSUME NEW h, NEW calls, Open(h, calls)
    PROVE  Settled(h)
BY DEF Open, OpenAt, Settled

\* The result of the next call
LEMMA OpenStep ==
    ASSUME NEW h, History(h), NEW B, Distinct(h, B), NEW calls, Open(h, calls)
    PROVE  LET g == Append(h, Result(Head(calls).id)) IN
           /\ calls \in Seq(CallSet) /\ calls # <<>>
           /\ History(g) /\ Distinct(g, B)
           /\ Len(calls) = 1 => Tidy(g)
           /\ Len(calls) # 1 => Open(g, Tail(calls))
<1>1. PICK p \in Speech(h) : \E k \in Nat : OpenAt(h, calls, p, k)
    BY DEF Open
<1>2. PICK k \in Nat : OpenAt(h, calls, p, k)
    BY <1>1
<1> DEFINE l == Len(h)
           all == h[p].calls
           e == Len(all)
           x == Result(Head(calls).id)
           g == Append(h, x)
<1>3. /\ l \in Nat /\ l >= 1 /\ p \in 1 .. l /\ p \in Nat /\ h[p].role # "tool" /\ h \in Seq(Messages)
      /\ h[p] \in Messages /\ all \in Seq(CallSet) /\ e \in Nat
      /\ \A n \in 1 .. e : all[n].id \in CallIds
    BY MessageFacts DEF Speech, History
<1>4. /\ Block(h, p, k) /\ p + k = l /\ k < e
      /\ calls = SubSeq(all, k + 1, e)
      /\ \A i \in Speech(h) : i # p => Closed(h, i)
    BY <1>2 DEF OpenAt
<1>5. /\ calls \in Seq(CallSet) /\ Len(calls) = e - k /\ calls # <<>> /\ Head(calls) = all[k + 1]
      /\ \A j \in 1 .. e - k : calls[j] = all[k + j]
  <2>1. ASSUME NEW s \in Seq(CallSet), NEW m \in 1 .. Len(s) + 1
        PROVE  /\ SubSeq(s, m, Len(s)) \in Seq(CallSet)
               /\ Len(SubSeq(s, m, Len(s))) = Len(s) - m + 1
               /\ \A j \in 1 .. Len(s) - m + 1 : SubSeq(s, m, Len(s))[j] = s[m + j - 1]
      OBVIOUS
  <2>2. k + 1 \in 1 .. e + 1 /\ e - (k + 1) + 1 = e - k /\ (k + 1) + 1 - 1 = k + 1 /\ 1 \in 1 .. e - k
        /\ \A j \in 1 .. e - k : (k + 1) + j - 1 = k + j
    <3>1. \A a, b \in Nat : a < b =>
              /\ a + 1 \in 1 .. b + 1 /\ b - (a + 1) + 1 = b - a /\ (a + 1) + 1 - 1 = a + 1
              /\ 1 \in 1 .. b - a /\ \A j \in 1 .. b - a : (a + 1) + j - 1 = a + j
        OBVIOUS
    <3> HIDE DEF e
    <3> QED
        BY <1>3, <1>4, <3>1
  <2>3. /\ calls \in Seq(CallSet) /\ Len(calls) = e - (k + 1) + 1
        /\ \A j \in 1 .. e - (k + 1) + 1 : calls[j] = all[(k + 1) + j - 1]
      BY <1>3, <1>4, <2>1, <2>2
  <2>4. Len(calls) = e - k /\ Len(calls) >= 1 /\ \A j \in 1 .. e - k : calls[j] = all[k + j]
    <3> HIDE DEF e, all
    <3>1. Len(calls) = e - k /\ Len(calls) >= 1
        BY <1>3, <1>4, <2>2, <2>3
    <3>2. ASSUME NEW j \in 1 .. e - k PROVE calls[j] = all[k + j]
      <4>1. j \in 1 .. e - (k + 1) + 1 /\ (k + 1) + j - 1 = k + j
          BY <2>2
      <4> QED
          BY <2>3, <4>1
    <3> QED
        BY <3>1, <3>2
  <2>5. calls # <<>> /\ Head(calls) = calls[1]
    <3> HIDE DEF e, all
    <3> QED
        BY <2>3, <2>4
  <2> QED
      BY <2>2, <2>3, <2>4, <2>5
<1>6. x \in Messages /\ x.role = "tool" /\ x.calls = <<>> /\ x = Result(all[k + 1].id)
  <2>1. k + 1 \in 1 .. e
      BY <1>3, <1>4
  <2> QED
    <3>1. all[k + 1].id \in CallIds
        BY <1>3, <2>1
    <3>2. Head(calls).id = all[k + 1].id
        BY <1>5
    <3>3. <<>> \in Seq(CallSet)
        OBVIOUS
    <3> HIDE DEF all
    <3> QED
        BY <3>1, <3>2, <3>3 DEF Result, Messages, Roles
<1> HIDE DEF x
<1>7. /\ g \in Seq(Messages) /\ Len(g) = l + 1 /\ g[l + 1] = x /\ g # <<>>
      /\ \A i \in 1 .. l : g[i] = h[i]
    BY <1>3, <1>6
<1> HIDE DEF g, l, e, all
<1>8. History(g)
  <2>1. g[1] = Message("system")
      BY <1>3, <1>7 DEF History
  <2>2. ASSUME NEW i \in 1 .. Len(g), g[i].role = "tool" PROVE g[i].calls = <<>>
    <3>1. i = l + 1 \/ i \in 1 .. l
        BY <1>3, <1>7
    <3> QED
        BY <1>6, <1>7, <2>2, <3>1 DEF History, l
  <2> QED
      BY <1>7, <2>1, <2>2 DEF History
<1>9. Distinct(g, B)
  <2> DEFINE f == [i \in 1 .. Len(g) |-> i]
  <2>1. ASSUME NEW i \in 1 .. Len(g), g[i].calls # <<>>
        PROVE  f[i] \in 1 .. Len(h) /\ g[i].calls = h[f[i]].calls
    <3>1. i # l + 1
        BY <1>6, <1>7, <2>1
    <3>2. i \in 1 .. l /\ f[i] = i
        BY <1>3, <1>7, <3>1
    <3> QED
        BY <1>7, <3>2 DEF l
  <2>2. \A i, j \in 1 .. Len(g) : f[i] = f[j] => i = j
      OBVIOUS
  <2> HIDE DEF f
  <2> QED
      BY <2>1, <2>2, Renumbered
<1>10. Speech(g) = Speech(h)
  <2>1. 1 .. Len(g) = 1 .. l \cup {l + 1}
      BY <1>3, <1>7
  <2> QED
      BY <1>6, <1>7, <2>1 DEF Speech, l
<1>11. ASSUME NEW i \in Speech(h), i # p PROVE Closed(g, i)
  <2> DEFINE n == Len(h[i].calls)
  <2>1. i \in 1 .. l /\ g[i] = h[i] /\ n \in Nat /\ i \in Nat /\ h[i].role # "tool"
    <3>1. i \in 1 .. l /\ h[i].role # "tool"
        BY DEF Speech, l
    <3>2. n \in Nat /\ i \in Nat
        BY <3>1, MessageFacts DEF l
    <3>3. g[i] = h[i]
        BY <1>7, <3>1
    <3> QED
        BY <3>1, <3>2, <3>3
  <2>2. /\ i + n <= l
        /\ \A j \in 1 .. n : \E m \in 1 .. n : h[i + j] = Result(h[i].calls[m].id)
        /\ i + n < l => h[i + n + 1].role # "tool"
        /\ Closed(h, i)
      BY <1>4, <1>11 DEF Closed, Extent, l
  <2> HIDE DEF n
  <2>3. i + n < l
    <3> SUFFICES ASSUME i + n = l PROVE FALSE
        BY <1>3, <2>1, <2>2
    <3>1. CASE p < i
      <4>0. \A a, b, c, d \in Nat : a < b /\ b <= d /\ a + c = d => b - a \in 1 .. c /\ a + (b - a) = b
          OBVIOUS
      <4>1. i - p \in 1 .. k /\ p + (i - p) = i
        <5>1. i <= l
            BY <1>3, <2>1
        <5> QED
            BY <1>3, <1>4, <2>1, <3>1, <4>0, <5>1
      <4>2. h[p + (i - p)] = Result(h[p].calls[i - p].id)
          BY <1>4, <4>1 DEF Block
      <4> QED
          BY <2>1, <4>1, <4>2 DEF Result
    <3>2. CASE i < p
      <4>1. p - i \in 1 .. n /\ i + (p - i) = p
          BY <1>3, <2>1, <3>2
      <4>2. \E m \in 1 .. n : h[i + (p - i)] = Result(h[i].calls[m].id)
          BY <2>2, <4>1
      <4> QED
          BY <1>3, <4>1, <4>2 DEF Result
    <3> QED
        BY <1>3, <1>11, <2>1, <3>1, <3>2
  <2>4. i + n <= Len(g) /\ i + n + 1 \in 1 .. l /\ \A j \in 1 .. n : i + j \in 1 .. l
      BY SMTT(30), <1>3, <1>7, <2>1, <2>3
  <2>5. g[i + n + 1].role # "tool"
      BY <1>7, <2>2, <2>3, <2>4
  <2>6. Extent(g, i, n) /\ \A j \in 1 .. n : g[i + j] = h[i + j]
      BY <1>7, <2>4, <2>5 DEF Extent
  <2> QED
      BY <2>1, <2>2, <2>6, Stretch DEF n
<1>12. Block(g, p, k + 1) /\ p + (k + 1) = Len(g) /\ g[p] = h[p]
  <2>1. g[p] = h[p] /\ p + (k + 1) = Len(g) /\ Len(g) \in Nat
      BY <1>3, <1>4, <1>7
  <2>2. k + 1 <= Len(g[p].calls)
      BY <1>3, <1>4, <2>1 DEF e, all
  <2>3. ASSUME NEW j \in 1 .. k + 1 PROVE g[p + j] = Result(g[p].calls[j].id)
    <3>1. CASE j = k + 1
      <4>1. p + j = l + 1
          BY <1>3, <1>4, <3>1
      <4> QED
          BY <1>6, <1>7, <2>1, <3>1, <4>1 DEF all
    <3>2. CASE j # k + 1
      <4>1. j \in 1 .. k /\ p + j \in 1 .. l
          BY <1>3, <1>4, <3>2
      <4>2. h[p + j] = Result(h[p].calls[j].id)
          BY <1>4, <4>1 DEF Block
      <4> QED
          BY <1>7, <2>1, <4>1, <4>2
    <3> QED
        BY <3>1, <3>2
  <2>4. Block(g, p, k + 1)
      BY <2>1, <2>2, <2>3 DEF Block, Extent
  <2> QED
      BY <2>1, <2>4
<1>13. ASSUME Len(calls) = 1 PROVE Tidy(g)
  <2>1. k + 1 = e
      BY <1>3, <1>4, <1>5, <1>13
  <2>2. Closed(g, p)
      BY <1>12, <2>1, BlockCloses DEF e, all
  <2> QED
      BY <1>10, <1>11, <2>2 DEF Tidy
<1>14. ASSUME Len(calls) # 1 PROVE Open(g, Tail(calls))
  <2>1. k + 1 < e /\ k + 1 \in Nat /\ Len(calls) >= 2
      BY <1>3, <1>4, <1>5, <1>14
  <2>2. Tail(calls) = SubSeq(all, (k + 1) + 1, e)
    <3> DEFINE a == Tail(calls)
               b == SubSeq(all, (k + 1) + 1, e)
    <3>1. /\ a \in Seq(CallSet) /\ Len(a) = Len(calls) - 1
          /\ \A j \in 1 .. Len(calls) - 1 : a[j] = calls[j + 1]
        BY <1>5
    <3>2. ASSUME NEW s \in Seq(CallSet), NEW m \in 1 .. Len(s) + 1
          PROVE  /\ SubSeq(s, m, Len(s)) \in Seq(CallSet)
                 /\ Len(SubSeq(s, m, Len(s))) = Len(s) - m + 1
                 /\ \A j \in 1 .. Len(s) - m + 1 : SubSeq(s, m, Len(s))[j] = s[m + j - 1]
        OBVIOUS
    <3>3. (k + 1) + 1 \in 1 .. e + 1 /\ e - ((k + 1) + 1) + 1 = e - k - 1
        BY <1>3, <2>1
    <3>4. /\ b \in Seq(CallSet) /\ Len(b) = e - k - 1
          /\ \A j \in 1 .. e - k - 1 : b[j] = all[((k + 1) + 1) + j - 1]
      <4>1. all \in Seq(CallSet) /\ e = Len(all)
          BY <1>3 DEF e
      <4> QED
          BY <3>2, <3>3, <4>1
    <3> HIDE DEF a, b
    <3>5. Len(a) = e - k - 1 /\ Len(b) = e - k - 1
        BY <1>3, <1>5, <3>1, <3>4
    <3>6. ASSUME NEW j \in 1 .. Len(a) PROVE a[j] = b[j]
      <4>1. /\ j \in 1 .. e - k - 1 /\ j + 1 \in 1 .. e - k /\ j \in 1 .. Len(calls) - 1
            /\ k + (j + 1) = ((k + 1) + 1) + j - 1
          BY <1>3, <1>5, <3>5
      <4>2. a[j] = calls[j + 1]
          BY <3>1, <4>1
      <4>3. calls[j + 1] = all[k + (j + 1)]
          BY <1>5, <4>1
      <4>4. b[j] = all[((k + 1) + 1) + j - 1]
          BY <3>4, <4>1
      <4> QED
          BY <4>1, <4>2, <4>3, <4>4
    <3>7. a = b
        BY <3>1, <3>4, <3>5, <3>6, SeqEqual
    <3> QED
        BY <3>7 DEF a, b
  <2>3. OpenAt(g, Tail(calls), p, k + 1)
      BY <1>10, <1>11, <1>12, <2>1, <2>2 DEF OpenAt, e, all
  <2> QED
      BY <1>10, <2>1, <2>3 DEF Open
<1> QED
    BY <1>5, <1>8, <1>9, <1>13, <1>14 DEF g, x

---------------------------------------------------------------------------
(* The requests of the OpenAI client *)

\* The variables of the turns
TurnInv ==
    /\ provider \in Providers /\ handler \in BOOLEAN /\ late \in BOOLEAN
    /\ at \in [Turns -> Places]
    /\ round \in [Turns -> 0 .. MaxRounds]
    /\ todo \in [Turns -> Seq(CallSet)]
    /\ repeated \in [Turns -> BOOLEAN] /\ budget \in [Turns -> BOOLEAN]
    /\ \A t \in Turns : (at[t] = "tools") = (todo[t] # <<>>)

\* The calls of a completion, whose ids say which one it was
LEMMA CallsFacts ==
    ASSUME TurnInv, NEW t \in Turns, NEW sigs \in CallLists
    PROVE  LET calls == Calls(t, sigs)
               c == IF at[t] = "forceStream" THEN round[t] + 1 ELSE round[t] IN
           /\ c \in Nat
           /\ calls \in Seq(CallSet) /\ calls # <<>>
           /\ \A n \in 1 .. Len(calls) : n \in Nat /\ calls[n].id = <<t, c, n>>
<1> DEFINE calls == Calls(t, sigs)
           c == IF at[t] = "forceStream" THEN round[t] + 1 ELSE round[t]
           l == Len(sigs)
<1>1. c \in Nat
  <2>1. round[t] \in 0 .. MaxRounds
      BY DEF TurnInv
  <2> QED
      BY <2>1, ChatAssumption
<1> HIDE DEF c
<1>2. sigs \in Seq(STRING) /\ l \in Nat /\ l >= 1 /\ DOMAIN sigs = 1 .. l
      /\ \A n \in 1 .. l : sigs[n] \in STRING
  <2>1. sigs \in Seq(STRING) /\ sigs # <<>>
      BY ChatAssumption
  <2> QED
      BY <2>1
<1> HIDE DEF l
<1>3. calls = [n \in 1 .. l |-> [id |-> <<t, c, n>>, sig |-> sigs[n]]]
    BY <1>2 DEF Calls, c
<1> HIDE DEF calls
<1>4. \A n \in 1 .. l : calls[n] \in CallSet /\ calls[n].id = <<t, c, n>> /\ n \in Nat
  <2>1. ASSUME NEW n \in 1 .. l PROVE calls[n] \in CallSet /\ calls[n].id = <<t, c, n>> /\ n \in Nat
    <3>1. n \in Nat /\ calls[n] = [id |-> <<t, c, n>>, sig |-> sigs[n]]
        BY <1>2, <1>3
    <3> QED
        BY <1>1, <1>2, <3>1 DEF CallSet, CallIds
  <2> QED
      BY <2>1
<1>5. calls \in Seq(CallSet) /\ Len(calls) = l
  <2>1. calls \in [1 .. l -> CallSet]
      BY <1>3, <1>4
  <2> QED
      BY <1>2, <2>1
<1>6. calls # <<>>
    BY <1>2, <1>5
<1> QED
    BY <1>1, <1>4, <1>5, <1>6 DEF calls, c

\* The round a turn is in once its calls are answered
LEMMA NextRound ==
    ASSUME NEW r \in 0 .. MaxRounds
    PROVE  /\ Min({r + 1, MaxRounds}) \in 0 .. MaxRounds
           /\ r < MaxRounds => Min({r + 1, MaxRounds}) = r + 1
<1> DEFINE I == {r + 1, MaxRounds}
<1>1. MaxRounds \in Nat /\ r \in Nat /\ r <= MaxRounds
    BY ChatAssumption
<1>2. I \in SUBSET (0 .. MaxRounds + 1) /\ I # {} /\ MaxRounds + 1 \in Nat
    BY <1>1
<1>3. Min(I) \in I /\ \A j \in I : Min(I) <= j
  <2> HIDE DEF I
  <2> QED
      BY <1>2, MinFacts
<1>4. (Min(I) = r + 1 \/ Min(I) = MaxRounds) /\ Min(I) <= MaxRounds /\ Min(I) <= r + 1
    BY <1>3
<1> QED
    BY <1>1, <1>4

\* Every step keeps the turns as they should be
LEMMA TurnsInductive == TurnInv /\ [Next]_vars => TurnInv'
<1> SUFFICES ASSUME TurnInv, [Next]_vars PROVE TurnInv'
    OBVIOUS
<1> DEFINE Typed(t) == /\ at'[t] \in Places /\ round'[t] \in 0 .. MaxRounds /\ todo'[t] \in Seq(CallSet)
                       /\ repeated'[t] \in BOOLEAN /\ budget'[t] \in BOOLEAN
                       /\ (at'[t] = "tools") = (todo'[t] # <<>>)
           Only(t) == /\ at' = [at EXCEPT ![t] = at'[t]] /\ round' = [round EXCEPT ![t] = round'[t]]
                      /\ todo' = [todo EXCEPT ![t] = todo'[t]]
                      /\ repeated' = [repeated EXCEPT ![t] = repeated'[t]]
                      /\ budget' = [budget EXCEPT ![t] = budget'[t]]
<1>0. ChatAssumption
    BY ChatAssumption
<1>t. ASSUME NEW t \in Turns
      PROVE  /\ at[t] \in Places /\ round[t] \in 0 .. MaxRounds /\ todo[t] \in Seq(CallSet)
             /\ repeated[t] \in BOOLEAN /\ budget[t] \in BOOLEAN
             /\ (at[t] = "tools") = (todo[t] # <<>>)
    BY DEF TurnInv
<1>1. CASE UNCHANGED vars
    BY <1>1 DEF vars, setup, turnVars, TurnInv
<1>l. ASSUME NEW t \in Turns, writes(t) PROVE late' \in BOOLEAN
    BY <1>l DEF writes, Superseded, TurnInv
<1>2. ASSUME NEW t \in Turns, Typed(t), Only(t), UNCHANGED setup, late' \in BOOLEAN PROVE TurnInv'
    BY ZenonT(40), <1>2 DEF TurnInv, setup
<1> HIDE DEF Typed, Only
<1>3. ASSUME NEW t \in Turns, UNCHANGED <<setup, turnVars, late>> PROVE TurnInv'
    BY <1>3 DEF setup, turnVars, TurnInv
<1>u. ASSUME UNCHANGED late PROVE late' \in BOOLEAN
    BY <1>u DEF TurnInv
<1>4. ASSUME NEW t \in Turns, returns(t) PROVE Typed(t) /\ Only(t)
  <2>1. 0 \in 0 .. MaxRounds /\ <<>> \in Seq(CallSet)
      BY ChatAssumption
  <2>2. at \in [Turns -> Places] /\ round \in [Turns -> 0 .. MaxRounds] /\ todo \in [Turns -> Seq(CallSet)]
        /\ repeated \in [Turns -> BOOLEAN] /\ budget \in [Turns -> BOOLEAN]
      BY DEF TurnInv
  <2> QED
      BY <1>4, <2>1, <2>2 DEF returns, Typed, Only, Places
<1>5. ASSUME NEW t \in Turns, NEW sigs \in CallLists, beginCalls(t, sigs) PROVE Typed(t) /\ Only(t)
  <2>1. Calls(t, sigs) \in Seq(CallSet) /\ Calls(t, sigs) # <<>>
      BY CallsFacts
  <2>2. at \in [Turns -> Places] /\ round \in [Turns -> 0 .. MaxRounds] /\ todo \in [Turns -> Seq(CallSet)]
        /\ repeated \in [Turns -> BOOLEAN] /\ budget \in [Turns -> BOOLEAN]
      BY DEF TurnInv
  <2> QED
      BY <1>t, <1>5, <2>1, <2>2 DEF beginCalls, Typed, Only, Places
<1>6. ASSUME NEW t \in Turns, NEW whenAll \in Places \ {"tools"}, afterCall(t, whenAll), at[t] = "tools",
             NEW rep \in BOOLEAN, repeated' = [repeated EXCEPT ![t] = rep], budget' = budget
      PROVE  Typed(t) /\ Only(t)
  <2>1. at \in [Turns -> Places] /\ round \in [Turns -> 0 .. MaxRounds] /\ todo \in [Turns -> Seq(CallSet)]
        /\ repeated \in [Turns -> BOOLEAN] /\ budget \in [Turns -> BOOLEAN]
      BY DEF TurnInv
  <2>2. todo[t] \in Seq(CallSet) /\ todo[t] # <<>> /\ round[t] \in 0 .. MaxRounds
      BY <1>t, <1>6
  <2>3. /\ Tail(todo[t]) \in Seq(CallSet)
        /\ (Len(todo[t]) = 1) = (Tail(todo[t]) = <<>>)
    <3>1. ASSUME NEW q \in Seq(CallSet), q # <<>>
          PROVE  Tail(q) \in Seq(CallSet) /\ Len(Tail(q)) = Len(q) - 1 /\ Len(q) \in Nat
        BY <3>1, HeadTailProperties
    <3>2. ASSUME NEW q \in Seq(CallSet) PROVE (q = <<>>) <=> (Len(q) = 0)
        OBVIOUS
    <3>3. Tail(todo[t]) \in Seq(CallSet) /\ Len(Tail(todo[t])) = Len(todo[t]) - 1 /\ Len(todo[t]) \in Nat
        BY <2>2, <3>1
    <3>4. (Tail(todo[t]) = <<>>) <=> (Len(Tail(todo[t])) = 0)
        BY <3>2, <3>3
    <3>5. (Len(todo[t]) = 1) <=> (Tail(todo[t]) = <<>>)
        BY <3>3, <3>4
    <3> QED
        BY <3>3, <3>5
  <2>4. Min({round[t] + 1, MaxRounds}) \in 0 .. MaxRounds
      BY <2>2, NextRound
  <2>5. /\ at' = [at EXCEPT ![t] = IF Len(todo[t]) = 1 THEN whenAll ELSE "tools"]
        /\ todo' = [todo EXCEPT ![t] = Tail(todo[t])]
        /\ round' = [round EXCEPT ![t] = IF Len(todo[t]) = 1 THEN Min({round[t] + 1, MaxRounds}) ELSE round[t]]
      BY <1>6, <2>1 DEF afterCall
  <2>6. /\ at'[t] = (IF Len(todo[t]) = 1 THEN whenAll ELSE "tools")
        /\ todo'[t] = Tail(todo[t])
        /\ round'[t] = (IF Len(todo[t]) = 1 THEN Min({round[t] + 1, MaxRounds}) ELSE round[t])
        /\ repeated'[t] = rep /\ budget'[t] = budget[t]
      BY <1>6, <2>1, <2>5
  <2>7. Only(t)
      BY <1>6, <2>1, <2>5 DEF Only
  <2>8. Typed(t)
    <3>1. "tools" \in Places
        BY DEF Places
    <3> QED
        BY <1>t, <1>6, <2>2, <2>3, <2>4, <2>6, <3>1 DEF Typed
  <2> QED
      BY <2>7, <2>8
<1>7. ASSUME NEW t \in Turns, NEW a \in Places \ {"tools"}, at[t] # "tools", at' = [at EXCEPT ![t] = a],
             UNCHANGED <<round, todo, repeated>>, NEW b \in BOOLEAN, budget' = [budget EXCEPT ![t] = b]
      PROVE  Typed(t) /\ Only(t)
    BY <1>t, <1>7 DEF TurnInv, Typed, Only
<1>8. ASSUME NEW t \in Turns, NEW a \in Places \ {"tools"}, at[t] # "tools", at' = [at EXCEPT ![t] = a],
             UNCHANGED <<round, todo, repeated, budget>>
      PROVE  Typed(t) /\ Only(t)
    BY <1>t, <1>8 DEF TurnInv, Typed, Only
<1>9. ASSUME NEW t \in Turns, startChat(t) PROVE TurnInv'
    BY <1>2, <1>8, <1>u, <1>9 DEF startChat, Places
<1>10. ASSUME NEW t \in Turns, emitChunk(t) PROVE TurnInv'
    BY <1>3, <1>10 DEF emitChunk
<1>11. ASSUME NEW t \in Turns, sendRequest(t) PROVE TurnInv'
  <2>1. PICK a \in {"stream", "forceStream"} : at' = [at EXCEPT ![t] = a]
      BY <1>11 DEF sendRequest
  <2> QED
      BY <1>2, <1>8, <1>u, <1>11, <2>1 DEF sendRequest, Places
<1>12. ASSUME NEW t \in Turns, answerText(t) \/ streamFails(t) PROVE TurnInv'
    BY <1>2, <1>4, <1>l, <1>u, <1>12 DEF answerText, streamFails
<1>13. ASSUME NEW t \in Turns, openaiCalls(t) PROVE TurnInv'
    BY <1>2, <1>4, <1>5, <1>7, <1>l, <1>13 DEF openaiCalls, Streaming, Places
<1>14. ASSUME NEW t \in Turns, ollamaCalls(t) PROVE TurnInv'
    BY <1>2, <1>4, <1>5, <1>l, <1>14 DEF ollamaCalls
<1>force. ASSUME NEW t \in Turns, forceTextResponse(t) PROVE TurnInv'
    BY <1>2, <1>8, <1>l, <1>force DEF forceTextResponse, Places
<1>15. ASSUME NEW t \in Turns, openaiRunCall(t) PROVE TurnInv'
  <2> DEFINE all == repeated[t] /\ Head(todo[t]).sig \in seen[t]
  <2>1. PICK w \in Places \ {"tools"}, rep \in BOOLEAN :
            afterCall(t, w) /\ repeated' = [repeated EXCEPT ![t] = rep]
    <3>1. /\ afterCall(t, IF all THEN "force" ELSE "ask")
          /\ repeated' = [repeated EXCEPT ![t] = all]
        BY <1>15 DEF openaiRunCall
    <3>2. all \in BOOLEAN /\ (IF all THEN "force" ELSE "ask") \in Places \ {"tools"}
        BY DEF Places
    <3> HIDE DEF all
    <3> QED
        BY <3>1, <3>2
  <2> QED
      BY <1>2, <1>6, <1>l, <1>15, <2>1 DEF openaiRunCall
<1>16. ASSUME NEW t \in Turns, ollamaRunCall(t) PROVE TurnInv'
  <2>1. repeated' = [repeated EXCEPT ![t] = repeated[t]] /\ repeated[t] \in BOOLEAN
      BY <1>16 DEF ollamaRunCall, TurnInv
  <2> QED
      BY <1>2, <1>6, <1>l, <1>16, <2>1 DEF ollamaRunCall, Places
<1>17. CASE Next
    BY <1>9, <1>10, <1>11, <1>12, <1>13, <1>14, <1>15, <1>16, <1>17, <1>force
       DEF Next, chatStep, openaiChunk, ollamaChunk, agentChunk
<1> QED
    BY <1>1, <1>17

\* The completions of a turn that have numbered calls: the earlier rounds' and,
\* once they are recorded, this round's
Numbered(a, r, c) ==
    /\ a # "idle"
    /\ a \in {"ask", "stream"} => c < r
    /\ a \in {"tools", "force", "forceAsk", "forceStream"} => c <= r
Used == {id \in CallIds : Numbered(at[id[1]], round[id[1]], id[2])}

\* What a turn that is at a needs the history to be
Needs(h, a, r, b, calls) ==
    /\ a = "tools" => Open(h, calls) /\ r < MaxRounds
    /\ a \in {"ask", "stream"} \/ (a \in {"force", "forceAsk", "forceStream"} /\ ~b) => Tidy(h)

\* Until a superseded turn writes to it, every message of the history has all
\* its results or the first few, wherever the turns were cancelled, and the turn
\* that is not superseded finds it as it needs it
HistoryInv ==
    /\ History(history)
    /\ \A t, u \in Turns : u < t /\ at[t] # "idle" => at[u] # "idle"
    /\ provider = "openai" /\ ~late =>
        /\ Distinct(history, Used)
        /\ Settled(history)
        /\ \A t \in Turns : ~Superseded(t) => Needs(history, at[t], round[t], budget[t], todo[t])

\* Ids that differ, in a larger set of ids
LEMMA DistinctMore ==
    ASSUME NEW h, NEW B, NEW C, Distinct(h, B), B \subseteq C
    PROVE  Distinct(h, C)
<1>1. \A i \in 1 .. Len(h) : \A n \in 1 .. Len(h[i].calls) : h[i].calls[n].id \in C
    BY DEF Distinct
<1> QED
    BY <1>1 DEF Distinct

\* One message more keeps the shape of a history, whichever the client
LEMMA HistoryAppend ==
    ASSUME NEW h, History(h), NEW m \in Messages, m.role = "tool" => m.calls = <<>>
    PROVE  History(Append(h, m))
<1> DEFINE g == Append(h, m)
           l == Len(h)
<1>1. h \in Seq(Messages) /\ l \in Nat /\ l >= 1
    BY MessageFacts DEF History
<1>2. /\ g \in Seq(Messages) /\ Len(g) = l + 1 /\ g[l + 1] = m /\ g # <<>>
      /\ \A i \in 1 .. l : g[i] = h[i]
    BY <1>1
<1> HIDE DEF g, l
<1>3. g[1] = Message("system")
    BY <1>1, <1>2 DEF History
<1>4. ASSUME NEW i \in 1 .. Len(g), g[i].role = "tool" PROVE g[i].calls = <<>>
  <2>1. i = l + 1 \/ i \in 1 .. l
      BY <1>1, <1>2
  <2> QED
      BY <1>2, <1>4, <2>1 DEF History, l
<1> QED
    BY <1>2, <1>3, <1>4 DEF History, g

\* The cut of Ollama's client keeps the system prompt first
LEMMA OllamaPruneFacts ==
    ASSUME NEW h, History(h)
    PROVE  History(ollamaPrune(h))
<1> DEFINE w == HistoryWindow
           l == Len(h)
           s == SubSeq(h, l - w + 1, l)
           g == <<h[1]>> \o s
<1>1. CASE Len(h) <= HistoryWindow + 1
    BY <1>1 DEF ollamaPrune
<1>2. CASE ~(Len(h) <= HistoryWindow + 1)
  <2>1. h \in Seq(Messages) /\ l \in Nat /\ l >= 1 /\ w \in Nat /\ w >= 1 /\ l > w + 1 /\ h[1] \in Messages
      BY <1>2, MessageFacts, ChatAssumption DEF History
  <2>2. /\ s \in Seq(Messages) /\ Len(s) = w
        /\ \A i \in 1 .. w : s[i] = h[l - w + i]
    <3>1. l - w + 1 \in 1 .. l + 1 /\ l - (l - w + 1) + 1 = w
        BY <2>1
    <3>2. ASSUME NEW q \in Seq(Messages), NEW m \in 1 .. Len(q) + 1
          PROVE  /\ SubSeq(q, m, Len(q)) \in Seq(Messages)
                 /\ Len(SubSeq(q, m, Len(q))) = Len(q) - m + 1
                 /\ \A j \in 1 .. Len(q) - m + 1 : SubSeq(q, m, Len(q))[j] = q[m + j - 1]
        OBVIOUS
    <3>3. /\ s \in Seq(Messages) /\ Len(s) = w
          /\ \A j \in 1 .. w : s[j] = h[(l - w + 1) + j - 1]
        BY <2>1, <3>1, <3>2
    <3>4. \A j \in 1 .. w : (l - w + 1) + j - 1 = l - w + j
        BY <2>1
    <3> HIDE DEF s
    <3> QED
        BY <3>3, <3>4
  <2> HIDE DEF s
  <2>3. /\ g \in Seq(Messages) /\ Len(g) = w + 1 /\ g[1] = h[1]
        /\ \A i \in 2 .. w + 1 : g[i] = s[i - 1]
      BY <2>1, <2>2
  <2>4. ASSUME NEW i \in 1 .. Len(g), g[i].role = "tool" PROVE g[i].calls = <<>>
    <3>1. CASE i = 1
        BY <2>1, <2>3, <2>4, <3>1 DEF History
    <3>2. CASE i # 1
      <4>1. i \in 2 .. w + 1 /\ i - 1 \in 1 .. w /\ l - w + (i - 1) \in 1 .. l
        <5> HIDE DEF g, l, w
        <5> QED
            BY <2>1, <2>3, <3>2
      <4>2. g[i] = h[l - w + (i - 1)]
          BY <2>2, <2>3, <4>1
      <4> QED
          BY <2>4, <4>1, <4>2 DEF History
    <3> QED
        BY <3>1, <3>2
  <2>5. History(g)
    <3>1. g # <<>>
        BY <2>1, <2>3
    <3> HIDE DEF g
    <3> QED
        BY <2>3, <2>4, <3>1 DEF History
  <2> QED
      BY <1>2, <2>5 DEF ollamaPrune, s
<1> QED
    BY <1>1, <1>2

\* A step that renumbers nothing keeps the numbered calls
LEMMA UsedGrows ==
    ASSUME TurnInv, TurnInv', NEW t \in Turns,
           \A u \in Turns : u # t => at'[u] = at[u] /\ round'[u] = round[u],
           \A c \in Nat : Numbered(at[t], round[t], c) => Numbered(at'[t], round'[t], c)
    PROVE  Used \subseteq Used'
<1>1. ASSUME NEW id \in CallIds, Numbered(at[id[1]], round[id[1]], id[2])
      PROVE  Numbered(at'[id[1]], round'[id[1]], id[2])
  <2>1. id[1] \in Turns /\ id[2] \in Nat
      BY DEF CallIds
  <2>2. CASE id[1] = t
      BY <1>1, <2>1, <2>2
  <2>3. CASE id[1] # t
      BY <1>1, <2>1, <2>3
  <2> QED
      BY <2>2, <2>3
<1> QED
    BY <1>1 DEF Used

\* A step of a turn keeps the invariant when it leaves the history to the turn
\* that superseded it, or else as it needs it
LEMMA StepKeeps ==
    ASSUME TurnInv, TurnInv', HistoryInv, NEW t \in Turns, provider' = provider, at'[t] # "idle",
           \A u \in Turns : u # t => /\ at'[u] = at[u] /\ round'[u] = round[u]
                                     /\ budget'[u] = budget[u] /\ todo'[u] = todo[u],
           at[t] = "idle" => \A u \in Turns : u < t => at[u] # "idle",
           History(history'),
           provider = "openai" /\ ~late' =>
                /\ ~late
                /\ Distinct(history', Used') /\ Settled(history')
                /\ Superseded(t) => history' = history
                /\ ~Superseded(t) => Needs(history', at'[t], round'[t], budget'[t], todo'[t])
    PROVE  HistoryInv'
<1>1. \A u \in Turns : at[u] # "idle" => at'[u] # "idle"
    OBVIOUS
<1>2. \A u, v \in Turns : v < u /\ at'[u] # "idle" => at'[v] # "idle"
  <2> SUFFICES ASSUME NEW u \in Turns, NEW v \in Turns, v < u, at'[u] # "idle" PROVE at'[v] # "idle"
      OBVIOUS
  <2>1. CASE u = t
      BY <1>1, <2>1 DEF HistoryInv
  <2>2. CASE u # t
      BY <1>1, <2>2 DEF HistoryInv
  <2> QED
      BY <2>1, <2>2
<1>3. ASSUME provider = "openai", ~late', NEW u \in Turns, ~\E v \in Turns : v > u /\ at'[v] # "idle"
      PROVE  Needs(history', at'[u], round'[u], budget'[u], todo'[u])
  <2>0. ~Superseded(u)
      BY <1>1, <1>3 DEF Superseded
  <2>1. CASE u = t
      BY <1>3, <2>0, <2>1
  <2>2. CASE u # t /\ at'[u] = "idle"
      BY <2>2 DEF Needs
  <2>3. CASE u # t /\ at'[u] # "idle"
    <3>1. ~(t > u)
        BY <1>3
    <3>2. u > t
        BY <2>3, <3>1 DEF Turns
    <3>3. Superseded(t)
        BY <2>3, <3>2 DEF Superseded
    <3>4. Needs(history, at[u], round[u], budget[u], todo[u])
        BY <1>3, <2>0 DEF HistoryInv
    <3> QED
        BY <1>3, <2>3, <3>3, <3>4
  <2> QED
      BY <2>1, <2>2, <2>3
<1> QED
    BY <1>2, <1>3 DEF HistoryInv, Superseded

\* Every step keeps the histories answered
LEMMA HistoryInductive ==
    ASSUME TurnInv, HistoryInv, [Next]_vars
    PROVE  HistoryInv'
<1> DEFINE Same(t) == \A u \in Turns : u # t => /\ at'[u] = at[u] /\ round'[u] = round[u]
                                                /\ budget'[u] = budget[u] /\ todo'[u] = todo[u]
           Grows(t) == \A c \in Nat : Numbered(at[t], round[t], c) => Numbered(at'[t], round'[t], c)
           Sound == provider = "openai" /\ ~late
<1>a. TurnInv'
    BY TurnsInductive
<1>b. /\ provider \in {"openai", "ollama", "agent"}
      /\ at \in [Turns -> Places] /\ round \in [Turns -> 0 .. MaxRounds] /\ todo \in [Turns -> Seq(CallSet)]
      /\ repeated \in [Turns -> BOOLEAN] /\ budget \in [Turns -> BOOLEAN] /\ MaxRounds \in Nat
    BY ChatAssumption DEF TurnInv
<1>h. History(history)
    BY DEF HistoryInv
<1>i. Sound => Distinct(history, Used) /\ Settled(history)
    BY DEF HistoryInv
<1>n. \A t \in Turns : Sound /\ ~Superseded(t) => Needs(history, at[t], round[t], budget[t], todo[t])
    BY DEF HistoryInv
<1>more. ASSUME NEW t \in Turns, Same(t), Grows(t) PROVE Used \subseteq Used'
    BY <1>a, <1>more, UsedGrows
<1>keeps. ASSUME NEW t \in Turns, Same(t), at[t] # "idle", at'[t] # "idle", writes(t), UNCHANGED setup,
                 History(history'),
                 Sound /\ ~Superseded(t) =>
                    /\ Distinct(history', Used') /\ Settled(history')
                    /\ Needs(history', at'[t], round'[t], budget'[t], todo'[t])
          PROVE  HistoryInv'
  <2>1. provider' = provider /\ (~late' => ~late /\ ~Superseded(t))
      BY <1>keeps DEF setup, writes
  <2> QED
      BY <1>a, <1>keeps, <2>1, StepKeeps
<1>same. ASSUME NEW t \in Turns, Same(t), Grows(t), at[t] # "idle", at'[t] # "idle",
                UNCHANGED <<setup, history, late>>,
                Sound /\ ~Superseded(t) => Needs(history, at'[t], round'[t], budget'[t], todo'[t])
         PROVE  HistoryInv'
  <2>1. Sound => Settled(history) /\ Distinct(history, Used')
      BY <1>i, <1>more, <1>same, DistinctMore
  <2>2. provider' = provider
      BY <1>same DEF setup
  <2> QED
      BY <1>a, <1>h, <1>same, <2>1, <2>2, StepKeeps
<1> HIDE DEF Same, Grows
<1>plain. ASSUME NEW role \in {"user", "assistant", "system"}
          PROVE  Message(role) \in Messages /\ Message(role).role # "tool"
  <2>1. <<>> \in Seq(CallSet)
      OBVIOUS
  <2> QED
      BY <2>1 DEF Message, Messages, Roles
<1>done. ASSUME NEW t \in Turns, returns(t)
         PROVE  Same(t) /\ Grows(t) /\ at'[t] = "done"
                /\ \A h : Needs(h, at'[t], round'[t], budget'[t], todo'[t])
    BY <1>b, <1>done DEF returns, Same, Grows, Numbered, Needs
<1>1. CASE UNCHANGED <<setup, history, turnVars, late>>
  <2>1. Used' = Used
      BY <1>1 DEF turnVars, Used
  <2> QED
      BY <1>1, <2>1 DEF setup, turnVars, HistoryInv, Superseded
<1>2. ASSUME NEW t \in Turns, startChat(t) PROVE HistoryInv'
  <2>1. /\ \A u \in Turns : u < t => at[u] # "idle"
        /\ at' = [at EXCEPT ![t] = "ask"] /\ at[t] = "idle"
        /\ UNCHANGED <<round, todo, budget, late>> /\ provider' = provider
      BY <1>2 DEF startChat, setup
  <2>2. Same(t) /\ Grows(t) /\ at'[t] = "ask" /\ at'[t] # "idle"
      BY <1>b, <2>1 DEF Same, Grows, Numbered
  <2>3. ~Superseded(t)
      BY <2>1 DEF Superseded, HistoryInv, Turns
  <2>4. ASSUME Sound
        PROVE  /\ History(history') /\ Settled(history') /\ Distinct(history', Used')
               /\ Needs(history', at'[t], round'[t], budget'[t], todo'[t])
    <3> DEFINE r == reconcileHistory(history)
    <3>1. history' = Append(r, Message("user"))
        BY <1>2, <2>4 DEF startChat, openaiStart
    <3>2. History(r) /\ Tidy(r) /\ Distinct(r, Used)
        BY <1>h, <1>i, <2>4, ReconcileTidies
    <3> HIDE DEF r
    <3>3. Settled(r)
        BY <3>2 DEF Settled, Tidy
    <3>4. History(history') /\ Settled(history') /\ Distinct(history', Used) /\ Tidy(history')
        BY <3>1, <3>2, <3>3, PlainFacts DEF Roles
    <3>5. Distinct(history', Used')
        BY <1>more, <2>2, <3>4, DistinctMore
    <3> QED
        BY <2>2, <3>4, <3>5 DEF Needs
  <2>5. ASSUME provider # "openai" PROVE History(history')
    <3>1. history' = Append(history, Message("user")) \/ history' = history
        BY <1>2, <1>b, <2>5 DEF startChat, ollamaStart, agentStart
    <3> QED
        BY <1>h, <1>plain, <3>1, HistoryAppend
  <2>6. ASSUME provider = "openai", late PROVE History(history')
    <3>1. history' = Append(reconcileHistory(history), Message("user"))
        BY <1>2, <2>6 DEF startChat, openaiStart
    <3> QED
        BY <1>h, <1>plain, <3>1, HistoryAppend, ReconcileFacts
  <2>7. late' = late
      BY <2>1
  <2>8. History(history')
      BY <2>4, <2>5, <2>6
  <2> QED
      BY <1>a, <2>1, <2>2, <2>3, <2>4, <2>7, <2>8, StepKeeps DEF Same
<1>3. ASSUME NEW t \in Turns, sendRequest(t) PROVE HistoryInv'
  <2>1. /\ at[t] \in {"ask", "forceAsk"} /\ UNCHANGED <<setup, history, round, todo, budget, late>>
        /\ at' = [at EXCEPT ![t] = IF at[t] = "ask" THEN "stream" ELSE "forceStream"]
      BY <1>3 DEF sendRequest
  <2>2. Same(t) /\ at'[t] = (IF at[t] = "ask" THEN "stream" ELSE "forceStream")
      BY <1>b, <2>1 DEF Same
  <2>3. Grows(t)
      BY <2>1, <2>2 DEF Grows, Numbered
  <2>4. Sound /\ ~Superseded(t) => Needs(history, at'[t], round'[t], budget'[t], todo'[t])
      BY <1>n, <2>1, <2>2 DEF Needs
  <2> QED
      BY <1>same, <2>1, <2>2, <2>3, <2>4
<1>4. ASSUME NEW t \in Turns, streamFails(t) PROVE HistoryInv'
    BY <1>done, <1>same, <1>4 DEF streamFails, Streaming
<1>5. ASSUME NEW t \in Turns, answerText(t) PROVE HistoryInv'
  <2>1. at[t] # "idle" /\ UNCHANGED setup /\ returns(t) /\ writes(t)
      BY <1>5 DEF answerText, Streaming
  <2>2. CASE provider = "openai"
    <3> DEFINE g == Append(history, Message("assistant"))
    <3>1. history' = pruneHistory(g)
        BY <1>5, <2>2 DEF answerText, openaiAnswer
    <3>2. History(g) /\ Len(g) >= 2 /\ g[Len(g)].role # "tool"
      <4>1. Len(history) \in Nat /\ Len(history) >= 1 /\ history \in Seq(Messages)
          BY <1>h, MessageFacts DEF History
      <4>2. Len(g) = Len(history) + 1 /\ g[Len(g)] = Message("assistant")
          BY <1>plain, <4>1
      <4> QED
          BY <1>h, <1>plain, <4>1, <4>2, HistoryAppend
    <3>3. Sound => Settled(g) /\ Distinct(g, Used)
        BY <1>h, <1>i, PlainFacts DEF Roles
    <3> HIDE DEF g
    <3>4. History(history') /\ (Sound => Distinct(history', Used) /\ Settled(history'))
        BY <3>1, <3>2, <3>3, PruneHistory, PruneSettled
    <3>5. Sound => Distinct(history', Used')
        BY <1>done, <1>more, <2>1, <3>4, DistinctMore
    <3> QED
        BY <1>done, <1>keeps, <2>1, <3>4, <3>5
  <2>3. CASE provider # "openai"
    <3>1. history' = ollamaPrune(Append(history, Message("assistant"))) \/ history' = history
        BY <1>5, <1>b, <2>3 DEF answerText, ollamaAnswer
    <3>2. History(history')
        BY <1>h, <1>plain, <3>1, HistoryAppend, OllamaPruneFacts
    <3> QED
        BY <1>done, <1>keeps, <2>1, <2>3, <3>2
  <2> QED
      BY <2>2, <2>3
<1>6. ASSUME NEW t \in Turns, ollamaCalls(t) PROVE HistoryInv'
  <2>1. PICK sigs \in CallLists :
            /\ history' = Append(history, Asks(Calls(t, sigs)))
            /\ returns(t) \/ beginCalls(t, sigs)
      BY <1>6 DEF ollamaCalls
  <2>2. at[t] # "idle" /\ UNCHANGED setup /\ writes(t) /\ provider # "openai"
      BY <1>6 DEF ollamaCalls, Streaming
  <2>3. History(history')
    <3>1. Calls(t, sigs) \in Seq(CallSet)
        BY CallsFacts
    <3>2. Asks(Calls(t, sigs)) \in Messages /\ Asks(Calls(t, sigs)).role # "tool"
        BY <3>1 DEF Asks, Messages, Roles
    <3> QED
        BY <1>h, <2>1, <3>2, HistoryAppend
  <2>4. Same(t) /\ at'[t] # "idle"
    <3>1. CASE beginCalls(t, sigs)
        BY <1>b, <3>1 DEF beginCalls, Same
    <3> QED
        BY <1>done, <2>1, <3>1
  <2> QED
      BY <1>keeps, <2>2, <2>3, <2>4
<1>call. ASSUME NEW t \in Turns, at[t] = "tools"
         PROVE  Result(Head(todo[t]).id) \in Messages /\ Result(Head(todo[t]).id).calls = <<>>
  <2>1. todo[t] \in Seq(CallSet) /\ todo[t] # <<>>
      BY <1>call DEF TurnInv
  <2>2. Head(todo[t]) \in CallSet
      BY <2>1, HeadTailProperties
  <2>3. Head(todo[t]).id \in CallIds
      BY <2>2 DEF CallSet
  <2>4. <<>> \in Seq(CallSet)
      OBVIOUS
  <2> QED
      BY <2>3, <2>4 DEF Result, Messages, Roles
<1>7. ASSUME NEW t \in Turns, ollamaRunCall(t) PROVE HistoryInv'
  <2>1. /\ at[t] = "tools" /\ provider # "openai" /\ UNCHANGED setup /\ writes(t) /\ budget' = budget
        /\ history' = Append(history, Result(Head(todo[t]).id)) /\ afterCall(t, "ask")
      BY <1>7 DEF ollamaRunCall
  <2>2. Same(t) /\ at'[t] # "idle"
      BY <1>b, <2>1 DEF afterCall, Same
  <2>3. History(history')
      BY <1>call, <1>h, <2>1, HistoryAppend
  <2> QED
      BY <1>keeps, <2>1, <2>2, <2>3
<1>8. ASSUME NEW t \in Turns, openaiCalls(t) PROVE HistoryInv'
  <2>1. PICK sigs \in CallLists :
          /\ history' = pruneHistory(Append(history, Asks(Calls(t, sigs))))
          /\ \/ /\ at[t] = "stream" /\ exhausted(t)
                /\ at' = [at EXCEPT ![t] = "force"]
                /\ budget' = [budget EXCEPT ![t] = TRUE]
                /\ UNCHANGED <<todo, repeated, round, seen>>
             \/ returns(t)
             \/ /\ at[t] = "stream" /\ ~exhausted(t)
                /\ beginCalls(t, sigs)
      BY <1>8 DEF openaiCalls
  <2> DEFINE calls == Calls(t, sigs)
             g == Append(history, Asks(calls))
             c == IF at[t] = "forceStream" THEN round[t] + 1 ELSE round[t]
  <2>2. at[t] # "idle" /\ UNCHANGED setup /\ writes(t) /\ provider = "openai"
        /\ at[t] \in {"stream", "forceStream"}
      BY <1>8 DEF openaiCalls, Streaming
  <2>3. /\ c \in Nat /\ calls \in Seq(CallSet) /\ calls # <<>>
        /\ \A n \in 1 .. Len(calls) : n \in Nat /\ calls[n].id = <<t, c, n>>
      BY CallsFacts
  <2>h. history' = pruneHistory(g)
      BY <2>1
  <2> HIDE DEF calls
  <2>4. ~Numbered(at[t], round[t], c) /\ round[t] \in Nat
    <3>1. round[t] \in Nat
        BY <1>b
    <3> QED
        BY <2>2, <3>1 DEF Numbered
  <2>5. /\ Same(t) /\ Grows(t) /\ Numbered(at'[t], round'[t], c)
        /\ \/ at'[t] = "done"
           \/ at'[t] = "force" /\ budget'[t]
           \/ at'[t] = "tools" /\ todo'[t] = calls /\ round'[t] < MaxRounds /\ at[t] = "stream"
    <3>1. CASE returns(t)
        BY <1>done, <3>1 DEF Numbered
    <3>2. CASE /\ at[t] = "stream"
               /\ at' = [at EXCEPT ![t] = "force"]
               /\ budget' = [budget EXCEPT ![t] = TRUE]
               /\ UNCHANGED <<todo, round>>
      <4>1. /\ at'[t] = "force" /\ budget'[t] /\ round'[t] = round[t] /\ Same(t)
          BY <1>b, <3>2 DEF Same
      <4>2. c = round[t]
          BY <3>2
      <4>3. Grows(t) /\ Numbered(at'[t], round'[t], c)
          BY <2>4, <3>2, <4>1, <4>2 DEF Grows, Numbered
      <4> QED
          BY <3>2, <4>1, <4>3
    <3>3. CASE at[t] = "stream" /\ ~exhausted(t) /\ beginCalls(t, sigs)
      <4>1. /\ at'[t] = "tools" /\ round'[t] = round[t] /\ Same(t) /\ todo'[t] = calls
          BY <1>b, <3>3 DEF beginCalls, Same, calls
      <4>2. c = round[t] /\ round[t] < MaxRounds
          BY <1>b, <2>4, <3>3 DEF exhausted
      <4>3. Grows(t) /\ Numbered(at'[t], round'[t], c)
          BY <2>4, <3>3, <4>1, <4>2 DEF Grows, Numbered
      <4> QED
          BY <3>3, <4>1, <4>2, <4>3
    <3> QED
        BY <2>1, <3>1, <3>2, <3>3
  <2> HIDE DEF c
  <2>6. ASSUME NEW n \in 1 .. Len(calls) PROVE calls[n].id \in Used' \ Used
    <3>1. calls[n].id = <<t, c, n>> /\ n \in Nat
        BY <2>3
    <3>2. <<t, c, n>> \in CallIds /\ <<t, c, n>>[1] = t /\ <<t, c, n>>[2] = c
        BY <2>3, <3>1 DEF CallIds
    <3> QED
        BY <2>4, <2>5, <3>1, <3>2 DEF Used
  <2>7. ASSUME NEW n \in 1 .. Len(calls), NEW m \in 1 .. Len(calls), calls[n].id = calls[m].id PROVE n = m
    <3>1. calls[n].id = <<t, c, n>> /\ calls[m].id = <<t, c, m>>
        BY <2>3
    <3>2. \A x, y : <<t, c, x>> = <<t, c, y>> => x = y
        OBVIOUS
    <3> QED
        BY <2>7, <3>1, <3>2
  <2>8. Used \subseteq Used'
      BY <1>more, <2>5
  <2>9. Sound => /\ Settled(history') /\ Distinct(history', Used')
                 /\ Tidy(history) => Open(history', calls)
      BY <1>h, <1>i, <2>3, <2>6, <2>7, <2>8, <2>h, AskFacts
  <2>10. History(history')
    <3>1. Asks(calls) \in Messages /\ Asks(calls).role # "tool"
        BY <2>3 DEF Asks, Messages, Roles
    <3>2. Len(history) \in Nat /\ Len(history) >= 1 /\ history \in Seq(Messages)
        BY <1>h, MessageFacts DEF History
    <3>3. Len(g) = Len(history) + 1 /\ g[Len(g)] = Asks(calls)
        BY <3>1, <3>2
    <3>4. History(g) /\ Len(g) >= 2 /\ g[Len(g)].role # "tool"
        BY <1>h, <3>1, <3>2, <3>3, HistoryAppend
    <3> HIDE DEF g
    <3> QED
        BY <2>h, <3>4, PruneHistory
  <2>11. Sound /\ ~Superseded(t) => Needs(history', at'[t], round'[t], budget'[t], todo'[t])
    <3> SUFFICES ASSUME Sound, ~Superseded(t)
                 PROVE  Needs(history', at'[t], round'[t], budget'[t], todo'[t])
        OBVIOUS
    <3>1. CASE at'[t] = "done"
        BY <3>1 DEF Needs
    <3>2. CASE at'[t] = "force" /\ budget'[t]
        BY <3>2 DEF Needs
    <3>3. CASE at'[t] = "tools" /\ todo'[t] = calls /\ round'[t] < MaxRounds /\ at[t] = "stream"
      <4>1. Tidy(history)
          BY <1>n, <3>3 DEF Needs
      <4> QED
          BY <2>9, <3>3, <4>1 DEF Needs
    <3> QED
        BY <2>5, <3>1, <3>2, <3>3
  <2>12. at'[t] # "idle"
      BY <2>5
  <2> QED
      BY <1>keeps, <2>2, <2>5, <2>9, <2>10, <2>11, <2>12
<1>9. ASSUME NEW t \in Turns, openaiRunCall(t) PROVE HistoryInv'
  <2> DEFINE call == Head(todo[t])
             all == repeated[t] /\ call.sig \in seen[t]
             one == Len(todo[t]) = 1
  <2>1. /\ at[t] = "tools" /\ UNCHANGED setup /\ writes(t) /\ budget' = budget
        /\ history' = Append(history, Result(call.id))
        /\ afterCall(t, IF all THEN "force" ELSE "ask")
      BY <1>9 DEF openaiRunCall
  <2>2. round[t] \in 0 .. MaxRounds
      BY <1>b
  <2>3. /\ Same(t)
        /\ at'[t] = (IF one THEN IF all THEN "force" ELSE "ask" ELSE "tools")
        /\ todo'[t] = Tail(todo[t])
        /\ round'[t] = (IF one THEN Min({round[t] + 1, MaxRounds}) ELSE round[t])
    <3> HIDE DEF all
    <3> QED
        BY <1>b, <2>1 DEF afterCall, Same
  <2>4. History(history')
      BY <1>call, <1>h, <2>1, HistoryAppend
  <2> HIDE DEF all, one
  <2>5. ASSUME Sound, ~Superseded(t)
        PROVE  /\ Distinct(history', Used') /\ Settled(history')
               /\ Needs(history', at'[t], round'[t], budget'[t], todo'[t])
    <3>1. Open(history, todo[t]) /\ round[t] < MaxRounds
        BY <1>n, <2>1, <2>5 DEF Needs
    <3>2. /\ todo[t] \in Seq(CallSet) /\ todo[t] # <<>>
          /\ Distinct(history', Used)
          /\ one => Tidy(history')
          /\ ~one => Open(history', Tail(todo[t]))
        BY <1>h, <1>i, <2>1, <2>5, <3>1, OpenStep DEF one
    <3>3. Min({round[t] + 1, MaxRounds}) = round[t] + 1
        BY <2>2, <3>1, NextRound
    <3>4. Grows(t)
      <4>1. round[t] \in Nat
          BY <2>2, <1>b
      <4>2. CASE one
          BY <2>1, <2>3, <3>3, <4>1, <4>2 DEF Grows, Numbered
      <4>3. CASE ~one
          BY <2>1, <2>3, <4>3 DEF Grows, Numbered
      <4> QED
          BY <4>2, <4>3
    <3>5. Distinct(history', Used')
        BY <1>more, <2>3, <3>2, <3>4, DistinctMore
    <3>6. CASE one
      <4>1. Tidy(history') /\ Settled(history')
          BY <3>2, <3>6 DEF Settled, Tidy
      <4> QED
          BY <2>3, <3>5, <3>6, <4>1 DEF Needs
    <3>7. CASE ~one
      <4>1. Open(history', todo'[t]) /\ Settled(history')
          BY <2>3, <3>2, <3>7, OpenIsSettled
      <4> QED
          BY <2>3, <3>1, <3>5, <3>7, <4>1 DEF Needs
    <3> QED
        BY <3>6, <3>7
  <2>6. at'[t] # "idle"
      BY <2>3
  <2> QED
      BY <1>keeps, <2>1, <2>3, <2>4, <2>5, <2>6
<1>10. ASSUME NEW t \in Turns, forceTextResponse(t) PROVE HistoryInv'
  <2>1. /\ at[t] = "force" /\ history' = Append(history, Message("system"))
        /\ at' = [at EXCEPT ![t] = "forceAsk"] /\ writes(t) /\ UNCHANGED <<setup, round, todo, budget>>
      BY <1>10 DEF forceTextResponse
  <2>2. Same(t) /\ at'[t] = "forceAsk"
      BY <1>b, <2>1 DEF Same
  <2>3. Grows(t)
      BY <2>1, <2>2 DEF Grows, Numbered
  <2>4. History(history')
      BY <1>h, <1>plain, <2>1, HistoryAppend
  <2>5. ASSUME Sound, ~Superseded(t)
        PROVE  /\ Distinct(history', Used') /\ Settled(history')
               /\ Needs(history', at'[t], round'[t], budget'[t], todo'[t])
    <3>1. Settled(history') /\ Distinct(history', Used) /\ (Tidy(history) => Tidy(history'))
        BY <1>h, <1>i, <2>1, <2>5, PlainFacts DEF Roles
    <3>2. Distinct(history', Used')
        BY <1>more, <2>2, <2>3, <3>1, DistinctMore
    <3>3. Needs(history, at[t], round[t], budget[t], todo[t])
        BY <1>n, <2>5
    <3> QED
        BY <2>1, <2>2, <3>1, <3>2, <3>3 DEF Needs
  <2> QED
      BY <1>keeps, <2>1, <2>2, <2>4, <2>5
<1>11. CASE Next
  <2>1. ASSUME NEW t \in Turns, emitChunk(t) PROVE HistoryInv'
      BY <1>1, <2>1 DEF emitChunk
  <2> QED
      BY <1>2, <1>3, <1>4, <1>5, <1>6, <1>7, <1>8, <1>9, <1>10, <1>11, <2>1
         DEF Next, chatStep, openaiChunk, ollamaChunk, agentChunk
<1>12. CASE UNCHANGED vars
    BY <1>1, <1>12 DEF vars
<1> QED
    BY <1>11, <1>12

\* Every request of the OpenAI client carries a history the API accepts: each
\* assistant message is followed by exactly the results of its calls and there
\* are no other results.  A turn may be cancelled before, between or after its
\* calls and the next one start beside it; reconcileHistory repairs what it left
\* behind, and pruneHistory never separates a message from its results, for any
\* number of turns, rounds and calls and any window.  The request forced by the
\* tool budget is excepted, and so are those made once a superseded turn has
\* written behind its successor.
THEOREM RequestsCorrect == Spec => []RequestsWellFormed
<1> DEFINE Inv == CutInv /\ TurnInv /\ HistoryInv
<1>1. Init => Inv
  <2> SUFFICES ASSUME Init PROVE Inv
      OBVIOUS
  <2>0. ChatAssumption
      BY ChatAssumption
  <2>2. Len(<<>>) = 0 /\ <<>> \in Seq(CallSet) /\ 0 \in 0 .. MaxRounds
      BY ChatAssumption
  <2>3. CutInv
      BY CutInit
  <2>4. TurnInv
    <3>1. handler \in BOOLEAN /\ late \in BOOLEAN
        BY DEF Init
    <3> QED
        BY <2>2, <3>1 DEF Init, TurnInv, Places
  <2>5. Message("system") \in Messages /\ Message("system").role = "system" /\ Message("system").calls = <<>>
      BY <2>2 DEF Message, Messages, Roles
  <2>6. history \in Seq(Messages) /\ Len(history) = 1 /\ history[1] = Message("system") /\ history # <<>>
      BY <2>5 DEF Init
  <2>7. \A i \in 1 .. Len(history) : i = 1
      BY <2>6
  <2>8. History(history)
      BY <2>5, <2>6, <2>7 DEF History
  <2>9. Distinct(history, Used)
    <3>1. \A i \in 1 .. Len(history) : \A n \in 1 .. Len(history[i].calls) : FALSE
      <4>1. \A i \in 1 .. Len(history) : Len(history[i].calls) = 0
          BY <2>2, <2>5, <2>6, <2>7
      <4> QED
          BY <4>1
    <3> QED
        BY <3>1 DEF Distinct
  <2>10. Settled(history)
    <3>1. 1 + 0 <= Len(history) /\ ~(1 + 0 < Len(history)) /\ 0 <= Len(history[1].calls)
        BY <2>2, <2>5, <2>6
    <3>2. Block(history, 1, 0)
        BY <3>1 DEF Block, Extent
    <3> QED
        BY <2>7, <3>2 DEF Settled, Speech
  <2>11. \A t \in Turns : at[t] = "idle"
      BY DEF Init
  <2>12. HistoryInv
      BY <2>8, <2>9, <2>10, <2>11 DEF HistoryInv, Needs
  <2> QED
      BY <2>3, <2>4, <2>12
<1>2. Inv /\ [Next]_vars => Inv'
    BY CutInductive, TurnsInductive, HistoryInductive
<1>3. Inv => RequestsWellFormed
  <2> SUFFICES ASSUME Inv PROVE RequestsWellFormed
      OBVIOUS
  <2>1. text \in [Turns -> Seq(Chars)] /\ \A t \in Turns : cuts[t] \subseteq 0 .. Len(text[t])
      BY DEF CutInv, CutWell, Cut
  <2>2. TypeOK
      BY <2>1 DEF TurnInv, HistoryInv, History, TypeOK
  <2>3. ASSUME provider = "openai", ~late, NEW t \in Turns, asksFreely(t)
        PROVE  WellFormed(history)
    <3>1. Needs(history, at[t], round[t], budget[t], todo[t]) /\ History(history)
        BY <2>3 DEF HistoryInv, asksFreely
    <3>2. Tidy(history)
        BY <2>3, <3>1 DEF Needs, asksFreely
    <3> QED
        BY <3>1, <3>2, TidyIsWellFormed
  <2> QED
      BY <2>2, <2>3 DEF RequestsWellFormed
<1> QED
    BY <1>1, <1>2, <1>3, PTL DEF Spec, Safety
=============================================================================
