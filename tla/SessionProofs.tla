--------------------------- MODULE SessionProofs ---------------------------
(***************************************************************************)
(* Proofs about the session and its turns, for any number of messages, any *)
(* batches of calls, any budgets and any window of recent messages: what    *)
(* the user types is kept in one place, and the conversation keeps the      *)
(* shape the providers ask for.                                             *)
(***************************************************************************)
EXTENDS Session, FiniteSetTheorems, TLAPS

-----------------------------------------------------------------------------
(* Sequences.                                                              *)

\* What a sequence holds after an element was added at its end.
LEMMA AppendElements ==
  ASSUME NEW S, NEW q \in Seq(S), NEW e \in S
  PROVE  /\ Append(q, e) \in Seq(S)
         /\ Len(Append(q, e)) = Len(q) + 1
         /\ \A i \in 1..Len(q) : Append(q, e)[i] = q[i]
         /\ Append(q, e)[Len(q) + 1] = e
         /\ \A i \in 1..Len(Append(q, e)) : i \in 1..Len(q) \/ i = Len(q) + 1
  OBVIOUS

\* What two sequences hold together.
LEMMA ConcatElements ==
  ASSUME NEW S, NEW q \in Seq(S), NEW r \in Seq(S)
  PROVE  /\ q \o r \in Seq(S)
         /\ Len(q \o r) = Len(q) + Len(r)
         /\ \A i \in 1..Len(q) : (q \o r)[i] = q[i]
         /\ \A i \in 1..Len(r) : (q \o r)[Len(q) + i] = r[i]
  OBVIOUS

\* What a part of a sequence holds.
LEMMA PartElements ==
  ASSUME NEW S, NEW q \in Seq(S), NEW a \in Nat \ {0}, NEW b \in Nat, b <= Len(q), a <= b + 1
  PROVE  /\ SubSeq(q, a, b) \in Seq(S)
         /\ Len(SubSeq(q, a, b)) = b + 1 - a
         /\ \A i \in 1..b + 1 - a : SubSeq(q, a, b)[i] = q[a + i - 1]
  OBVIOUS

\* What a queue holds after its first element was taken.
LEMMA TailElements ==
  ASSUME NEW S, NEW q \in Seq(S), q # <<>>
  PROVE  /\ Tail(q) \in Seq(S)
         /\ Len(Tail(q)) = Len(q) - 1
         /\ \A i \in 1..Len(Tail(q)) : i + 1 \in 1..Len(q) /\ Tail(q)[i] = q[i + 1]
         /\ 1 \in 1..Len(q)
         /\ Head(q) = q[1]
         /\ Head(q) \in S
  OBVIOUS

\* What a queue holds after the message in its i-th place was taken out.
LEMMA WithoutElements ==
  ASSUME NEW S, NEW q \in Seq(S), NEW i \in 1..Len(q)
  PROVE  LET r == SubSeq(q, 1, i - 1) \o SubSeq(q, i + 1, Len(q)) IN
         /\ r \in Seq(S)
         /\ Len(r) = Len(q) - 1
         /\ \A j \in 1..i - 1 : r[j] = q[j]
         /\ \A j \in i..Len(q) - 1 : r[j] = q[j + 1]
  <1>a. /\ SubSeq(q, 1, i - 1) \in Seq(S) /\ Len(SubSeq(q, 1, i - 1)) = i - 1
        /\ \A j \in 1..i - 1 : SubSeq(q, 1, i - 1)[j] = q[j]
    OBVIOUS
  <1>b. /\ SubSeq(q, i + 1, Len(q)) \in Seq(S) /\ Len(SubSeq(q, i + 1, Len(q))) = Len(q) - i
        /\ \A j \in 1..Len(q) - i : SubSeq(q, i + 1, Len(q))[j] = q[i + j]
    OBVIOUS
  <1>1. PICK a \in Seq(S) : a = SubSeq(q, 1, i - 1)
    BY <1>a
  <1>2. PICK b \in Seq(S) : b = SubSeq(q, i + 1, Len(q))
    BY <1>b
  <1>c. /\ Len(a) = i - 1 /\ \A j \in 1..i - 1 : a[j] = q[j]
        /\ Len(b) = Len(q) - i /\ \A j \in 1..Len(q) - i : b[j] = q[i + j]
    BY <1>1, <1>2, <1>a, <1>b
  <1>3. /\ a \o b \in Seq(S) /\ Len(a \o b) = Len(a) + Len(b)
        /\ \A j \in 1..Len(a) : (a \o b)[j] = a[j]
        /\ \A j \in 1..Len(b) : (a \o b)[Len(a) + j] = b[j]
    BY ConcatElements
  <1>4. ASSUME NEW j \in i..Len(q) - 1
        PROVE  (a \o b)[j] = q[j + 1]
    <2>0. /\ i \in Int /\ j \in Int /\ 1 <= i /\ i <= j /\ j <= Len(q) - 1 /\ Len(q) \in Int
          /\ Len(a) = i - 1 /\ Len(b) = Len(q) - i
      BY <1>c
    <2>1. j - Len(a) \in 1..Len(b) /\ Len(a) + (j - Len(a)) = j
      BY <2>0
    <2>2. (a \o b)[j] = b[j - Len(a)]
      BY <2>1, <1>3
    <2>3. j - Len(a) \in 1..Len(q) - i /\ i + (j - Len(a)) = j + 1
      BY <1>c
    <2>4. QED
      BY <2>2, <2>3, <1>c
  <1>5. Len(a \o b) = Len(q) - 1 /\ \A j \in 1..i - 1 : (a \o b)[j] = q[j]
    BY <1>c, <1>3
  <1>6. QED
    BY <1>1, <1>2, <1>3, <1>4, <1>5

\* The n places after a given one.
LEMMA PlacesAfter ==
  ASSUME NEW a \in Nat, NEW n \in Nat
  PROVE  IsFiniteSet(a + 1..a + n) /\ Cardinality(a + 1..a + n) = n
  <1>1. a + 1 \in Int /\ a + n \in Int
    OBVIOUS
  <1>2. /\ IsFiniteSet(a + 1..a + n)
        /\ Cardinality(a + 1..a + n) = IF a + 1 > a + n THEN 0 ELSE (a + n) - (a + 1) + 1
    BY <1>1, FS_Interval
  <1>3. QED
    BY <1>2

-----------------------------------------------------------------------------
(* Types.                                                                  *)

\* Items are what they are made of.
LEMMA WritesTyped ==
  ASSUME NEW role \in {"user", "assistant", "tool", "summary", "carried"},
         NEW said \in SUBSET Message, NEW calls \in SUBSET CallId
  PROVE  /\ Writes(role, said, calls) \in Item
         /\ Writes(role, said, calls).role = role
         /\ Writes(role, said, calls).said = said
         /\ Writes(role, said, calls).calls = calls
  BY DEF Writes, Item

\* A result is a tool's message with the one call it answers.
LEMMA ResultTyped ==
  ASSUME NEW id \in CallId
  PROVE  /\ Result(id) \in Item
         /\ Result(id).role = "tool" /\ Result(id).said = {} /\ Result(id).calls = {id}
  <1>1. {id} \in SUBSET CallId
    OBVIOUS
  <1>2. QED
    BY <1>1, WritesTyped DEF Result

\* What the loop notes for the model, and what the model says, is none of the
\* user's messages and no call.
LEMMA NoteTyped ==
  /\ Note \in Item /\ Note.role = "user" /\ Note.said = {} /\ Note.calls = {}
  /\ Prose \in Item /\ Prose.role = "assistant" /\ Prose.said = {} /\ Prose.calls = {}
  BY WritesTyped DEF Note, Prose

\* The names of the calls of a step.
LEMMA IdTyped ==
  ASSUME turn \in Turn, NEW i \in Nat
  PROVE  Id(i) \in CallId /\ Id(i)[1] = turn.no
  BY DEF Id, CallId, Turn

\* A turn that has not begun, and one that begins.
LEMMA NewTyped ==
  ASSUME turn \in Turn, NEW text \in SUBSET Message
  PROVE  /\ NoTurn(turn.no) \in Turn
         /\ NoTurn(turn.no).at = "off" /\ NoTurn(turn.no).text = {}
         /\ NoTurn(turn.no).no = turn.no
         /\ [NoTurn(turn.no) EXCEPT !.end = "raised"] \in Turn
         /\ NewTurn(text) \in Turn
         /\ NewTurn(text).at = "accepted" /\ NewTurn(text).text = text
         /\ NewTurn(text).no = turn.no + 1
  <1>1. 0 \in 0..MaxFailures /\ turn.no \in Nat
    BY LoopAssumption DEF Turn
  <1>2. ASSUME NEW no \in Nat
        PROVE  NoTurn(no) \in Turn
    BY <1>1, <1>2 DEF NoTurn, Turn, Point, Ending
  <1>3. ASSUME NEW no \in Nat
        PROVE  NoTurn(no).at = "off" /\ NoTurn(no).text = {} /\ NoTurn(no).no = no
    BY <1>3 DEF NoTurn
  <1>4. turn.no + 1 \in Nat
    BY <1>1
  <1>5. ASSUME NEW t \in Turn
        PROVE  /\ [t EXCEPT !.end = "raised"] \in Turn
               /\ [t EXCEPT !.at = "accepted", !.text = text] \in Turn
               /\ [t EXCEPT !.at = "accepted", !.text = text].at = "accepted"
               /\ [t EXCEPT !.at = "accepted", !.text = text].text = text
               /\ [t EXCEPT !.at = "accepted", !.text = text].no = t.no
    BY <1>5 DEF Turn, Point, Ending
  <1>6. /\ NoTurn(turn.no) \in Turn
        /\ NoTurn(turn.no).at = "off" /\ NoTurn(turn.no).text = {}
        /\ NoTurn(turn.no).no = turn.no
        /\ [NoTurn(turn.no) EXCEPT !.end = "raised"] \in Turn
    BY <1>1, <1>2, <1>3, <1>5
  <1>7. NoTurn(turn.no + 1) \in Turn /\ NoTurn(turn.no + 1).no = turn.no + 1
    BY <1>2, <1>3, <1>4
  <1>8. /\ NewTurn(text) \in Turn
        /\ NewTurn(text).at = "accepted" /\ NewTurn(text).text = text
        /\ NewTurn(text).no = turn.no + 1
    BY <1>7, <1>5 DEF NewTurn
  <1>9. QED
    BY <1>6, <1>8

-----------------------------------------------------------------------------
(* Compaction.                                                             *)

\* The window of recent messages: the split lies inside the conversation, what
\* was moved over it is results, and the window does not begin with one.
LEMMA Window ==
  ASSUME NEW c \in Seq(Item)
  PROVE  /\ OldLen(c) \in 0..Len(c) /\ Split(c) \in OldLen(c)..Len(c)
         /\ \A j \in OldLen(c) + 1..Split(c) : c[j].role = "tool"
         /\ Split(c) < Len(c) => c[Split(c) + 1].role # "tool"
  <1> DEFINE o == OldLen(c)
  <1> DEFINE T == {i \in o + 1..Len(c) : \A j \in o + 1..i : c[j].role = "tool"}
  <1> DEFINE n == Cardinality(T)
  <1>1. o \in 0..Len(c)
    BY LoopAssumption DEF OldLen
  <1>2. Split(c) = o + n
    BY DEF Split
  <1>3. \A i \in T : i \in o + 1..Len(c) /\ \A j \in o + 1..i : j \in T
    BY <1>1
  <1>4. \A i \in o + 1..Len(c) : (\A j \in o + 1..i : c[j].role = "tool") => i \in T
    OBVIOUS
  <1>5. \A i \in T : c[i].role = "tool"
    BY <1>1
  <1>6. T \subseteq o + 1..Len(c)
    OBVIOUS
  <1> HIDE DEF o, T
  <1>7. IsFiniteSet(T) /\ n \in Nat /\ n <= Len(c) - o
    <2>1. /\ Len(c) \in Int /\ o + 1 \in Int /\ o \in Nat /\ o <= Len(c)
      BY <1>1
    <2>11. IsFiniteSet(o + 1..Len(c))
      BY <2>1, FS_Interval
    <2>12. Cardinality(o + 1..Len(c)) = IF o + 1 > Len(c) THEN 0 ELSE Len(c) - (o + 1) + 1
      BY <2>1, FS_Interval
    <2>2. Cardinality(o + 1..Len(c)) = Len(c) - o
      BY <2>1, <2>12
    <2>3. IsFiniteSet(T) /\ n <= Cardinality(o + 1..Len(c))
      BY <1>6, <2>11, FS_Subset
    <2>4. QED
      BY <2>2, <2>3, FS_CardinalityType
  <1>8. ASSUME NEW i \in T
        PROVE  i <= o + n
    <2>1. i \in o + 1..Len(c) /\ o + 1..i \subseteq T /\ o \in Nat /\ i \in Int
      BY <1>1, <1>3
    <2>2. Cardinality(o + 1..i) <= n
      BY <2>1, <1>7, FS_Subset
    <2>3. Cardinality(o + 1..i) = IF o + 1 > i THEN 0 ELSE i - (o + 1) + 1
      BY <2>1, FS_Interval
    <2>4. Cardinality(o + 1..i) = i - o
      BY <2>1, <2>3
    <2>5. QED
      BY <2>1, <2>2, <2>4, <1>7
  <1>9. T = o + 1..o + n
    <2>1. T \subseteq o + 1..o + n
      BY <1>1, <1>3, <1>7, <1>8
    <2>11. o + 1 \in Int /\ o + n \in Int /\ o \in Nat /\ n \in Nat
      BY <1>1, <1>7
    <2>2. IsFiniteSet(o + 1..o + n) /\ Cardinality(o + 1..o + n) = n
      BY <2>11, PlacesAfter
    <2>5. QED
      BY <2>1, <2>2, FS_Subset
  <1> HIDE DEF n
  <1>10. o + n < Len(c) => c[o + n + 1].role # "tool"
    <2> SUFFICES ASSUME o + n < Len(c), c[o + n + 1].role = "tool"
                 PROVE  FALSE
      OBVIOUS
    <2>1. o + n + 1 \in o + 1..Len(c) /\ o + n + 1 \notin o + 1..o + n
      BY <1>1, <1>7
    <2>2. \A j \in o + 1..o + n + 1 : j \in o + 1..o + n \/ j = o + n + 1
      BY <1>1, <1>7
    <2>3. \A j \in o + 1..o + n + 1 : c[j].role = "tool"
      BY <2>2, <1>5, <1>9
    <2>4. QED
      BY <2>1, <2>3, <1>4, <1>9
  <1>11. Split(c) \in o..Len(c)
    BY <1>1, <1>2, <1>7 DEF n
  <1>12. QED
    BY <1>1, <1>2, <1>5, <1>9, <1>10, <1>11 DEF o, n

\* What a compaction leaves: one summary that holds what the older messages
\* held, perhaps the user's request, and the recent messages as they were.
LEMMA FoldedElements ==
  ASSUME NEW c \in Seq(Item)
  PROVE  \E h \in {1, 2} :
           LET f == Folded(c)
               s == Split(c) IN
           /\ f \in Seq(Item) /\ Len(f) = h + (Len(c) - s)
           /\ \A i \in 1..h : f[i].role \in {"summary", "carried"} /\ f[i].calls = {}
           /\ f[1].said = {m \in Message : \E k \in 1..s : m \in c[k].said}
           /\ h = 2 => f[2].said = {}
           /\ \A i \in 1..Len(c) - s : f[h + i] = c[s + i]
  <1> DEFINE s == Split(c)
  <1> DEFINE older == SubSeq(c, 1, s)
  <1> DEFINE recent == SubSeq(c, s + 1, Len(c))
  <1> DEFINE carried == /\ ~FromUser(recent, {"user", "summary", "carried"})
                        /\ FromUser(older, {"user", "carried"})
  <1> DEFINE first == Writes("summary", SaidIn(older), {})
  <1> DEFINE again == Writes("carried", {}, {})
  <1>0. Len(c) \in Nat /\ s \in 0..Len(c) /\ \A k \in 1..Len(c) : c[k] \in Item
    BY Window
  <1>1. /\ older \in Seq(Item) /\ Len(older) = s
        /\ \A i \in 1..s : older[i] = c[i]
    <2>1. /\ 1 \in Nat \ {0} /\ s \in Nat /\ s <= Len(c) /\ 1 <= s + 1 /\ s + 1 - 1 = s
          /\ \A i \in 1..s : 1 + i - 1 = i
      BY <1>0
    <2>2. QED
      BY <2>1, PartElements
  <1>2. /\ recent \in Seq(Item) /\ Len(recent) = Len(c) - s
        /\ \A i \in 1..Len(c) - s : recent[i] = c[s + i]
    <2>1. /\ s + 1 \in Nat \ {0} /\ Len(c) \in Nat /\ s + 1 <= Len(c) + 1
          /\ Len(c) + 1 - (s + 1) = Len(c) - s /\ Len(c) <= Len(c)
          /\ \A i \in 1..Len(c) - s : s + 1 + i - 1 = s + i
      BY <1>0
    <2>2. QED
      BY <2>1, PartElements
  <1>3. SaidIn(older) = {m \in Message : \E k \in 1..s : m \in c[k].said}
    <2>1. \A k \in 1..s : k \in 1..Len(c)
      BY <1>0
    <2>2. \A k \in 1..s : c[k].said \subseteq Message
      BY <2>1, <1>0 DEF Item
    <2>3. SaidIn(older) = UNION {c[i].said : i \in 1..s}
      BY <1>1 DEF SaidIn
    <2>4. QED
      BY <2>2, <2>3
  <1>4. /\ first \in Item /\ first.role = "summary" /\ first.calls = {}
        /\ first.said = SaidIn(older)
        /\ again \in Item /\ again.role = "carried" /\ again.calls = {} /\ again.said = {}
    <2>1. SaidIn(older) \in SUBSET Message
      BY <1>3
    <2>2. QED
      BY <2>1, WritesTyped
  <1>5. Folded(c) = <<first>> \o (IF carried THEN <<again>> ELSE <<>>) \o recent
    BY DEF Folded
  <1> HIDE DEF s, older, recent, carried, first, again
  <1>6. CASE carried
    <2>1. Folded(c) = <<first>> \o <<again>> \o recent
      BY <1>5, <1>6
    <2>a. <<first>> \o <<again>> \in Seq(Item)
      BY <1>4
    <2>b. PICK head \in Seq(Item) : head = <<first>> \o <<again>>
      BY <2>a
    <2>2. head = <<first>> \o <<again>> /\ Len(head) = 2 /\ head[1] = first /\ head[2] = again
      BY <2>b
    <2>3. PICK rest \in Seq(Item) : rest = recent
      BY <1>2
    <2>4. /\ head \o rest \in Seq(Item) /\ Len(head \o rest) = Len(head) + Len(rest)
          /\ \A i \in 1..Len(head) : (head \o rest)[i] = head[i]
          /\ \A i \in 1..Len(rest) : (head \o rest)[Len(head) + i] = rest[i]
      BY ConcatElements
    <2>5. Folded(c) = head \o rest
      BY <2>1, <2>2, <2>3
    <2>6. /\ Folded(c) \in Seq(Item) /\ Len(Folded(c)) = 2 + (Len(c) - s)
          /\ \A i \in 1..2 : Folded(c)[i] = head[i]
          /\ \A i \in 1..Len(c) - s : Folded(c)[2 + i] = c[s + i]
      BY <2>2, <2>3, <2>4, <2>5, <1>2
    <2>7. \A i \in 1..2 : i = 1 \/ i = 2
      OBVIOUS
    <2>8. Folded(c)[1] = first /\ Folded(c)[2] = again
      BY <2>2, <2>6
    <2>9. \A i \in 1..2 : Folded(c)[i].role \in {"summary", "carried"} /\ Folded(c)[i].calls = {}
      BY <2>7, <2>8, <1>4
    <2>10. 2 \in {1, 2} /\ (2 = 2 => Folded(c)[2].said = {})
      BY <2>8, <1>4
    <2>11. Folded(c)[1].said = {m \in Message : \E k \in 1..s : m \in c[k].said}
      BY <2>8, <1>3, <1>4
    <2>12. WITNESS 2 \in {1, 2}
    <2>13. QED
      BY <2>6, <2>9, <2>10, <2>11 DEF s
  <1>7. CASE ~carried
    <2>1. Folded(c) = <<first>> \o <<>> \o recent
      BY <1>5, <1>7
    <2>a. <<first>> \o <<>> \in Seq(Item)
      BY <1>4
    <2>b. PICK head \in Seq(Item) : head = <<first>> \o <<>>
      BY <2>a
    <2>2. head = <<first>> \o <<>> /\ Len(head) = 1 /\ head[1] = first
      BY <2>b
    <2>3. PICK rest \in Seq(Item) : rest = recent
      BY <1>2
    <2>4. /\ head \o rest \in Seq(Item) /\ Len(head \o rest) = Len(head) + Len(rest)
          /\ \A i \in 1..Len(head) : (head \o rest)[i] = head[i]
          /\ \A i \in 1..Len(rest) : (head \o rest)[Len(head) + i] = rest[i]
      BY ConcatElements
    <2>5. Folded(c) = head \o rest
      BY <2>1, <2>2, <2>3
    <2>6. /\ Folded(c) \in Seq(Item) /\ Len(Folded(c)) = 1 + (Len(c) - s)
          /\ \A i \in 1..1 : Folded(c)[i] = head[i]
          /\ \A i \in 1..Len(c) - s : Folded(c)[1 + i] = c[s + i]
      BY <2>2, <2>3, <2>4, <2>5, <1>2
    <2>7. \A i \in 1..1 : i = 1
      OBVIOUS
    <2>8. Folded(c)[1] = first
      BY <2>2, <2>6
    <2>9. \A i \in 1..1 : Folded(c)[i].role \in {"summary", "carried"} /\ Folded(c)[i].calls = {}
      BY <2>7, <2>8, <1>4
    <2>10. 1 \in {1, 2} /\ (1 = 2 => Folded(c)[2].said = {})
      BY <2>8, <1>4
    <2>11. Folded(c)[1].said = {m \in Message : \E k \in 1..s : m \in c[k].said}
      BY <2>8, <1>3, <1>4
    <2>12. WITNESS 1 \in {1, 2}
    <2>13. QED
      BY <2>6, <2>9, <2>10, <2>11 DEF s
  <1>8. QED
    BY <1>6, <1>7

-----------------------------------------------------------------------------
(* The rounds of a conversation.                                           *)

\* The k-th message is followed by the results of all its calls, n of them,
\* and by no other result.
Full(c, k, n) ==
  /\ k + n <= Len(c) /\ \A j \in k + 1..k + n : c[j].role = "tool"
  /\ k + n < Len(c) => c[k + n + 1].role # "tool"
  /\ Cardinality(c[k].calls) = n
  /\ UNION {c[j].calls : j \in k + 1..k + n} = c[k].calls

\* Of the batch under way the first n results are written down, at the end of
\* the conversation and right behind the message that made the calls.
Noted(n) ==
  /\ n \in 0..Len(batch) /\ n < Len(conv)
  /\ \A i \in Index : batch[i].noted <=> i <= n
  /\ conv[Len(conv) - n].role = "assistant"
  /\ conv[Len(conv) - n].calls = {Id(i) : i \in Index}
  /\ \A i \in 1..n : conv[Len(conv) - n + i] = Result(Id(i))

ResultsNamed == \A i \in 1..Len(conv) : conv[i].role = "tool" => conv[i].calls # {}
CallsNamed == \A i \in 1..Len(conv) : \A id \in conv[i].calls : id[1] <= turn.no
BatchOpen == IF turn.at = "batch" THEN \E n \in Nat : Noted(n) ELSE batch = <<>>
OthersFull ==
  Running => \A k \in Of(turn.no) :
    \/ \E n \in Nat : Full(conv, k, n)
    \/ turn.at = "batch" /\ \E n \in Nat : Noted(n) /\ k = Len(conv) - n

Rounds == ResultsFollowCalls /\ ResultsNamed /\ CallsNamed /\ BatchOpen /\ OthersFull
RoundInv == TypeOK /\ Rounds

\* What a conversation that only grows keeps.
Grows ==
  /\ conv \in Seq(Item) /\ conv' \in Seq(Item) /\ Len(conv') >= Len(conv)
  /\ \A i \in 1..Len(conv) : conv'[i] = conv[i]

\* How many results are written down is a fact of the batch.
LEMMA NotedOnce ==
  ASSUME batch \in Seq(Call), NEW n \in Nat, NEW m \in Nat, Noted(n), Noted(m)
  PROVE  n = m
  <1>1. Len(batch) \in Nat /\ n <= Len(batch) /\ m <= Len(batch)
    BY DEF Noted
  <1>2. \A i \in 1..Len(batch) : (i <= n) <=> (i <= m)
    BY DEF Noted, Index
  <1>3. ~(n < m) /\ ~(m < n)
    BY <1>1, <1>2
  <1>4. QED
    BY <1>3

\* A round that is complete stays complete when something else is said.
LEMMA FullKept ==
  ASSUME NEW c \in Seq(Item), NEW d \in Seq(Item), Len(d) >= Len(c),
         \A i \in 1..Len(c) : d[i] = c[i],
         Len(d) > Len(c) => d[Len(c) + 1].role # "tool",
         NEW k \in 1..Len(c), NEW n \in Nat, Full(c, k, n)
  PROVE  Full(d, k, n)
  <1>1. /\ Len(c) \in Nat /\ Len(d) \in Nat /\ k + n <= Len(c) /\ k \in Nat
        /\ \A j \in k + 1..k + n : j \in 1..Len(c)
    BY DEF Full
  <1>2. k + n <= Len(d) /\ \A j \in k + 1..k + n : d[j].role = "tool"
    BY <1>1 DEF Full
  <1>3. k + n < Len(d) => d[k + n + 1].role # "tool"
    <2>1. CASE k + n = Len(c)
      BY <2>1, <1>1
    <2>2. CASE k + n < Len(c)
      <3>1. k + n + 1 \in 1..Len(c)
        BY <2>2, <1>1
      <3>2. QED
        BY <3>1, <2>2 DEF Full
    <2>3. QED
      BY <2>1, <2>2, <1>1
  <1>4. d[k] = c[k] /\ \A j \in k + 1..k + n : d[j].calls = c[j].calls
    BY <1>1
  <1>5. {d[j].calls : j \in k + 1..k + n} = {c[j].calls : j \in k + 1..k + n}
    BY <1>4
  <1>6. QED
    BY <1>2, <1>3, <1>4, <1>5 DEF Full

\* A message without calls, and without a result behind it, is complete.
LEMMA ProseFull ==
  ASSUME NEW c \in Seq(Item), NEW k \in 1..Len(c), c[k].calls = {},
         k < Len(c) => c[k + 1].role # "tool"
  PROVE  Full(c, k, 0)
  <1>1. \A j \in k + 1..k + 0 : FALSE
    OBVIOUS
  <1>2. {c[j].calls : j \in k + 1..k + 0} = {}
    BY <1>1
  <1>3. Cardinality({}) = 0
    BY FS_EmptySet
  <1>4. k + 0 = k /\ k + 0 + 1 = k + 1 /\ k <= Len(c)
    OBVIOUS
  <1>5. QED
    BY <1>1, <1>2, <1>3, <1>4 DEF Full

\* No result follows a message without calls: each has its call before it.
LEMMA ProseBare ==
  ASSUME conv \in Seq(Item), ResultsFollowCalls, ResultsNamed,
         NEW k \in 1..Len(conv), conv[k].role = "assistant", conv[k].calls = {}
  PROVE  Full(conv, k, 0)
  <1>1. SUFFICES ASSUME k < Len(conv), conv[k + 1].role = "tool"
                 PROVE  FALSE
    BY ProseFull
  <1>2. k + 1 \in 1..Len(conv) /\ conv[k + 1].calls # {}
    BY <1>1 DEF ResultsNamed
  <1>3. PICK o \in 1..k + 1 - 1 :
          /\ conv[k + 1].calls \subseteq conv[o].calls
          /\ \A j \in o + 1..k + 1 : conv[j].role = "tool"
    BY <1>1, <1>2 DEF ResultsFollowCalls
  <1>4. o = k
    <2>1. o < k => k \in o + 1..k + 1
      BY <1>3
    <2>2. o <= k
      BY <1>3
    <2>3. QED
      BY <2>1, <2>2, <1>3
  <1>5. QED
    BY <1>2, <1>3, <1>4

\* The results at the end of the conversation belong to the message before
\* them: it is the only one behind which there are only results.
LEMMA LastCaller ==
  ASSUME conv \in Seq(Item), NEW n \in Nat, n < Len(conv),
         conv[Len(conv) - n].role = "assistant",
         \A i \in 1..n : conv[Len(conv) - n + i].role = "tool",
         NEW k \in 1..Len(conv), conv[k].role = "assistant",
         \A j \in k + 1..Len(conv) : conv[j].role = "tool"
  PROVE  k = Len(conv) - n
  <1> DEFINE o == Len(conv) - n
  <1>1. o \in 1..Len(conv) /\ o \in Nat /\ k \in Nat /\ Len(conv) \in Nat
    OBVIOUS
  <1>2. ~(k < o)
    BY <1>1
  <1>3. ~(o < k)
    <2>1. o < k => k - o \in 1..n /\ o + (k - o) = k
      BY <1>1
    <2>2. QED
      BY <2>1
  <1>4. QED
    BY <1>1, <1>2, <1>3

\* The batch under way, when its results up to the m-th are written down: the
\* results still follow their calls, and the other rounds are as they were.
LEMMA ResultsAdded ==
  ASSUME RoundInv, turn.at = "batch", NEW n \in Nat, Noted(n), NEW m \in n..Len(batch),
         Grows, Len(conv') = Len(conv) + (m - n),
         \A i \in n + 1..m : conv'[Len(conv) - n + i] = Result(Id(i)),
         turn'.no = turn.no
  PROVE  LET k == Len(conv) - n IN
         /\ k \in 1..Len(conv') /\ Len(conv') = k + m
         /\ conv'[k].role = "assistant" /\ conv'[k].calls = {Id(i) : i \in Index}
         /\ \A i \in 1..m : conv'[k + i] = Result(Id(i))
         /\ ResultsFollowCalls' /\ ResultsNamed' /\ CallsNamed'
         /\ \A o \in 1..Len(conv') :
              o # k /\ conv'[o].role = "assistant" => 
                /\ o \in 1..Len(conv) /\ conv'[o] = conv[o]
                /\ \A p \in Nat : Full(conv, o, p) => Full(conv', o, p)
  <1> DEFINE k == Len(conv) - n
  <1>0. /\ conv \in Seq(Item) /\ conv' \in Seq(Item) /\ turn \in Turn /\ batch \in Seq(Call)
        /\ Len(conv) \in Nat /\ Len(conv') \in Nat /\ Len(batch) \in Nat
        /\ n \in Nat /\ m \in Nat /\ n <= m /\ m <= Len(batch) /\ n < Len(conv)
    BY DEF RoundInv, TypeOK, LoopTypeOK, Grows, Noted
  <1>1. k \in 1..Len(conv) /\ k \in 1..Len(conv') /\ Len(conv') = k + m /\ Len(conv) = k + n
    BY <1>0
  <1>2. /\ conv'[k].role = "assistant" /\ conv'[k].calls = {Id(i) : i \in Index}
        /\ conv[k].role = "assistant"
    BY <1>1 DEF Noted, Grows
  <1>3. ASSUME NEW i \in 1..m
        PROVE  conv'[k + i] = Result(Id(i))
    <2>1. CASE i <= n
      <3>1. i \in 1..n /\ k + i \in 1..Len(conv)
        BY <2>1, <1>0, <1>1
      <3>2. conv[k + i] = Result(Id(i))
        BY <3>1 DEF Noted
      <3>3. QED
        BY <3>1, <3>2 DEF Grows
    <2>2. CASE n < i
      <3>1. i \in n + 1..m
        BY <2>2, <1>0
      <3>2. QED
        BY <3>1
    <2>3. QED
      BY <2>1, <2>2, <1>0
  <1>4. ASSUME NEW i \in 1..m
        PROVE  /\ conv'[k + i].role = "tool" /\ conv'[k + i].calls = {Id(i)}
               /\ Id(i) \in conv'[k].calls /\ Id(i)[1] = turn.no
    <2>1. i \in Nat /\ i \in Index
      BY <1>0 DEF Index
    <2>2. Id(i) \in CallId /\ Id(i)[1] = turn.no
      BY <2>1, <1>0, IdTyped
    <2>3. QED
      BY <2>1, <2>2, <1>2, <1>3, ResultTyped
  <1>5. ASSUME NEW j \in k + 1..k + m
        PROVE  j - k \in 1..m /\ k + (j - k) = j
    BY <1>0, <1>1
  <1>6. ASSUME NEW j \in k + 1..k + m
        PROVE  conv'[j].role = "tool"
    <2>1. PICK i \in 1..m : k + i = j
      BY <1>5
    <2>2. conv'[k + i].role = "tool"
      BY <1>4
    <2>3. QED
      BY <2>1, <2>2
  <1>7. ASSUME NEW j \in 1..Len(conv')
        PROVE  j \in 1..k \/ j \in k + 1..k + m
    BY <1>1
  <1>8. ASSUME NEW j \in 1..k
        PROVE  j \in 1..Len(conv) /\ conv'[j] = conv[j]
    <2>1. j \in 1..Len(conv)
      BY <1>1
    <2>2. QED
      BY <2>1 DEF Grows
  <1> HIDE DEF k
  <1>9. ResultsFollowCalls'
    <2> SUFFICES ASSUME NEW i \in 1..Len(conv'), conv'[i].role = "tool"
                 PROVE  \E o \in 1..i - 1 :
                          /\ conv'[i].calls \subseteq conv'[o].calls
                          /\ conv'[o].role = "assistant"
                          /\ \A j \in o + 1..i : conv'[j].role = "tool"
      BY DEF ResultsFollowCalls
    <2>1. CASE i \in 1..k
      <3>1. i \in 1..Len(conv) /\ conv'[i] = conv[i]
        BY <2>1, <1>8
      <3>0. ResultsFollowCalls
        BY DEF RoundInv, Rounds
      <3>2. PICK o \in 1..i - 1 : /\ conv[i].calls \subseteq conv[o].calls
                                  /\ conv[o].role = "assistant"
                                  /\ \A j \in o + 1..i : conv[j].role = "tool"
        BY <3>0, <3>1 DEF ResultsFollowCalls
      <3>3. o \in 1..k /\ \A j \in o + 1..i : j \in 1..k
        BY <2>1, <1>1
      <3>4. conv'[o] = conv[o] /\ \A j \in o + 1..i : conv'[j] = conv[j]
        BY <3>3, <1>8
      <3>5. QED
        BY <3>1, <3>2, <3>4
    <2>2. CASE i \in k + 1..k + m
      <3>1. k \in 1..i - 1 /\ \A j \in k + 1..i : j \in k + 1..k + m
        BY <2>2, <1>1
      <3>2. i - k \in 1..m /\ k + (i - k) = i
        BY <2>2, <1>5
      <3>3. conv'[i].calls \subseteq conv'[k].calls
        BY <3>2, <1>4
      <3>4. QED
        BY <3>1, <3>3, <1>2, <1>6
    <2>3. QED
      BY <2>1, <2>2, <1>7
  <1>10. ResultsNamed'
    <2> SUFFICES ASSUME NEW i \in 1..Len(conv'), conv'[i].role = "tool"
                 PROVE  conv'[i].calls # {}
      BY DEF ResultsNamed
    <2>1. CASE i \in 1..k
      BY <2>1, <1>8 DEF RoundInv, Rounds, ResultsNamed
    <2>2. CASE i \in k + 1..k + m
      <3>1. i - k \in 1..m /\ k + (i - k) = i
        BY <2>2, <1>5
      <3>2. conv'[i].calls = {Id(i - k)}
        BY <3>1, <1>4
      <3>3. QED
        BY <3>2
    <2>3. QED
      BY <2>1, <2>2, <1>7
  <1>11. CallsNamed'
    <2> SUFFICES ASSUME NEW i \in 1..Len(conv'), NEW id \in conv'[i].calls
                 PROVE  id[1] <= turn.no
      BY DEF CallsNamed
    <2>1. CASE i \in 1..k
      BY <2>1, <1>8 DEF RoundInv, Rounds, CallsNamed
    <2>2. CASE i \in k + 1..k + m
      <3>1. i - k \in 1..m /\ k + (i - k) = i
        BY <2>2, <1>5
      <3>2. id = Id(i - k) /\ Id(i - k)[1] = turn.no
        BY <3>1, <1>4
      <3>3. turn.no \in Nat
        BY <1>0 DEF Turn
      <3>4. QED
        BY <3>2, <3>3
    <2>3. QED
      BY <2>1, <2>2, <1>7
  <1>12. ASSUME NEW o \in 1..Len(conv'), o # k, conv'[o].role = "assistant"
         PROVE  /\ o \in 1..Len(conv) /\ conv'[o] = conv[o]
                /\ \A p \in Nat : Full(conv, o, p) => Full(conv', o, p)
    <2>1. o \in 1..k /\ o < k
      <3>1. o \notin k + 1..k + m
        BY <1>6, <1>12
      <3>2. QED
        BY <3>1, <1>7, <1>12, <1>1
    <2>2. o \in 1..Len(conv) /\ conv'[o] = conv[o]
      BY <2>1, <1>8
    <2>3. ASSUME NEW p \in Nat, Full(conv, o, p)
          PROVE  Full(conv', o, p)
      <3>1. /\ o + p <= Len(conv) /\ \A j \in o + 1..o + p : conv[j].role = "tool"
            /\ o + p < Len(conv) => conv[o + p + 1].role # "tool"
        BY <2>3 DEF Full
      <3>2. o + p < k
        <4>1. k \notin o + 1..o + p
          BY <3>1, <1>2
        <4>2. QED
          BY <4>1, <2>1, <1>1
      <3>3. o + p + 1 \in 1..k /\ \A j \in o + 1..o + p : j \in 1..k
        BY <3>2, <2>1, <1>1
      <3>4. conv'[o + p + 1] = conv[o + p + 1] /\ \A j \in o + 1..o + p : conv'[j] = conv[j]
        BY <3>3, <1>8
      <3>5. {conv'[j].calls : j \in o + 1..o + p} = {conv[j].calls : j \in o + 1..o + p}
        BY <3>4
      <3>6. o + p < Len(conv) /\ o + p <= Len(conv')
        BY <3>2, <1>1, <2>1
      <3>7. conv'[o + p + 1].role # "tool" /\ \A j \in o + 1..o + p : conv'[j].role = "tool"
        BY <3>1, <3>4, <3>6
      <3>8. QED
        BY <2>2, <2>3, <3>5, <3>6, <3>7 DEF Full
    <2>4. QED
      BY <2>2, <2>3
  <1>13. QED
    BY <1>1, <1>2, <1>3, <1>9, <1>10, <1>11, <1>12 DEF k

\* A batch makes as many calls as it has.
LEMMA CallsCounted ==
  ASSUME turn \in Turn, batch \in Seq(Call)
  PROVE  Cardinality({Id(i) : i \in Index}) = Len(batch)
  <1> DEFINE T == {Id(i) : i \in Index}
  <1> DEFINE f == [i \in Index |-> Id(i)]
  <1>1. \A i, j \in Index : Id(i) = Id(j) => i = j
    BY DEF Id
  <1>2. f \in [Index -> T] /\ \A i \in Index : f[i] = Id(i)
    OBVIOUS
  <1>3. \A t \in T : \E i \in Index : f[i] = t
    OBVIOUS
  <1> HIDE DEF f, T
  <1>4. f \in Surjection(Index, T)
    BY <1>2, <1>3 DEF Surjection
  <1>5. f \in Injection(Index, T)
    BY <1>1, <1>2 DEF Injection, IsInjective
  <1>6. IsFiniteSet(Index) /\ Cardinality(Index) = Len(batch)
    <2>1. Len(batch) \in Nat
      OBVIOUS
    <2>2. IsFiniteSet(0 + 1..0 + Len(batch)) /\ Cardinality(0 + 1..0 + Len(batch)) = Len(batch)
      BY <2>1, PlacesAfter
    <2>3. Index = 0 + 1..0 + Len(batch)
      BY <2>1 DEF Index
    <2>4. QED
      BY <2>2, <2>3
  <1>7. IsFiniteSet(T) /\ Cardinality(T) = Cardinality(Index)
    BY <1>4, <1>5, <1>6, FS_Surjection
  <1>8. QED
    BY <1>6, <1>7 DEF T

\* A batch whose results are all written down is a complete round.
LEMMA BatchFull ==
  ASSUME turn \in Turn, batch \in Seq(Call), NEW c \in Seq(Item), NEW k \in 1..Len(c),
         Len(c) = k + Len(batch), c[k].calls = {Id(i) : i \in Index},
         \A i \in Index : c[k + i] = Result(Id(i))
  PROVE  Full(c, k, Len(batch))
  <1> DEFINE n == Len(batch)
  <1>1. n \in Nat /\ k \in Nat /\ Index = 1..n
    BY DEF Index
  <1>2. ASSUME NEW i \in 1..n
        PROVE  c[k + i].role = "tool" /\ c[k + i].calls = {Id(i)}
    <2>1. Id(i) \in CallId
      BY IdTyped
    <2>2. QED
      BY <2>1, <1>1, ResultTyped
  <1>3. \A j \in k + 1..k + n : j - k \in 1..n /\ k + (j - k) = j
    BY <1>1
  <1>4. \A i \in 1..n : k + i \in k + 1..k + n
    BY <1>1
  <1>5. \A j \in k + 1..k + n : c[j].role = "tool" /\ c[j].calls = {Id(j - k)}
    BY <1>2, <1>3
  <1>6. UNION {c[j].calls : j \in k + 1..k + n} = {Id(i) : i \in 1..n}
    <2>1. ASSUME NEW i \in 1..n
          PROVE  Id(i) \in UNION {c[j].calls : j \in k + 1..k + n}
      BY <1>2, <1>4
    <2>2. ASSUME NEW j \in k + 1..k + n, NEW id \in c[j].calls
          PROVE  id \in {Id(i) : i \in 1..n}
      BY <1>3, <1>5
    <2>3. QED
      BY <2>1, <2>2
  <1>7. Cardinality(c[k].calls) = n
    BY CallsCounted
  <1>8. k + n <= Len(c) /\ ~(k + n < Len(c))
    BY <1>1
  <1>9. QED
    BY <1>1, <1>5, <1>6, <1>7, <1>8 DEF Full

\* The calls of the batch that have no result are the last ones, and the round
\* is closed with theirs.
LEMMA BreakAnswers ==
  ASSUME turn \in Turn, batch \in Seq(Call), conv \in Seq(Item), NEW n \in Nat, Noted(n)
  PROVE  LET a == AnsweredDangling(conv)
             m == Len(batch) IN
         /\ m \in n..m
         /\ a \in Seq(Item) /\ Len(a) = Len(conv) + (m - n)
         /\ \A i \in 1..Len(conv) : a[i] = conv[i]
         /\ \A i \in n + 1..m : a[Len(conv) - n + i] = Result(Id(i))
  <1> DEFINE m == Len(batch)
  <1> DEFINE k == Len(conv) - n
  <1>0. /\ m \in Nat /\ n <= m /\ Len(conv) \in Nat /\ k \in 1..Len(conv) /\ Len(conv) = k + n
        /\ Index = 1..m
    BY DEF Noted, Index
  <1>1. ASSUME NEW i \in 1..n
        PROVE  conv[k + i].role = "tool" /\ conv[k + i].calls = {Id(i)}
    <2>1. Id(i) \in CallId
      BY IdTyped
    <2>2. conv[k + i] = Result(Id(i))
      BY DEF Noted
    <2>3. QED
      BY <2>1, <2>2, ResultTyped
  <1>2. \A j \in k + 1..Len(conv) : j - k \in 1..n /\ k + (j - k) = j
    BY <1>0
  <1>3. \A j \in k + 1..Len(conv) : conv[j].role = "tool" /\ conv[j].calls = {Id(j - k)}
    BY <1>1, <1>2
  <1>4. conv[k].role = "assistant" /\ conv[k].calls = {Id(i) : i \in 1..m}
    BY <1>0 DEF Noted
  <1>5. \A i, j \in 1..m : Id(i) = Id(j) => i = j
    BY DEF Id
  <1>6. {o \in 1..Len(conv) : /\ conv[o].role = "assistant"
                              /\ \A j \in o + 1..Len(conv) : conv[j].role = "tool"} = {k}
    <2>1. ASSUME NEW o \in 1..Len(conv), conv[o].role = "assistant",
                 \A j \in o + 1..Len(conv) : conv[j].role = "tool"
          PROVE  o = k
      <3>1. \A i \in 1..n : conv[Len(conv) - n + i].role = "tool"
        BY <1>1
      <3>2. n < Len(conv)
        BY DEF Noted
      <3>3. QED
        BY <3>1, <3>2, <1>4, <2>1, LastCaller
    <2>2. QED
      BY <2>1, <1>0, <1>3, <1>4
  <1> DEFINE said == UNION {conv[i].calls : i \in k + 1..Len(conv)}
  <1>7. /\ \A i \in 1..n : Id(i) \in said
        /\ \A id \in said : \E i \in 1..n : id = Id(i)
    <2>1. ASSUME NEW i \in 1..n
          PROVE  Id(i) \in said
      <3>1. k + i \in k + 1..Len(conv)
        BY <1>0
      <3>2. QED
        BY <3>1, <1>1
    <2>2. ASSUME NEW j \in k + 1..Len(conv), NEW id \in conv[j].calls
          PROVE  \E i \in 1..n : id = Id(i)
      BY <1>2, <1>3
    <2>3. QED
      BY <2>1, <2>2
  <1>8. Dangling(conv) = conv[k].calls \ said
    <2>1. Dangling(conv) = UNION {conv[o].calls \ UNION {conv[i].calls : i \in o + 1..Len(conv)} :
                                    o \in {k}}
      BY <1>6 DEF Dangling
    <2>2. QED
      BY <2>1
  <1> DEFINE open == {i \in Index : Id(i) \in Dangling(conv)}
  <1>9. open = n + 1..m
    <2>1. ASSUME NEW i \in 1..m
          PROVE  Id(i) \in Dangling(conv) <=> n < i
      <3>1. Id(i) \in conv[k].calls
        BY <1>4
      <3>2. Id(i) \in said <=> i <= n
        <4>1. ASSUME i <= n
              PROVE  Id(i) \in said
          <5>1. i \in 1..n
            BY <4>1
          <5>2. QED
            BY <5>1, <1>7
        <4>2. ASSUME Id(i) \in said
              PROVE  i <= n
          <5>1. PICK j \in 1..n : Id(i) = Id(j)
            BY <4>2, <1>7
          <5>2. j \in 1..m
            BY <1>0
          <5>3. i = j
            BY <5>1, <5>2, <1>5
          <5>4. QED
            BY <5>3
        <4>3. QED
          BY <4>1, <4>2
      <3>3. i <= n <=> ~(n < i)
        BY <1>0
      <3>4. QED
        BY <3>1, <3>2, <3>3, <1>8
    <2>2. \A i \in n + 1..m : i \in 1..m /\ n < i
      BY <1>0
    <2>3. \A i \in 1..m : n < i => i \in n + 1..m
      BY <1>0
    <2>4. QED
      BY <2>1, <2>2, <2>3, <1>0
  <1> DEFINE nth(x) == CHOOSE i \in open : Cardinality({j \in open : j < i}) = x - 1
  <1> HIDE DEF open, said
  <1>10. Cardinality(open) = m - n
    <2>1. m - n \in Nat /\ n + (m - n) = m
      BY <1>0
    <2>2. Cardinality(n + 1..n + (m - n)) = m - n
      BY <2>1, PlacesAfter
    <2>3. QED
      BY <2>1, <2>2, <1>9
  <1>11. ASSUME NEW x \in 1..m - n
         PROVE  nth(x) = n + x
    <2>1. ASSUME NEW i \in open
          PROVE  Cardinality({j \in open : j < i}) = i - 1 - n
      <3>1. i - 1 - n \in Nat /\ n + (i - 1 - n) = i - 1
        BY <1>0, <1>9
      <3>2. {j \in open : j < i} = n + 1..n + (i - 1 - n)
        BY <1>0, <1>9, <3>1
      <3>3. QED
        BY <3>1, <3>2, PlacesAfter
    <2>2. n + x \in open /\ n + x - 1 - n = x - 1
      BY <1>0, <1>9
    <2>3. ASSUME NEW i \in open, Cardinality({j \in open : j < i}) = x - 1
          PROVE  i = n + x
      <3>1. i - 1 - n = x - 1 /\ i \in Int
        BY <2>1, <2>3, <1>0, <1>9
      <3>2. QED
        BY <3>1
    <2>4. Cardinality({j \in open : j < n + x}) = x - 1
      BY <2>1, <2>2
    <2>5. QED
      BY <2>2, <2>3, <2>4
  <1> HIDE DEF nth
  <1> DEFINE more == [x \in 1..m - n |-> Result(Id(n + x))]
  <1>12. AnsweredDangling(conv) = conv \o more
    <2>1. [x \in 1..Cardinality(open) |-> Result(Id(nth(x)))] = more
      BY <1>10, <1>11
    <2>2. AnsweredDangling(conv) = conv \o [x \in 1..Cardinality(open) |-> Result(Id(nth(x)))]
      BY DEF AnsweredDangling, open, nth
    <2>3. QED
      BY <2>1, <2>2
  <1>13. more \in Seq(Item) /\ Len(more) = m - n /\ \A x \in 1..m - n : more[x] = Result(Id(n + x))
    <2>1. ASSUME NEW x \in 1..m - n
          PROVE  Result(Id(n + x)) \in Item
      <3>1. n + x \in Nat
        BY <1>0
      <3>2. QED
        BY <3>1, IdTyped, ResultTyped
    <2>2. m - n \in Nat
      BY <1>0
    <2>3. QED
      BY <2>1, <2>2
  <1> HIDE DEF more
  <1>14. /\ conv \o more \in Seq(Item) /\ Len(conv \o more) = Len(conv) + Len(more)
         /\ \A i \in 1..Len(conv) : (conv \o more)[i] = conv[i]
         /\ \A i \in 1..Len(more) : (conv \o more)[Len(conv) + i] = more[i]
    <2>1. PICK r \in Seq(Item) : r = more
      BY <1>13
    <2>2. /\ conv \o r \in Seq(Item) /\ Len(conv \o r) = Len(conv) + Len(r)
          /\ \A i \in 1..Len(conv) : (conv \o r)[i] = conv[i]
          /\ \A i \in 1..Len(r) : (conv \o r)[Len(conv) + i] = r[i]
      BY ConcatElements
    <2>3. QED
      BY <2>1, <2>2
  <1>15. ASSUME NEW i \in n + 1..m
         PROVE  (conv \o more)[Len(conv) - n + i] = Result(Id(i))
    <2>1. i - n \in 1..m - n /\ Len(conv) + (i - n) = Len(conv) - n + i /\ n + (i - n) = i
      BY <1>0
    <2>2. (conv \o more)[Len(conv) + (i - n)] = more[i - n] /\ more[i - n] = Result(Id(n + (i - n)))
      BY <2>1, <1>13, <1>14
    <2>3. QED
      BY <2>1, <2>2
  <1>16. QED
    BY <1>0, <1>12, <1>13, <1>14, <1>15

-----------------------------------------------------------------------------
(* Types: what every step leaves.                                          *)

\* A turn that goes on to another point is the same turn.
LEMMA GoToTyped ==
  ASSUME turn \in Turn, NEW p \in Point, GoTo(p)
  PROVE  /\ turn' \in Turn /\ turn'.at = p /\ turn'.no = turn.no /\ turn'.text = turn.text
         /\ turn'.step = turn.step
  BY DEF GoTo, Turn

\* A turn that ends is the same turn, and works on no batch.
LEMMA EndTyped ==
  ASSUME turn \in Turn, NEW how \in Ending, End(how)
  PROVE  /\ turn' \in Turn /\ turn'.at = "done" /\ turn'.no = turn.no /\ turn'.text = turn.text
         /\ batch' = <<>>
  BY DEF End, Turn, Point

\* A turn that failed once more is the same turn.
LEMMA FailureTyped ==
  ASSUME turn \in Turn, NEW p \in Point, turn.failures < MaxFailures,
         turn' = [turn EXCEPT !.at = p, !.failures = @ + 1]
  PROVE  /\ turn' \in Turn /\ turn'.at = p /\ turn'.no = turn.no /\ turn'.text = turn.text
  <1>1. turn.failures + 1 \in 0..MaxFailures
    BY LoopAssumption DEF Turn
  <1>2. QED
    BY <1>1 DEF Turn

\* Winding down: a note for the model and no batch.
LEMMA WindDownTyped ==
  ASSUME turn \in Turn, conv \in Seq(Item), WindDown
  PROVE  /\ turn' \in Turn /\ turn'.at = "landing" /\ turn'.no = turn.no
         /\ turn'.text = turn.text
         /\ conv' = Append(conv, Note) /\ conv' \in Seq(Item) /\ batch' = <<>>
  <1>1. conv' = Append(conv, Note) /\ conv' \in Seq(Item)
    BY NoteTyped DEF WindDown
  <1>2. QED
    BY <1>1 DEF WindDown, Turn, Point

\* A call that comes to another state is the same call, and the others stay.
LEMMA BecomesTyped ==
  ASSUME batch \in Seq(Call), NEW i \in Index,
         NEW at \in {"todo", "asking", "running", "ok", "error"}, Becomes(i, at)
  PROVE  /\ batch' \in Seq(Call) /\ Len(batch') = Len(batch)
         /\ \A j \in Index : batch'[j].noted = batch[j].noted
  <1>1. batch[i] \in Call
    BY DEF Index
  <1>2. [batch[i] EXCEPT !.at = at] \in Call /\ [batch[i] EXCEPT !.at = at].noted = batch[i].noted
    BY <1>1 DEF Call
  <1>3. batch' = [batch EXCEPT ![i] = [batch[i] EXCEPT !.at = at]]
    BY DEF Becomes
  <1>4. QED
    BY <1>2, <1>3 DEF Index

\* The steps of one call leave everything but the batch as it is.
CallStep(i) == Start(i) \/ UserDecides(i) \/ Withdraw(i) \/ ToolEnds(i)

\* What the steps of one call have in common.
LEMMA CallSteps ==
  ASSUME batch \in Seq(Call), NEW i \in Index, CallStep(i)
  PROVE  /\ batch' \in Seq(Call) /\ Len(batch') = Len(batch)
         /\ \A j \in Index : batch'[j].noted = batch[j].noted
         /\ turn.at = "batch"
         /\ UNCHANGED <<conv, turn, queue>>
  <1>1. /\ \E at \in {"todo", "asking", "running", "ok", "error"} : Becomes(i, at)
        /\ UNCHANGED <<conv, turn, queue>> /\ turn.at = "batch"
    BY DEF CallStep, Start, UserDecides, Withdraw, ToolEnds, Due, AtCall
  <1>2. QED
    BY <1>1, BecomesTyped

\* The batch of a reply: its calls wait to be run.
LEMMA BatchTyped ==
  ASSUME turn \in Turn, conv \in Seq(Item), NEW kinds \in Batches,
         batch' = [i \in 1..Len(kinds) |-> [kind |-> kinds[i], at |-> "todo", noted |-> FALSE]],
         conv' = Append(conv, Writes("assistant", {}, {Id(i) : i \in 1..Len(kinds)}))
  PROVE  /\ batch' \in Seq(Call) /\ Len(batch') = Len(kinds)
         /\ \A i \in 1..Len(kinds) : batch'[i].noted = FALSE
         /\ conv' \in Seq(Item) /\ Len(conv') = Len(conv) + 1
         /\ \A i \in 1..Len(conv) : conv'[i] = conv[i]
         /\ conv'[Len(conv) + 1].role = "assistant" /\ conv'[Len(conv) + 1].said = {}
         /\ conv'[Len(conv) + 1].calls = {Id(i) : i \in 1..Len(kinds)}
         /\ \A id \in conv'[Len(conv) + 1].calls : id[1] = turn.no
  <1> DEFINE ids == {Id(i) : i \in 1..Len(kinds)}
  <1>1. kinds \in Seq(CallKind) /\ Len(kinds) \in Nat
    BY LoopAssumption
  <1>2. \A i \in 1..Len(kinds) : Id(i) \in CallId /\ Id(i)[1] = turn.no
    BY <1>1, IdTyped
  <1>3. ids \in SUBSET CallId /\ \A id \in ids : id[1] = turn.no
    BY <1>2
  <1> HIDE DEF ids
  <1>4. PICK x \in Item : /\ x = Writes("assistant", {}, ids) /\ x.role = "assistant"
                          /\ x.said = {} /\ x.calls = ids
    BY <1>3, WritesTyped
  <1>5. conv' = Append(conv, x)
    BY <1>4 DEF ids
  <1>6. \A i \in 1..Len(kinds) : [kind |-> kinds[i], at |-> "todo", noted |-> FALSE] \in Call
    BY <1>1 DEF Call
  <1>7. /\ batch' \in Seq(Call) /\ Len(batch') = Len(kinds)
        /\ \A i \in 1..Len(kinds) : batch'[i].noted = FALSE
    BY <1>1, <1>6
  <1>8. /\ conv' \in Seq(Item) /\ Len(conv') = Len(conv) + 1
        /\ \A i \in 1..Len(conv) : conv'[i] = conv[i]
        /\ conv'[Len(conv) + 1] = x
    BY <1>5
  <1>9. QED
    BY <1>3, <1>4, <1>7, <1>8 DEF ids

\* The steps of a turn that take up none of the user's messages: what they say
\* is the model's, or a note for it.
Quiet ==
  /\ Grows /\ \A i \in Len(conv) + 1..Len(conv') : conv'[i].said = {}
  /\ turn' \in Turn /\ turn'.no = turn.no /\ turn'.text = turn.text
  /\ turn.at \notin {"off", "done", "accepted"} /\ turn'.at \notin {"off", "accepted"}
  /\ batch' \in Seq(Call) /\ queue' = queue

\* A conversation as it was has grown by nothing.
LEMMA GrownByNothing ==
  ASSUME conv \in Seq(Item), conv' = conv
  PROVE  Grows /\ \A i \in Len(conv) + 1..Len(conv') : FALSE
  BY DEF Grows

\* One more item.
LEMMA GrownByOne ==
  ASSUME conv \in Seq(Item), NEW x \in Item, conv' = Append(conv, x)
  PROVE  /\ Grows /\ Len(conv') = Len(conv) + 1
         /\ \A i \in Len(conv) + 1..Len(conv') : conv'[i] = x
  <1>1. /\ conv' \in Seq(Item) /\ Len(conv') = Len(conv) + 1
        /\ \A i \in 1..Len(conv) : conv'[i] = conv[i]
        /\ conv'[Len(conv) + 1] = x
    OBVIOUS
  <1>2. \A i \in Len(conv) + 1..Len(conv') : i = Len(conv) + 1
    BY <1>1
  <1>3. QED
    BY <1>1, <1>2 DEF Grows

\* What closing a broken round adds: nothing when no batch is under way, and
\* else the results the batch lacks.
LEMMA BreakGrows ==
  ASSUME RoundInv, turn.at \in {"batch", "fit"}, conv' = AnsweredDangling(conv)
  PROVE  /\ Grows /\ \A i \in Len(conv) + 1..Len(conv') : conv'[i].said = {}
         /\ turn.at = "fit" => conv' = conv
  <1>0. conv \in Seq(Item) /\ turn \in Turn /\ batch \in Seq(Call)
    BY DEF RoundInv, TypeOK, LoopTypeOK
  <1>1. CASE turn.at = "fit"
    <2>1. batch = <<>>
      BY <1>1 DEF RoundInv, Rounds, BatchOpen
    <2>2. Index = {}
      BY <2>1 DEF Index
    <2> DEFINE open == {i \in Index : Id(i) \in Dangling(conv)}
    <2> DEFINE nth(n) == CHOOSE i \in open : Cardinality({j \in open : j < i}) = n - 1
    <2>3. AnsweredDangling(conv) = conv \o [n \in 1..Cardinality(open) |-> Result(Id(nth(n)))]
      BY DEF AnsweredDangling
    <2>4. open = {}
      BY <2>2
    <2>5. Cardinality(open) = 0
      BY <2>4, FS_EmptySet
    <2> HIDE DEF open, nth
    <2>6. [n \in 1..Cardinality(open) |-> Result(Id(nth(n)))] = <<>>
      BY <2>5
    <2>61. conv \o <<>> = conv
      BY <1>0
    <2>7. conv' = conv
      BY <2>3, <2>6, <2>61
    <2>8. QED
      BY <2>7, <1>0, GrownByNothing
  <1>2. CASE turn.at = "batch"
    <2>1. PICK n \in Nat : Noted(n)
      BY <1>2 DEF RoundInv, Rounds, BatchOpen
    <2> DEFINE m == Len(batch)
    <2>2. /\ m \in n..m /\ conv' \in Seq(Item) /\ Len(conv') = Len(conv) + (m - n)
          /\ \A i \in 1..Len(conv) : conv'[i] = conv[i]
          /\ \A i \in n + 1..m : conv'[Len(conv) - n + i] = Result(Id(i))
      BY <2>1, <1>0, BreakAnswers
    <2>3. Len(conv) \in Nat /\ Len(conv') \in Nat /\ m \in Nat
      BY <2>2, <1>0
    <2> HIDE DEF m
    <2>4. Grows
      BY <1>0, <2>2, <2>3 DEF Grows
    <2>5. ASSUME NEW i \in Len(conv) + 1..Len(conv')
          PROVE  conv'[i].said = {}
      <3>1. i - Len(conv) + n \in n + 1..m /\ Len(conv) - n + (i - Len(conv) + n) = i
        BY <2>2, <2>3
      <3>2. conv'[i] = Result(Id(i - Len(conv) + n)) /\ i - Len(conv) + n \in Nat
        BY <2>2, <3>1
      <3>3. QED
        BY <3>2, <1>0, IdTyped, ResultTyped
    <2>6. QED
      BY <2>4, <2>5, <1>2
  <1>3. QED
    BY <1>1, <1>2

\* One step of a turn: it is quiet, or it takes up the text the turn began with,
\* or what was queued, or the conversation is made to fit.
LEMMA LoopSteps ==
  ASSUME RoundInv, LoopNext
  PROVE  \/ Quiet \/ Prepare \/ Ask
         \/ Fit /\ Foldable(conv) /\ conv' = Folded(conv)
  <1> USE DEF Point, Ending
  <1>0. /\ conv \in Seq(Item) /\ turn \in Turn /\ batch \in Seq(Call) /\ <<>> \in Seq(Call)
        /\ Note \in Item /\ Note.said = {} /\ Prose \in Item /\ Prose.said = {}
    BY NoteTyped DEF RoundInv, TypeOK, LoopTypeOK
  <1>1. CASE StopAtTop \/ StopAtModel \/ GivesUp
    <2>1. \E how \in Ending : End(how)
      BY <1>1 DEF StopAtTop, StopAtModel, GivesUp
    <2>2. /\ conv' = conv /\ queue' = queue
          /\ turn.at \in {"top", "model", "landing", "backoff", "restart"}
      BY <1>1 DEF StopAtTop, StopAtModel, GivesUp
    <2>3. QED
      BY <2>1, <2>2, <1>0, EndTyped, GrownByNothing DEF Quiet
  <1>2. CASE LimitAtTop
    <2>1. WindDown /\ turn.at = "top" /\ queue' = queue
      BY <1>2 DEF LimitAtTop
    <2>2. QED
      BY <2>1, <1>0, WindDownTyped, GrownByOne DEF Quiet
  <1>3. CASE Fit /\ conv' = conv
    <2>1. GoTo("model") /\ turn.at = "fit" /\ queue' = queue /\ batch' = batch
      BY <1>3 DEF Fit
    <2>2. QED
      BY <2>1, <1>0, <1>3, GoToTyped, GrownByNothing DEF Quiet
  <1>4. CASE Unsupported \/ Again
    <2>1. /\ \E p \in {"top", "model"} : GoTo(p)
          /\ turn.at \in {"model", "backoff", "restart"}
          /\ conv' = conv /\ queue' = queue /\ batch' = batch
      BY <1>4 DEF Unsupported, Again
    <2>2. PICK p \in {"top", "model"} : GoTo(p)
      BY <2>1
    <2>3. QED
      BY <2>1, <2>2, <1>0, GoToTyped, GrownByNothing DEF Quiet
  <1>5. CASE ModelFails
    <2>1. turn.at = "model" /\ conv' = conv /\ queue' = queue /\ batch' = batch
      BY <1>5 DEF ModelFails
    <2>2. \/ /\ turn.failures < MaxFailures
             /\ turn' = [turn EXCEPT !.at = "backoff", !.failures = @ + 1]
          \/ GoTo("backoff")
      BY <1>5 DEF ModelFails
    <2>3. turn' \in Turn /\ turn'.at = "backoff" /\ turn'.no = turn.no /\ turn'.text = turn.text
      BY <2>2, <1>0, GoToTyped, FailureTyped
    <2>4. QED
      BY <2>1, <2>3, <1>0, GrownByNothing DEF Quiet
  <1>6. CASE Answers
    <2>1. /\ turn.at \in {"model", "landing"} /\ End("answered") /\ queue' = queue
          /\ conv' = conv \/ conv' = Append(conv, Prose)
      BY <1>6 DEF Answers
    <2>2. Grows /\ \A i \in Len(conv) + 1..Len(conv') : conv'[i].said = {}
      BY <2>1, <1>0, GrownByNothing, GrownByOne
    <2>3. QED
      BY <2>1, <2>2, <1>0, EndTyped DEF Quiet
  <1>7. CASE Correct
    <2>1. /\ turn.at = "model" /\ turn.failures < MaxFailures /\ batch' = batch /\ queue' = queue
          /\ turn' = [turn EXCEPT !.at = "top", !.failures = @ + 1]
          /\ conv' = Append(conv, Note) \/ conv' = conv \o <<Prose, Note>>
      BY <1>7 DEF Correct
    <2>2. turn' \in Turn /\ turn'.at = "top" /\ turn'.no = turn.no /\ turn'.text = turn.text
      BY <2>1, <1>0, FailureTyped
    <2>3. conv' = conv \o <<Prose, Note>> =>
            Grows /\ \A i \in Len(conv) + 1..Len(conv') : conv'[i].said = {}
      <3>1. SUFFICES ASSUME conv' = conv \o <<Prose, Note>>
                     PROVE  Grows /\ \A i \in Len(conv) + 1..Len(conv') : conv'[i].said = {}
        OBVIOUS
      <3>2. <<Prose, Note>> \in Seq(Item)
        BY <1>0
      <3>21. PICK d \in Seq(Item) : d = <<Prose, Note>>
        BY <3>2
      <3>22. Len(d) = 2 /\ d[1] = Prose /\ d[2] = Note
        BY <3>21
      <3>3. /\ conv' \in Seq(Item) /\ Len(conv') = Len(conv) + 2
            /\ \A i \in 1..Len(conv) : conv'[i] = conv[i]
            /\ conv'[Len(conv) + 1] = Prose /\ conv'[Len(conv) + 2] = Note
        BY <3>1, <3>21, <3>22, <1>0
      <3>4. \A i \in Len(conv) + 1..Len(conv') : i = Len(conv) + 1 \/ i = Len(conv) + 2
        BY <3>3, <1>0
      <3>5. QED
        BY <3>3, <3>4, <1>0 DEF Grows
    <2>4. Grows /\ \A i \in Len(conv) + 1..Len(conv') : conv'[i].said = {}
      BY <2>1, <2>3, <1>0, GrownByOne
    <2>5. QED
      BY <2>1, <2>2, <2>4, <1>0 DEF Quiet
  <1>8. CASE Calls
    <2>1. turn.at = "model" /\ queue' = queue
      BY <1>8 DEF Calls
    <2>2. CASE WindDown
      BY <2>1, <2>2, <1>0, WindDownTyped, GrownByOne DEF Quiet
    <2>3. CASE ~WindDown
      <3>1. /\ turn' = [turn EXCEPT !.at = "batch", !.failures = 0]
            /\ \E kinds \in Batches :
                 /\ batch' = [i \in 1..Len(kinds) |->
                                [kind |-> kinds[i], at |-> "todo", noted |-> FALSE]]
                 /\ conv' = Append(conv, Writes("assistant", {}, {Id(i) : i \in 1..Len(kinds)}))
        BY <1>8, <2>3 DEF Calls
      <3>2. 0 \in 0..MaxFailures
        BY LoopAssumption
      <3>3. turn' \in Turn /\ turn'.at = "batch" /\ turn'.no = turn.no /\ turn'.text = turn.text
        BY <3>1, <3>2, <1>0 DEF Turn
      <3>4. /\ batch' \in Seq(Call) /\ conv' \in Seq(Item) /\ Len(conv') = Len(conv) + 1
            /\ \A i \in 1..Len(conv) : conv'[i] = conv[i]
            /\ conv'[Len(conv) + 1].said = {}
        BY <3>1, <1>0, BatchTyped
      <3>5. \A i \in Len(conv) + 1..Len(conv') : i = Len(conv) + 1
        BY <3>4, <1>0
      <3>6. Grows /\ \A i \in Len(conv) + 1..Len(conv') : conv'[i].said = {}
        BY <3>4, <3>5, <1>0 DEF Grows
      <3>7. QED
        BY <2>1, <3>3, <3>4, <3>6 DEF Quiet
    <2>4. QED
      BY <2>2, <2>3
  <1>9. CASE \E i \in Index : CallStep(i)
    <2>1. /\ batch' \in Seq(Call) /\ turn.at = "batch" /\ UNCHANGED <<conv, turn, queue>>
      BY <1>0, <1>9, CallSteps
    <2>2. QED
      BY <2>1, <1>0, GrownByNothing DEF Quiet
  <1>10. CASE StopInBatch
    <2>1. turn.at = "batch" /\ End("cancelled") /\ conv' = conv /\ queue' = queue
      BY <1>10 DEF StopInBatch, Due, AtCall
    <2>2. QED
      BY <2>1, <1>0, EndTyped, GrownByNothing DEF Quiet
  <1>11. CASE Record
    <2>1. PICK i \in Index :
            /\ turn.at = "batch" /\ queue' = queue
            /\ conv' = Append(conv, Result(Id(i)))
            /\ \/ End("completed")
               \/ batch' = [batch EXCEPT ![i].noted = TRUE] /\ turn' = turn
      BY <1>11 DEF Record
    <2>2. Id(i) \in CallId
      BY <1>0, IdTyped DEF Index
    <2>3. Grows /\ \A j \in Len(conv) + 1..Len(conv') : conv'[j].said = {}
      BY <2>1, <2>2, <1>0, ResultTyped, GrownByOne
    <2>4. batch' = [batch EXCEPT ![i].noted = TRUE] => batch' \in Seq(Call)
      <3>1. batch[i] \in Call
        BY <1>0 DEF Index
      <3>2. [batch[i] EXCEPT !.noted = TRUE] \in Call
        BY <3>1 DEF Call
      <3>3. QED
        BY <3>2, <1>0 DEF Index
    <2>5. QED
      BY <2>1, <2>3, <2>4, <1>0, EndTyped DEF Quiet
  <1>12. CASE NextRound
    <2>1. turn.at = "batch" /\ queue' = queue
      BY <1>12 DEF NextRound
    <2>2. \/ End("answered") /\ conv' = conv
          \/ GoTo("top") /\ batch' = <<>> /\ conv' = conv
          \/ WindDown
      BY <1>12 DEF NextRound
    <2>3. CASE End("answered") /\ conv' = conv
      BY <2>1, <2>3, <1>0, EndTyped, GrownByNothing DEF Quiet
    <2>4. CASE GoTo("top") /\ batch' = <<>> /\ conv' = conv
      BY <2>1, <2>4, <1>0, GoToTyped, GrownByNothing DEF Quiet
    <2>5. CASE WindDown
      BY <2>1, <2>5, <1>0, WindDownTyped, GrownByOne DEF Quiet
    <2>6. QED
      BY <2>2, <2>3, <2>4, <2>5
  <1>13. CASE Break
    <2>1. turn.at \in {"batch", "fit"} /\ queue' = queue
      BY <1>13 DEF Break
    <2>2. CASE End("raised") /\ conv' = conv
      BY <2>1, <2>2, <1>0, EndTyped, GrownByNothing DEF Quiet
    <2>3. CASE /\ turn.failures < MaxFailures /\ conv' = AnsweredDangling(conv)
               /\ turn' = [turn EXCEPT !.at = "restart", !.failures = @ + 1] /\ batch' = <<>>
      <3>1. turn' \in Turn /\ turn'.at = "restart" /\ turn'.no = turn.no /\ turn'.text = turn.text
        BY <2>3, <1>0, FailureTyped
      <3>2. Grows /\ \A i \in Len(conv) + 1..Len(conv') : conv'[i].said = {}
        BY <2>1, <2>3, BreakGrows
      <3>3. QED
        BY <2>1, <2>3, <3>1, <3>2, <1>0 DEF Quiet
    <2>4. QED
      BY <1>13, <2>2, <2>3 DEF Break
  <1>14. QED
    BY <1>1, <1>2, <1>3, <1>4, <1>5, <1>6, <1>7, <1>8, <1>9, <1>10, <1>11, <1>12, <1>13
       DEF LoopNext, TurnSteps, ModelReplies, CallStep, Fit

\* The text a turn began with joins the conversation.
LEMMA PrepareSays ==
  ASSUME RoundInv, Prepare
  PROVE  /\ Grows /\ Len(conv') = Len(conv) + 1
         /\ conv'[Len(conv) + 1].role = "user" /\ conv'[Len(conv) + 1].calls = {}
         /\ conv'[Len(conv) + 1].said = turn.text
         /\ turn' \in Turn /\ turn'.at = "top" /\ turn'.text = {} /\ turn'.no = turn.no
  <1>0. conv \in Seq(Item) /\ turn \in Turn /\ turn.text \in SUBSET Message
    BY DEF RoundInv, TypeOK, LoopTypeOK, Turn
  <1>1. PICK x \in Item : /\ x = Writes("user", turn.text, {}) /\ x.role = "user"
                          /\ x.said = turn.text /\ x.calls = {}
    BY <1>0, WritesTyped
  <1>2. conv' = Append(conv, x)
    BY <1>1 DEF Prepare
  <1>3. /\ Grows /\ Len(conv') = Len(conv) + 1 /\ conv'[Len(conv) + 1] = x
    BY <1>0, <1>2, GrownByOne
  <1>4. turn' \in Turn /\ turn'.at = "top" /\ turn'.text = {} /\ turn'.no = turn.no
    BY <1>0 DEF Prepare, Turn, Point
  <1>5. QED
    BY <1>1, <1>3, <1>4

\* What was queued joins the conversation, a message each.
LEMMA AskSays ==
  ASSUME RoundInv, Ask
  PROVE  /\ Grows /\ Len(conv') = Len(conv) + Len(queue)
         /\ \A i \in 1..Len(queue) : LET x == conv'[Len(conv) + i] IN
              x.role = "user" /\ x.calls = {} /\ x.said = {queue[i]}
         /\ \A i \in Len(conv) + 1..Len(conv') : i - Len(conv) \in 1..Len(queue)
         /\ turn' \in Turn /\ turn'.at = "fit" /\ turn'.text = turn.text /\ turn'.no = turn.no
         /\ queue' = <<>>
  <1>0. conv \in Seq(Item) /\ turn \in Turn /\ queue \in Seq(Message)
    BY DEF RoundInv, TypeOK, LoopTypeOK
  <1> DEFINE news == [i \in 1..Len(queue) |-> Writes("user", {queue[i]}, {})]
  <1>1. ASSUME NEW i \in 1..Len(queue)
        PROVE  LET x == Writes("user", {queue[i]}, {}) IN
               x \in Item /\ x.role = "user" /\ x.calls = {} /\ x.said = {queue[i]}
    <2>1. {queue[i]} \in SUBSET Message
      BY <1>0
    <2>2. QED
      BY <2>1, WritesTyped
  <1>2. /\ news \in Seq(Item) /\ Len(news) = Len(queue)
        /\ \A i \in 1..Len(queue) : news[i] = Writes("user", {queue[i]}, {})
    BY <1>0, <1>1
  <1>3. conv' = conv \o news
    BY DEF Ask
  <1> HIDE DEF news
  <1>4. PICK d \in Seq(Item) : d = news
    BY <1>2
  <1>5. /\ conv \o d \in Seq(Item) /\ Len(conv \o d) = Len(conv) + Len(d)
        /\ \A i \in 1..Len(conv) : (conv \o d)[i] = conv[i]
        /\ \A i \in 1..Len(d) : (conv \o d)[Len(conv) + i] = d[i]
    BY <1>0, ConcatElements
  <1>6. conv' = conv \o d /\ Len(d) = Len(queue) /\ Len(queue) \in Nat /\ Len(conv) \in Nat
    BY <1>0, <1>2, <1>3, <1>4
  <1>7. \A i \in 1..Len(queue) : conv'[Len(conv) + i] = Writes("user", {queue[i]}, {})
    BY <1>2, <1>4, <1>5, <1>6
  <1>8. Grows /\ Len(conv') = Len(conv) + Len(queue)
    BY <1>0, <1>5, <1>6 DEF Grows
  <1>9. \A i \in Len(conv) + 1..Len(conv') : i - Len(conv) \in 1..Len(queue)
    BY <1>6, <1>8
  <1>10. turn' \in Turn /\ turn'.at = "fit" /\ turn'.text = turn.text /\ turn'.no = turn.no
    <2>1. turn.step + 1 \in Nat
      BY <1>0 DEF Turn
    <2>2. QED
      BY <1>0, <2>1 DEF Ask, Turn, Point
  <1>11. queue' = <<>>
    BY DEF Ask, Delivered
  <1>12. QED
    BY <1>1, <1>7, <1>8, <1>9, <1>10, <1>11

\* The variables keep their types.
LEMMA TypeStep ==
  ASSUME RoundInv, [Next]_vars
  PROVE  TypeOK'
  <1>0. /\ conv \in Seq(Item) /\ turn \in Turn /\ batch \in Seq(Call) /\ queue \in Seq(Message)
        /\ followups \in Seq(Message) /\ line \in Seq(SUBSET Message) /\ stopping \in BOOLEAN
        /\ past \in [typed : 0..MaxMessages, dropped : SUBSET Message, stops : 0..MaxStops]
        /\ <<>> \in Seq(Message)
    BY DEF RoundInv, TypeOK, LoopTypeOK
  <1>1. CASE Loop(LoopNext)
    <2>0. UNCHANGED <<followups, line, stopping, past>>
      BY <1>1 DEF Loop, sessionVars
    <2>1. conv' \in Seq(Item) /\ turn' \in Turn /\ batch' \in Seq(Call) /\ queue' \in Seq(Message)
      <3>1. CASE Quiet
        BY <3>1, <1>0 DEF Quiet, Grows
      <3>2. CASE Prepare
        BY <3>2, <1>0, PrepareSays DEF Grows, Prepare
      <3>3. CASE Ask
        BY <3>3, <1>0, AskSays DEF Grows, Ask
      <3>4. CASE Fit /\ Foldable(conv) /\ conv' = Folded(conv)
        <4>1. conv' \in Seq(Item)
          BY <3>4, <1>0, FoldedElements
        <4>2. GoTo("model") /\ batch' = batch /\ queue' = queue
          BY <3>4 DEF Fit
        <4>3. turn' \in Turn
          BY <4>2, <1>0, GoToTyped DEF Point
        <4>4. QED
          BY <4>1, <4>2, <4>3, <1>0
      <3>5. QED
        BY <3>1, <3>2, <3>3, <3>4, <1>1, LoopSteps DEF Loop
    <2>2. QED
      BY <2>0, <2>1, <1>0 DEF TypeOK, LoopTypeOK
  <1>2. ASSUME NEW m \in Message, Submit(m)
        PROVE  TypeOK'
    <2>1. /\ m \in 0..MaxMessages /\ past' = [past EXCEPT !.typed = m]
          /\ UNCHANGED <<conv, batch, stopping>>
      BY <1>2, LoopAssumption DEF Submit, Message
    <2>2. past' \in [typed : 0..MaxMessages, dropped : SUBSET Message, stops : 0..MaxStops]
      BY <2>1, <1>0
    <2>3. {m} \in SUBSET Message
      OBVIOUS
    <2>41. /\ Append(queue, m) \in Seq(Message) /\ Append(followups, m) \in Seq(Message)
           /\ Append(line, {m}) \in Seq(SUBSET Message) /\ NewTurn({m}) \in Turn
      BY <2>3, <1>0, NewTyped
    <2>42. /\ queue' \in {queue, Append(queue, m)} /\ followups' \in {followups, Append(followups, m)}
           /\ line' \in {line, Append(line, {m})} /\ turn' \in {turn, NewTurn({m})}
      BY <1>2 DEF Submit
    <2>4. /\ queue' \in Seq(Message) /\ followups' \in Seq(Message)
          /\ line' \in Seq(SUBSET Message) /\ turn' \in Turn
      BY <2>41, <2>42, <1>0
    <2>5. QED
      BY <2>1, <2>2, <2>4, <1>0 DEF TypeOK, LoopTypeOK
  <1>3. ASSUME NEW i \in 1..Len(followups), Promote(i)
        PROVE  TypeOK'
    <2>1. UNCHANGED <<conv, turn, batch, line, stopping, past>> /\ followups[i] \in Message
      BY <1>3, <1>0 DEF Promote
    <2>2. queue' \in Seq(Message)
      BY <1>3, <2>1, <1>0 DEF Promote
    <2>3. followups' \in Seq(Message)
      BY <1>3, <1>0, WithoutElements DEF Promote
    <2>4. QED
      BY <2>1, <2>2, <2>3, <1>0 DEF TypeOK, LoopTypeOK
  <1>4. CASE StartTurn
    <2>1. /\ Head(line) \in SUBSET Message /\ Tail(line) \in Seq(SUBSET Message)
      BY <1>4, <1>0 DEF StartTurn
    <2>2. turn' \in Turn /\ line' \in Seq(SUBSET Message)
      BY <1>4, <2>1, <1>0, NewTyped DEF StartTurn
    <2>3. UNCHANGED <<conv, batch, queue, followups, stopping, past>>
      BY <1>4 DEF StartTurn
    <2>4. QED
      BY <2>2, <2>3, <1>0 DEF TypeOK, LoopTypeOK
  <1>5. CASE TurnReturns
    <2>0. UNCHANGED <<conv, batch, stopping>>
      BY <1>5 DEF TurnReturns
    <2>1. Texts(queue) \in SUBSET Message /\ Texts(followups) \in SUBSET Message
      BY <1>0 DEF Texts
    <2>2. ASSUME NEW text \in SUBSET Message, GoOnWith(text)
          PROVE  turn' \in Turn /\ line' \in Seq(SUBSET Message)
      <3>1. NewTurn(text) \in Turn /\ NoTurn(turn.no) \in Turn /\ Append(line, text) \in Seq(SUBSET Message)
        BY <1>0, NewTyped
      <3>2. turn' \in {NewTurn(text), NoTurn(turn.no)} /\ line' \in {line, Append(line, text)}
        BY <2>2 DEF GoOnWith
      <3>3. QED
        BY <3>1, <3>2, <1>0
    <2>3. turn' \in Turn /\ line' \in Seq(SUBSET Message)
      <3>1. CASE turn' = NoTurn(turn.no) /\ line' = line
        BY <3>1, <1>0, NewTyped
      <3>2. CASE turn' = [NoTurn(turn.no) EXCEPT !.end = "raised"] /\ line' = line
        BY <3>2, <1>0, NewTyped
      <3>3. CASE GoOnWith(Texts(queue))
        BY <3>3, <2>1, <2>2
      <3>4. CASE followups # <<>> /\ GoOnWith({Head(followups)})
        <4>1. {Head(followups)} \in SUBSET Message
          BY <3>4, <1>0
        <4>2. QED
          BY <3>4, <4>1, <2>2
      <3>5. QED
        BY <1>5, <3>1, <3>2, <3>3, <3>4 DEF TurnReturns, Left
    <2>4. queue' \in Seq(Message) /\ followups' \in Seq(Message)
      <3>1. queue' \in {queue, <<>>}
        BY <1>5 DEF TurnReturns
      <3>2. \/ followups' \in {followups, <<>>}
            \/ followups # <<>> /\ followups' = Tail(followups)
        BY <1>5 DEF TurnReturns, Left
      <3>3. followups # <<>> => Tail(followups) \in Seq(Message)
        BY <1>0
      <3>4. QED
        BY <3>1, <3>2, <3>3, <1>0
    <2>5. past' \in [typed : 0..MaxMessages, dropped : SUBSET Message, stops : 0..MaxStops]
      <3>1. CASE past' = past
        BY <3>1, <1>0
      <3>2. CASE past' = [past EXCEPT !.dropped = @ \cup Texts(queue) \cup Texts(followups)]
        BY <3>2, <2>1, <1>0
      <3>3. QED
        BY <1>5, <3>1, <3>2 DEF TurnReturns
    <2>6. QED
      BY <2>0, <2>3, <2>4, <2>5, <1>0 DEF TypeOK, LoopTypeOK
  <1>6. CASE PressStop
    <2>1. past.stops + 1 \in 0..MaxStops
      BY <1>6, <1>0, SessionAssumption DEF PressStop
    <2>2. /\ UNCHANGED <<conv, turn, batch, queue, followups, line>> /\ stopping' \in BOOLEAN
          /\ past' = [past EXCEPT !.stops = @ + 1]
      BY <1>6 DEF PressStop
    <2>3. past' \in [typed : 0..MaxMessages, dropped : SUBSET Message, stops : 0..MaxStops]
      BY <2>1, <2>2, <1>0
    <2>4. QED
      BY <2>2, <2>3, <1>0 DEF TypeOK, LoopTypeOK
  <1>7. CASE StopLands
    <2>1. UNCHANGED <<conv, batch, queue, followups, line, past>> /\ stopping' \in BOOLEAN
      BY <1>7 DEF StopLands
    <2>2. turn' \in Turn
      BY <1>7, <1>0 DEF StopLands, Turn
    <2>3. QED
      BY <2>1, <2>2, <1>0 DEF TypeOK, LoopTypeOK
  <1>8. CASE UNCHANGED vars
    BY <1>8, <1>0 DEF vars, TypeOK, LoopTypeOK
  <1>9. QED
    BY <1>1, <1>2, <1>3, <1>4, <1>5, <1>6, <1>7, <1>8 DEF Next

-----------------------------------------------------------------------------
(* The rounds, step by step.                                               *)

\* What is added and is no result: the results still follow their calls, and
\* the complete rounds stay complete.
LEMMA Added ==
  ASSUME RoundInv, Grows, turn'.no = turn.no,
         \A i \in Len(conv) + 1..Len(conv') :
           conv'[i].role # "tool" /\ \A id \in conv'[i].calls : id[1] <= turn.no
  PROVE  /\ ResultsFollowCalls' /\ ResultsNamed' /\ CallsNamed'
         /\ \A k \in 1..Len(conv), n \in Nat : Full(conv, k, n) => Full(conv', k, n)
         /\ \A k \in Len(conv) + 1..Len(conv') : conv'[k].calls = {} => Full(conv', k, 0)
  <1>0. /\ conv \in Seq(Item) /\ conv' \in Seq(Item) /\ Len(conv) \in Nat /\ Len(conv') \in Nat
        /\ Len(conv') >= Len(conv) /\ \A i \in 1..Len(conv) : conv'[i] = conv[i]
    BY DEF Grows
  <1>1. \A i \in 1..Len(conv') : i \in 1..Len(conv) \/ i \in Len(conv) + 1..Len(conv')
    BY <1>0
  <1>2. ResultsFollowCalls'
    <2> SUFFICES ASSUME NEW i \in 1..Len(conv'), conv'[i].role = "tool"
                 PROVE  \E o \in 1..i - 1 :
                          /\ conv'[i].calls \subseteq conv'[o].calls
                          /\ conv'[o].role = "assistant"
                          /\ \A j \in o + 1..i : conv'[j].role = "tool"
      BY DEF ResultsFollowCalls
    <2>1. i \in 1..Len(conv) /\ conv'[i] = conv[i]
      BY <1>0, <1>1
    <2>2. PICK o \in 1..i - 1 : /\ conv[i].calls \subseteq conv[o].calls
                                /\ conv[o].role = "assistant"
                                /\ \A j \in o + 1..i : conv[j].role = "tool"
      BY <2>1 DEF RoundInv, Rounds, ResultsFollowCalls
    <2>3. o \in 1..Len(conv) /\ \A j \in o + 1..i : j \in 1..Len(conv)
      BY <2>1, <1>0
    <2>4. conv'[o] = conv[o] /\ \A j \in o + 1..i : conv'[j] = conv[j]
      BY <2>3, <1>0
    <2>5. QED
      BY <2>1, <2>2, <2>4
  <1>3. ResultsNamed'
    BY <1>0, <1>1 DEF RoundInv, Rounds, ResultsNamed
  <1>4. CallsNamed'
    BY <1>0, <1>1 DEF RoundInv, Rounds, CallsNamed
  <1>5. Len(conv') > Len(conv) => conv'[Len(conv) + 1].role # "tool"
    BY <1>0
  <1>6. ASSUME NEW k \in 1..Len(conv), NEW n \in Nat, Full(conv, k, n)
        PROVE  Full(conv', k, n)
    BY <1>0, <1>5, <1>6, FullKept
  <1>7. ASSUME NEW k \in Len(conv) + 1..Len(conv'), conv'[k].calls = {}
        PROVE  Full(conv', k, 0)
    <2>1. k \in 1..Len(conv') /\ (k < Len(conv') => k + 1 \in Len(conv) + 1..Len(conv'))
      BY <1>0
    <2>2. k < Len(conv') => conv'[k + 1].role # "tool"
      BY <2>1
    <2>3. QED
      BY <2>1, <2>2, <1>0, <1>7, ProseFull
  <1>8. QED
    BY <1>2, <1>3, <1>4, <1>6, <1>7

\* Outside a batch every round of the turn is complete.
LEMMA NoBatchFull ==
  ASSUME RoundInv, Running, turn.at # "batch", NEW k \in Of(turn.no)
  PROVE  \E n \in Nat : Full(conv, k, n)
  BY DEF RoundInv, Rounds, OthersFull

\* A turn whose rounds are complete goes on, and what it adds makes no calls.
LEMMA SaysOn ==
  ASSUME RoundInv, Grows, turn'.no = turn.no,
         \A k \in Of(turn.no) : \E n \in Nat : Full(conv, k, n),
         \A i \in Len(conv) + 1..Len(conv') : conv'[i].role # "tool" /\ conv'[i].calls = {},
         turn'.at # "batch", batch' = <<>>
  PROVE  Rounds'
  <1>1. /\ ResultsFollowCalls' /\ ResultsNamed' /\ CallsNamed'
        /\ \A k \in 1..Len(conv), n \in Nat : Full(conv, k, n) => Full(conv', k, n)
        /\ \A k \in Len(conv) + 1..Len(conv') : conv'[k].calls = {} => Full(conv', k, 0)
    BY Added
  <1>2. ASSUME NEW k \in Of(turn.no)'
        PROVE  \E n \in Nat : Full(conv', k, n)
    <2>1. /\ k \in 1..Len(conv') /\ conv'[k].role = "assistant"
          /\ \A id \in conv'[k].calls : id[1] = turn.no
      BY <1>2 DEF Of
    <2>2. CASE k \in 1..Len(conv)
      <3>1. conv'[k] = conv[k]
        BY <2>2 DEF Grows
      <3>2. k \in Of(turn.no)
        BY <2>1, <2>2, <3>1 DEF Of
      <3>3. \E n \in Nat : Full(conv, k, n)
        BY <3>2
      <3>4. QED
        BY <3>3, <2>2, <1>1
    <2>3. CASE k \in Len(conv) + 1..Len(conv')
      BY <2>3, <1>1
    <2>4. Len(conv) \in Nat /\ Len(conv') \in Nat
      BY DEF Grows
    <2>5. QED
      BY <2>1, <2>2, <2>3, <2>4
  <1>3. OthersFull'
    BY <1>2 DEF OthersFull, Of
  <1>4. QED
    BY <1>1, <1>3 DEF Rounds, BatchOpen

\* A turn ends, or has ended: what is said of its rounds does not matter any more.
LEMMA RoundsOver ==
  ASSUME RoundInv, Grows, turn'.no = turn.no,
         \A i \in Len(conv) + 1..Len(conv') : conv'[i].role # "tool" /\ conv'[i].calls = {},
         turn'.at \in {"off", "done"}, batch' = <<>>
  PROVE  Rounds'
  <1>1. ResultsFollowCalls' /\ ResultsNamed' /\ CallsNamed'
    BY Added
  <1>2. QED
    BY <1>1 DEF Rounds, BatchOpen, OthersFull, Running

\* A turn begins: no call bears its number yet.
LEMMA RoundsBegin ==
  ASSUME RoundInv, turn.at \in {"off", "done"}, conv' = conv, batch' = batch,
         turn'.no = turn.no + 1, turn'.at = "accepted"
  PROVE  Rounds'
  <1>0. conv \in Seq(Item) /\ turn \in Turn /\ turn.no \in Nat
    BY DEF RoundInv, TypeOK, LoopTypeOK, Turn
  <1>1. ResultsFollowCalls' /\ ResultsNamed'
    BY DEF RoundInv, Rounds, ResultsFollowCalls, ResultsNamed
  <1>2. ASSUME NEW i \in 1..Len(conv), NEW id \in conv[i].calls
        PROVE  id[1] \in Nat /\ id[1] <= turn.no /\ id[1] <= turn.no + 1 /\ id[1] # turn.no + 1
    <2>0. conv[i] \in Item
      BY <1>0
    <2>1. id \in CallId
      BY <2>0 DEF Item
    <2>2. id[1] \in Nat
      BY <2>1 DEF CallId
    <2>3. id[1] <= turn.no
      BY DEF RoundInv, Rounds, CallsNamed
    <2>4. QED
      BY <2>2, <2>3, <1>0
  <1>3. CallsNamed'
    BY <1>2 DEF CallsNamed
  <1>4. ASSUME NEW k \in Of(turn.no + 1)
        PROVE  Full(conv, k, 0)
    <2>1. k \in 1..Len(conv) /\ conv[k].role = "assistant" /\ conv[k].calls = {}
      BY <1>2, <1>4 DEF Of
    <2>2. QED
      BY <2>1, <1>0, ProseBare DEF RoundInv, Rounds
  <1>5. OthersFull'
    BY <1>4 DEF OthersFull, Of
  <1>6. BatchOpen'
    BY DEF RoundInv, Rounds, BatchOpen
  <1>7. QED
    BY <1>1, <1>3, <1>5, <1>6 DEF Rounds

\* Nothing happens to the rounds.
LEMMA RoundsStay ==
  ASSUME RoundInv, conv' = conv, turn'.at = turn.at, turn'.no = turn.no,
         turn'.step = turn.step, Len(batch') = Len(batch), batch' \in Seq(Call),
         \A i \in Index : batch'[i].noted = batch[i].noted
  PROVE  Rounds'
  <1>0. /\ conv \in Seq(Item) /\ turn \in Turn /\ batch \in Seq(Call)
    BY DEF RoundInv, TypeOK, LoopTypeOK
  <1>1. ResultsFollowCalls' /\ ResultsNamed' /\ CallsNamed'
    <2>1. ResultsFollowCalls /\ ResultsNamed /\ CallsNamed
      BY DEF RoundInv, Rounds
    <2>2. ResultsFollowCalls'
      BY <2>1 DEF ResultsFollowCalls
    <2>3. ResultsNamed'
      BY <2>1 DEF ResultsNamed
    <2>4. CallsNamed'
      BY <2>1 DEF CallsNamed
    <2>5. QED
      BY <2>2, <2>3, <2>4
  <1>2. ASSUME NEW n \in Nat, Noted(n)
        PROVE  Noted(n)'
    BY <1>2 DEF Noted, Index, Id
  <1>3. BatchOpen'
    <2>1. CASE turn.at = "batch"
      BY <2>1, <1>2 DEF RoundInv, Rounds, BatchOpen
    <2>2. CASE turn.at # "batch"
      <3>1. batch = <<>>
        BY <2>2 DEF RoundInv, Rounds, BatchOpen
      <3>2. batch' = <<>>
        BY <3>1
      <3>3. QED
        BY <2>2, <3>2 DEF BatchOpen
    <2>3. QED
      BY <2>1, <2>2
  <1>4. OthersFull'
    <2> SUFFICES ASSUME Running, NEW k \in Of(turn.no)
                 PROVE  \/ \E n \in Nat : Full(conv, k, n)
                        \/ turn.at = "batch" /\ \E n \in Nat : Noted(n)' /\ k = Len(conv) - n
      BY DEF OthersFull, Running, Of
    <2>1. \/ \E n \in Nat : Full(conv, k, n)
          \/ turn.at = "batch" /\ \E n \in Nat : Noted(n) /\ k = Len(conv) - n
      BY DEF RoundInv, Rounds, OthersFull
    <2>2. QED
      BY <2>1, <1>2
  <1>5. QED
    BY <1>1, <1>3, <1>4 DEF Rounds

\* When all its results are written down, the batch under way is a complete round.
LEMMA BatchDoneFull ==
  ASSUME RoundInv, turn.at = "batch", \A i \in Index : batch[i].noted,
         Running, NEW k \in Of(turn.no)
  PROVE  \E n \in Nat : Full(conv, k, n)
  <1>0. /\ conv \in Seq(Item) /\ turn \in Turn /\ batch \in Seq(Call) /\ Len(batch) \in Nat
        /\ Len(conv) \in Nat
    BY DEF RoundInv, TypeOK, LoopTypeOK
  <1>1. SUFFICES ASSUME NEW n \in Nat, Noted(n), k = Len(conv) - n
                 PROVE  Full(conv, k, Len(batch))
    BY <1>0 DEF RoundInv, Rounds, OthersFull
  <1>2. n = Len(batch)
    <2>1. n \in 0..Len(batch) /\ \A i \in 1..Len(batch) : i <= n
      BY <1>1 DEF Noted, Index
    <2>2. QED
      BY <2>1, <1>0
  <1>3. /\ k \in 1..Len(conv) /\ Len(conv) = k + Len(batch)
        /\ conv[k].calls = {Id(i) : i \in Index}
    BY <1>0, <1>1, <1>2 DEF Noted
  <1>4. \A i \in Index : conv[k + i] = Result(Id(i))
    BY <1>1, <1>2 DEF Noted, Index
  <1>5. QED
    BY <1>0, <1>3, <1>4, BatchFull

\* A broken round is closed: the turn's rounds are complete when its step is
\* begun again.
LEMMA BreakRounds ==
  ASSUME RoundInv, turn.at \in {"batch", "fit"}, conv' = AnsweredDangling(conv),
         turn'.no = turn.no, turn'.at = "restart", batch' = <<>>
  PROVE  Rounds'
  <1>0. /\ conv \in Seq(Item) /\ turn \in Turn /\ batch \in Seq(Call) /\ Len(batch) \in Nat
        /\ Running
    BY DEF RoundInv, TypeOK, LoopTypeOK, Running
  <1>1. Grows /\ (turn.at = "fit" => conv' = conv)
    BY BreakGrows
  <1>2. CASE turn.at = "fit"
    <2>1. \A i \in Len(conv) + 1..Len(conv') : FALSE
      BY <1>0, <1>1, <1>2, GrownByNothing
    <2>2. \A k \in Of(turn.no) : \E n \in Nat : Full(conv, k, n)
      BY <1>0, <1>2, NoBatchFull
    <2>3. QED
      BY <1>1, <2>1, <2>2, SaysOn
  <1>3. CASE turn.at = "batch"
    <2> DEFINE m == Len(batch)
    <2>1. PICK n \in Nat : Noted(n)
      BY <1>3 DEF RoundInv, Rounds, BatchOpen
    <2> DEFINE k == Len(conv) - n
    <2>2. /\ m \in n..m /\ Len(conv') = Len(conv) + (m - n)
          /\ \A i \in n + 1..m : conv'[Len(conv) - n + i] = Result(Id(i))
      BY <2>1, <1>0, BreakAnswers
    <2>3. /\ k \in 1..Len(conv') /\ Len(conv') = k + m
          /\ conv'[k].role = "assistant" /\ conv'[k].calls = {Id(i) : i \in Index}
          /\ \A i \in 1..m : conv'[k + i] = Result(Id(i))
          /\ ResultsFollowCalls' /\ ResultsNamed' /\ CallsNamed'
          /\ \A o \in 1..Len(conv') :
               o # k /\ conv'[o].role = "assistant" =>
                 /\ o \in 1..Len(conv) /\ conv'[o] = conv[o]
                 /\ \A p \in Nat : Full(conv, o, p) => Full(conv', o, p)
      BY <1>1, <1>3, <2>1, <2>2, ResultsAdded
    <2>4. Full(conv', k, m)
      BY <2>3, <1>0, <1>1, BatchFull DEF Grows, Index
    <2>5. ASSUME NEW o \in Of(turn.no)'
          PROVE  \E p \in Nat : Full(conv', o, p)
      <3>1. /\ o \in 1..Len(conv') /\ conv'[o].role = "assistant"
            /\ \A id \in conv'[o].calls : id[1] = turn.no
        BY <2>5 DEF Of
      <3>2. CASE o = k
        BY <3>2, <2>4, <1>0
      <3>3. CASE o # k
        <4>1. o \in 1..Len(conv) /\ conv'[o] = conv[o]
          BY <3>1, <3>3, <2>3
        <4>2. o \in Of(turn.no)
          BY <4>1, <3>1 DEF Of
        <4>3. \/ \E p \in Nat : Full(conv, o, p)
              \/ \E p \in Nat : Noted(p) /\ o = Len(conv) - p
          BY <4>2, <1>0 DEF RoundInv, Rounds, OthersFull
        <4>4. \A p \in Nat : Noted(p) => p = n
          BY <2>1, <1>0, NotedOnce
        <4>5. \E p \in Nat : Full(conv, o, p)
          BY <4>3, <4>4, <3>3
        <4>6. QED
          BY <4>5, <3>1, <3>3, <2>3
      <3>4. QED
        BY <3>2, <3>3
    <2>6. OthersFull'
      BY <2>5 DEF OthersFull, Of
    <2>7. QED
      BY <2>3, <2>6 DEF Rounds, BatchOpen
  <1>4. QED
    BY <1>2, <1>3

\* One more result is written down.
LEMMA RecordRounds ==
  ASSUME RoundInv, Record, TypeOK'
  PROVE  Rounds'
  <1>0. /\ conv \in Seq(Item) /\ turn \in Turn /\ batch \in Seq(Call) /\ Len(batch) \in Nat
        /\ Len(conv) \in Nat /\ batch' \in Seq(Call)
    BY DEF RoundInv, TypeOK, LoopTypeOK
  <1>1. PICK i \in Index :
          /\ turn.at = "batch" /\ ~batch[i].noted /\ \A j \in 1..i - 1 : batch[j].noted
          /\ conv' = Append(conv, Result(Id(i)))
          /\ \/ End("completed")
             \/ batch' = [batch EXCEPT ![i].noted = TRUE] /\ turn' = turn
    BY DEF Record
  <1>2. PICK n \in Nat : Noted(n)
    BY <1>1 DEF RoundInv, Rounds, BatchOpen
  <1> DEFINE k == Len(conv) - n
  <1>3. i = n + 1 /\ n + 1 \in n..Len(batch) /\ n < Len(batch)
    <2>1. i \in 1..Len(batch) /\ ~(i <= n)
      BY <1>1, <1>2 DEF Noted, Index
    <2>2. n <= Len(batch) /\ \A j \in 1..i - 1 : j <= n
      <3>1. \A j \in 1..i - 1 : j \in 1..Len(batch) /\ batch[j].noted
        BY <2>1, <1>0, <1>1
      <3>2. n <= Len(batch) /\ \A j \in 1..Len(batch) : batch[j].noted => j <= n
        BY <1>0, <1>2 DEF Noted, Index
      <3>3. QED
        BY <3>1, <3>2
    <2>3. i - 1 <= n
      BY <2>1, <2>2, <1>0
    <2>4. QED
      BY <2>1, <2>2, <2>3, <1>0
  <1>4. Id(i) \in CallId /\ turn'.no = turn.no
    BY <1>0, <1>1, <1>3, IdTyped, EndTyped DEF Ending
  <1>5. PICK x \in Item : x = Result(Id(i))
    BY <1>4, ResultTyped
  <1>6. Grows /\ Len(conv') = Len(conv) + (n + 1 - n) /\ conv'[Len(conv) + 1] = Result(Id(i))
    <2>1. /\ Grows /\ Len(conv') = Len(conv) + 1
          /\ \A j \in Len(conv) + 1..Len(conv') : conv'[j] = x
      BY <1>0, <1>1, <1>5, GrownByOne
    <2>2. Len(conv) + 1 \in Len(conv) + 1..Len(conv')
      BY <2>1, <1>0
    <2>3. n + 1 - n = 1
      OBVIOUS
    <2>4. QED
      BY <2>1, <2>2, <2>3, <1>5
  <1>7. \A j \in n + 1..n + 1 : conv'[Len(conv) - n + j] = Result(Id(j))
    <2>1. \A j \in n + 1..n + 1 : j = i /\ Len(conv) - n + j = Len(conv) + 1
      BY <1>0, <1>3
    <2>2. QED
      BY <2>1, <1>6
  <1>8. /\ k \in 1..Len(conv') /\ Len(conv') = k + (n + 1)
        /\ conv'[k].role = "assistant" /\ conv'[k].calls = {Id(j) : j \in Index}
        /\ \A j \in 1..n + 1 : conv'[k + j] = Result(Id(j))
        /\ ResultsFollowCalls' /\ ResultsNamed' /\ CallsNamed'
        /\ \A o \in 1..Len(conv') :
             o # k /\ conv'[o].role = "assistant" =>
               /\ o \in 1..Len(conv) /\ conv'[o] = conv[o]
               /\ \A p \in Nat : Full(conv, o, p) => Full(conv', o, p)
    <2>1. PICK m \in n..Len(batch) : m = n + 1
      BY <1>3
    <2>2. Len(conv') = Len(conv) + (m - n)
      BY <1>6, <2>1
    <2>3. \A j \in n + 1..m : conv'[Len(conv) - n + j] = Result(Id(j))
      BY <1>7, <2>1
    <2>4. /\ k \in 1..Len(conv') /\ Len(conv') = k + m
          /\ conv'[k].role = "assistant" /\ conv'[k].calls = {Id(j) : j \in Index}
          /\ \A j \in 1..m : conv'[k + j] = Result(Id(j))
          /\ ResultsFollowCalls' /\ ResultsNamed' /\ CallsNamed'
          /\ \A o \in 1..Len(conv') :
               o # k /\ conv'[o].role = "assistant" =>
                 /\ o \in 1..Len(conv) /\ conv'[o] = conv[o]
                 /\ \A p \in Nat : Full(conv, o, p) => Full(conv', o, p)
      BY <1>1, <1>2, <1>4, <1>6, <2>2, <2>3, ResultsAdded
    <2>5. QED
      BY <2>1, <2>4
  <1>9. CASE End("completed")
    <2>1. turn'.at = "done" /\ batch' = <<>>
      BY <1>9, <1>0, EndTyped DEF Ending
    <2>2. QED
      BY <2>1, <1>8 DEF Rounds, BatchOpen, OthersFull, Running
  <1>10. CASE batch' = [batch EXCEPT ![i].noted = TRUE] /\ turn' = turn
    <2>1. /\ Len(batch') = Len(batch) /\ batch'[i].noted = TRUE
          /\ \A j \in Index : j # i => batch'[j] = batch[j]
      <3>1. batch[i] \in Call
        BY <1>0 DEF Index
      <3>2. /\ [batch[i] EXCEPT !.noted = TRUE].noted = TRUE
            /\ [batch[i] EXCEPT !.noted = TRUE] \in Call
        BY <3>1 DEF Call
      <3>3. PICK b \in Call : b = [batch[i] EXCEPT !.noted = TRUE] /\ b.noted = TRUE
        BY <3>2
      <3>4. batch' = [batch EXCEPT ![i] = b]
        BY <1>10, <3>3
      <3>5. /\ batch'[i] = b /\ Len(batch') = Len(batch)
            /\ \A j \in Index : j # i => batch'[j] = batch[j]
        BY <3>4, <1>0 DEF Index
      <3>6. QED
        BY <3>3, <3>5
    <2>2. \A j \in Index : batch'[j].noted <=> j <= n + 1
      <3>1. SUFFICES ASSUME NEW j \in Index
                     PROVE  batch'[j].noted <=> j <= n + 1
        OBVIOUS
      <3>2. j \in Nat /\ (batch[j].noted <=> j <= n)
        BY <1>2 DEF Noted, Index
      <3>3. CASE j = i
        BY <3>3, <2>1, <1>3
      <3>4. CASE j # i
        <4>1. j <= n <=> j <= n + 1
          BY <3>2, <3>4, <1>3
        <4>2. QED
          BY <4>1, <3>2, <3>4, <2>1
      <3>5. QED
        BY <3>3, <3>4
    <2>3. /\ n + 1 \in 0..Len(batch') /\ n + 1 < Len(conv') /\ k = Len(conv') - (n + 1)
      BY <2>1, <1>0, <1>3, <1>8
    <2>4. Noted(n + 1)'
      <3>1. Index' = Index
        BY <2>1 DEF Index
      <3>2. \A j \in Nat : Id(j)' = Id(j)
        BY <1>10 DEF Id
      <3>3. {Id(j) : j \in Index}' = {Id(j) : j \in Index}
        BY <1>10, <2>1 DEF Index, Id
      <3>4. conv'[Len(conv') - (n + 1)].role = "assistant"
        BY <2>3, <1>8
      <3>5. conv'[Len(conv') - (n + 1)].calls = {Id(j) : j \in Index}
        BY <2>3, <1>8
      <3>6. \A j \in 1..n + 1 : conv'[Len(conv') - (n + 1) + j] = Result(Id(j))
        BY <2>3, <1>8
      <3>7. \A j \in 1..n + 1 : Result(Id(j))' = Result(Id(j))
        BY <1>10 DEF Id
      <3>8. QED
        BY <2>2, <2>3, <3>1, <3>3, <3>4, <3>5, <3>6, <3>7 DEF Noted
    <2>5. ASSUME NEW o \in Of(turn.no)', o # k
          PROVE  \E p \in Nat : Full(conv', o, p)
      <3>1. /\ o \in 1..Len(conv') /\ conv'[o].role = "assistant"
            /\ \A id \in conv'[o].calls : id[1] = turn.no
        BY <2>5, <1>10 DEF Of
      <3>2. o \in 1..Len(conv) /\ conv'[o] = conv[o]
        BY <3>1, <2>5, <1>8
      <3>3. o \in Of(turn.no)
        BY <3>1, <3>2 DEF Of
      <3>4. \/ \E p \in Nat : Full(conv, o, p)
            \/ \E p \in Nat : Noted(p) /\ o = Len(conv) - p
        BY <3>3, <1>1 DEF RoundInv, Rounds, OthersFull, Running
      <3>5. \A p \in Nat : Noted(p) => p = n
        BY <1>2, <1>0, NotedOnce
      <3>6. \E p \in Nat : Full(conv, o, p)
        BY <3>4, <3>5, <2>5
      <3>7. QED
        BY <3>6, <3>1, <2>5, <1>8
    <2>6. n + 1 \in Nat /\ turn'.at = "batch"
      BY <1>1, <1>10
    <2>7. OthersFull'
      <3> SUFFICES ASSUME NEW o \in Of(turn.no)'
                   PROVE  \/ \E p \in Nat : Full(conv', o, p)
                          \/ turn'.at = "batch" /\ \E p \in Nat : Noted(p)' /\ o = Len(conv') - p
        BY DEF OthersFull, Of
      <3>1. CASE o = k
        BY <3>1, <2>3, <2>4, <2>6
      <3>2. CASE o # k
        BY <3>2, <2>5
      <3>3. QED
        BY <3>1, <3>2
    <2>8. BatchOpen'
      BY <2>4, <2>6 DEF BatchOpen
    <2>9. QED
      BY <2>7, <2>8, <1>8 DEF Rounds
  <1>11. QED
    BY <1>1, <1>9, <1>10

\* The conversation is made to fit: no result is parted from its call, and the
\* rounds that remain are complete.
LEMMA FoldRounds ==
  ASSUME RoundInv, turn.at = "fit", conv' = Folded(conv), turn'.no = turn.no,
         turn'.at = "model", batch' = batch
  PROVE  Rounds'
  <1> DEFINE s == Split(conv)
  <1>0. conv \in Seq(Item) /\ Len(conv) \in Nat
    BY DEF RoundInv, TypeOK, LoopTypeOK
  <1>1. PICK h \in {1, 2} :
          /\ conv' \in Seq(Item) /\ Len(conv') = h + (Len(conv) - s)
          /\ \A i \in 1..h : conv'[i].role \in {"summary", "carried"} /\ conv'[i].calls = {}
          /\ \A i \in 1..Len(conv) - s : conv'[h + i] = conv[s + i]
    BY <1>0, FoldedElements
  <1>2. /\ OldLen(conv) \in 0..Len(conv) /\ s \in OldLen(conv)..Len(conv)
        /\ \A j \in OldLen(conv) + 1..s : conv[j].role = "tool"
        /\ s < Len(conv) => conv[s + 1].role # "tool"
    BY <1>0, Window
  <1> HIDE DEF s
  <1>3. /\ s \in Nat /\ s <= Len(conv) /\ h \in Nat /\ Len(conv') \in Nat
        /\ OldLen(conv) \in Nat /\ OldLen(conv) <= s
    BY <1>0, <1>1, <1>2
  <1>4. \A i \in 1..Len(conv') : i \in 1..h \/ (i > h /\ i - h \in 1..Len(conv) - s)
    BY <1>1, <1>3
  <1>5. ASSUME NEW i \in 1..Len(conv'), i > h
        PROVE  /\ i - h + s \in 1..Len(conv) /\ i - h + s > s
               /\ conv'[i] = conv[i - h + s]
    <2>1. i - h \in 1..Len(conv) - s /\ h + (i - h) = i /\ s + (i - h) = i - h + s
      BY <1>4, <1>5, <1>3
    <2>2. conv'[i] = conv[s + (i - h)]
      BY <2>1, <1>1
    <2>3. i - h + s \in 1..Len(conv) /\ i - h + s > s
      BY <2>1, <1>0, <1>3
    <2>4. QED
      BY <2>1, <2>2, <2>3
  <1>6. \A i \in 1..Len(conv') : conv'[i].role \in {"tool", "assistant"} => i > h
    BY <1>1, <1>4
  <1>7. ResultsFollowCalls'
    <2> SUFFICES ASSUME NEW i \in 1..Len(conv'), conv'[i].role = "tool"
                 PROVE  \E o \in 1..i - 1 :
                          /\ conv'[i].calls \subseteq conv'[o].calls
                          /\ conv'[o].role = "assistant"
                          /\ \A j \in o + 1..i : conv'[j].role = "tool"
      BY DEF ResultsFollowCalls
    <2> DEFINE was == i - h + s
    <2>1. i > h /\ was \in 1..Len(conv) /\ was > s /\ conv'[i] = conv[was]
      BY <1>5, <1>6
    <2>2. PICK q \in 1..was - 1 : /\ conv[was].calls \subseteq conv[q].calls
                                  /\ conv[q].role = "assistant"
                                  /\ \A j \in q + 1..was : conv[j].role = "tool"
      BY <2>1 DEF RoundInv, Rounds, ResultsFollowCalls
    <2>3. q > s
      <3> SUFFICES ASSUME q <= s
                   PROVE  FALSE
        BY <1>3, <2>1, <2>2
      <3>1. s + 1 \in q + 1..was /\ s < Len(conv)
        BY <1>0, <1>3, <2>1
      <3>2. QED
        BY <3>1, <1>2, <2>2
    <2> DEFINE o == q - s + h
    <2>4. o \in 1..i - 1 /\ o > h /\ o - h + s = q /\ o \in 1..Len(conv')
      BY <2>1, <2>3, <1>3, <1>1
    <2>5. conv'[o] = conv[q]
      BY <2>4, <1>5
    <2>6. ASSUME NEW j \in o + 1..i
          PROVE  conv'[j].role = "tool"
      <3>1. j \in 1..Len(conv') /\ j > h /\ j - h + s \in q + 1..was
        BY <2>1, <2>4, <1>3, <1>1
      <3>2. conv'[j] = conv[j - h + s]
        BY <3>1, <1>5
      <3>3. QED
        BY <3>1, <3>2, <2>2
    <2>7. QED
      BY <2>1, <2>2, <2>4, <2>5, <2>6
  <1>8. ResultsNamed'
    <2> SUFFICES ASSUME NEW i \in 1..Len(conv'), conv'[i].role = "tool"
                 PROVE  conv'[i].calls # {}
      BY DEF ResultsNamed
    <2>1. i - h + s \in 1..Len(conv) /\ conv'[i] = conv[i - h + s]
      BY <1>5, <1>6
    <2>2. QED
      BY <2>1 DEF RoundInv, Rounds, ResultsNamed
  <1>9. CallsNamed'
    <2> SUFFICES ASSUME NEW i \in 1..Len(conv'), NEW id \in conv'[i].calls
                 PROVE  id[1] <= turn.no
      BY DEF CallsNamed
    <2>1. i > h
      BY <1>1, <1>4
    <2>2. i - h + s \in 1..Len(conv) /\ conv'[i] = conv[i - h + s]
      BY <2>1, <1>5
    <2>3. QED
      BY <2>2 DEF RoundInv, Rounds, CallsNamed
  <1>10. ASSUME NEW k \in Of(turn.no)'
         PROVE  \E n \in Nat : Full(conv', k, n)
    <2>1. /\ k \in 1..Len(conv') /\ conv'[k].role = "assistant"
          /\ \A id \in conv'[k].calls : id[1] = turn.no
      BY <1>10 DEF Of
    <2>21. k > h /\ k - h + s \in 1..Len(conv) /\ k - h + s > s /\ conv'[k] = conv[k - h + s]
      BY <2>1, <1>5, <1>6
    <2>22. PICK q \in Nat : q = k - h + s
      BY <2>21, <1>0
    <2>2. /\ k > h /\ q \in 1..Len(conv) /\ q > s /\ conv'[k] = conv[q]
          /\ k \in Nat /\ q - s = k - h
      BY <2>1, <2>21, <2>22, <1>3
    <2>3. q \in Of(turn.no)
      BY <2>1, <2>2 DEF Of
    <2>4. PICK n \in Nat : Full(conv, q, n)
      BY <2>3, NoBatchFull DEF Running
    <2>5. /\ q + n <= Len(conv) /\ \A j \in q + 1..q + n : conv[j].role = "tool"
          /\ q + n < Len(conv) => conv[q + n + 1].role # "tool"
          /\ Cardinality(conv[q].calls) = n
          /\ UNION {conv[j].calls : j \in q + 1..q + n} = conv[q].calls
      BY <2>4 DEF Full
    <2>51. q + n <= Len(conv) /\ Len(conv') = h + (Len(conv) - s)
      BY <2>5, <1>1
    <2>6. k + n <= Len(conv') /\ (k + n < Len(conv') => q + n < Len(conv))
      <3>1. s \in Nat /\ h \in Nat /\ q \in Nat /\ k \in Nat /\ n \in Nat /\ q - s = k - h
        BY <2>2, <2>22, <1>3, <2>4
      <3>2. \A was, now \in Nat : q + n <= was /\ now = h + (was - s) =>
                                 k + n <= now /\ (k + n < now => q + n < was)
        BY <3>1
      <3>3. Len(conv) \in Nat /\ Len(conv') \in Nat
        BY <1>0, <1>3
      <3>4. QED
        BY <2>51, <3>2, <3>3
    <2>7. ASSUME NEW j \in k + 1..k + n
          PROVE  j - h + s \in q + 1..q + n /\ conv'[j] = conv[j - h + s]
      <3>1. j \in 1..Len(conv') /\ j > h /\ j - h + s \in q + 1..q + n
        BY <2>2, <2>22, <2>6, <1>3
      <3>2. QED
        BY <3>1, <1>5
    <2>8. ASSUME NEW j \in q + 1..q + n
          PROVE  j - s + h \in k + 1..k + n /\ conv'[j - s + h] = conv[j]
      <3>0. s \in Nat /\ h \in Nat /\ q \in Nat /\ k \in Nat /\ n \in Nat /\ q - s = k - h
        BY <2>2, <2>22, <1>3, <2>4
      <3>1. PICK i \in Int : i = j - s + h
        BY <3>0
      <3>2. i \in k + 1..k + n /\ i - h + s = j
        BY <3>0, <3>1
      <3>3. conv'[i] = conv[j]
        BY <3>2, <2>7
      <3>4. QED
        BY <3>1, <3>2, <3>3
    <2>9. {conv'[j].calls : j \in k + 1..k + n} = {conv[j].calls : j \in q + 1..q + n}
      BY <2>7, <2>8
    <2>10. k + n < Len(conv') => conv'[k + n + 1].role # "tool"
      <3> SUFFICES ASSUME k + n < Len(conv')
                   PROVE  conv'[k + n + 1].role # "tool"
        OBVIOUS
      <3>0. PICK i \in Nat : i = k + n + 1
        BY <2>2
      <3>00. /\ s \in Nat /\ h \in Nat /\ k \in Nat /\ q - s = k - h /\ k > h
             /\ Len(conv') \in Nat /\ k + n < Len(conv')
        BY <2>2, <1>3
      <3>1. i \in 1..Len(conv') /\ i > h /\ i - h + s = q + n + 1
        BY <3>0, <3>00
      <3>2. conv'[k + n + 1] = conv[q + n + 1]
        BY <3>0, <3>1, <1>5
      <3>3. QED
        BY <3>2, <2>5, <2>6
    <2>11. \A j \in k + 1..k + n : conv'[j].role = "tool"
      BY <2>5, <2>7
    <2>12. /\ Cardinality(conv'[k].calls) = n
           /\ UNION {conv'[j].calls : j \in k + 1..k + n} = conv'[k].calls
      BY <2>2, <2>5, <2>9
    <2>13. Full(conv', k, n)
      BY <2>6, <2>10, <2>11, <2>12 DEF Full
    <2>14. QED
      BY <2>13
  <1>11. OthersFull'
    BY <1>10 DEF OthersFull, Of
  <1>12. BatchOpen'
    BY DEF RoundInv, Rounds, BatchOpen
  <1>13. QED
    BY <1>7, <1>8, <1>9, <1>11, <1>12 DEF Rounds

\* The model asks for a batch: its round is the one that is open.
LEMMA CallsRounds ==
  ASSUME RoundInv, turn.at = "model", NEW kinds \in Batches,
         batch' = [i \in 1..Len(kinds) |-> [kind |-> kinds[i], at |-> "todo", noted |-> FALSE]],
         conv' = Append(conv, Writes("assistant", {}, {Id(i) : i \in 1..Len(kinds)})),
         turn' = [turn EXCEPT !.at = "batch", !.failures = 0]
  PROVE  Rounds'
  <1>0. conv \in Seq(Item) /\ turn \in Turn /\ Len(conv) \in Nat /\ turn.no \in Nat
    BY DEF RoundInv, TypeOK, LoopTypeOK, Turn
  <1>1. /\ batch' \in Seq(Call) /\ Len(batch') = Len(kinds)
        /\ \A i \in 1..Len(kinds) : batch'[i].noted = FALSE
        /\ conv' \in Seq(Item) /\ Len(conv') = Len(conv) + 1
        /\ \A i \in 1..Len(conv) : conv'[i] = conv[i]
        /\ conv'[Len(conv) + 1].role = "assistant"
        /\ conv'[Len(conv) + 1].calls = {Id(i) : i \in 1..Len(kinds)}
        /\ \A id \in conv'[Len(conv) + 1].calls : id[1] = turn.no
    BY <1>0, BatchTyped
  <1>2. turn'.at = "batch" /\ turn'.no = turn.no /\ turn'.step = turn.step
    BY <1>0 DEF Turn
  <1>3. \A i \in Len(conv) + 1..Len(conv') : i = Len(conv) + 1
    BY <1>0, <1>1
  <1>4. /\ ResultsFollowCalls' /\ ResultsNamed' /\ CallsNamed'
        /\ \A k \in 1..Len(conv), n \in Nat : Full(conv, k, n) => Full(conv', k, n)
    <2>1. Grows
      BY <1>0, <1>1 DEF Grows
    <2>2. ASSUME NEW i \in Len(conv) + 1..Len(conv')
          PROVE  conv'[i].role # "tool" /\ \A id \in conv'[i].calls : id[1] <= turn.no
      <3>1. i = Len(conv) + 1
        BY <1>3
      <3>2. conv'[i].role = "assistant" /\ \A id \in conv'[i].calls : id[1] = turn.no
        BY <3>1, <1>1
      <3>3. QED
        BY <3>2, <1>0
    <2>3. QED
      BY <2>1, <2>2, <1>2, Added
  <1>5. Noted(0)'
    <2>1. Len(batch') \in Nat /\ 0 \in 0..Len(batch') /\ 0 < Len(conv')
      BY <1>0, <1>1
    <2>2. Len(conv') - 0 = Len(conv) + 1
      BY <1>0, <1>1
    <2>3. \A i \in 1..Len(batch') : batch'[i].noted <=> i <= 0
      BY <1>1
    <2>4. \A i \in Nat : Id(i)' = Id(i)
      BY <1>2 DEF Id
    <2>5. {Id(i) : i \in Index}' = {Id(i) : i \in 1..Len(kinds)}
      BY <1>1, <1>2 DEF Index, Id
    <2>6. \A i \in 1..0 : FALSE
      OBVIOUS
    <2>7. QED
      BY <1>1, <2>1, <2>2, <2>3, <2>5, <2>6 DEF Noted, Index
  <1>6. OthersFull'
    <2> SUFFICES ASSUME NEW k \in Of(turn.no)'
                 PROVE  \/ \E n \in Nat : Full(conv', k, n)
                        \/ turn'.at = "batch" /\ \E n \in Nat : Noted(n)' /\ k = Len(conv') - n
      BY DEF OthersFull, Of
    <2>1. /\ k \in 1..Len(conv') /\ conv'[k].role = "assistant"
          /\ \A id \in conv'[k].calls : id[1] = turn.no
      BY <1>2 DEF Of
    <2>2. CASE k = Len(conv) + 1
      <3>1. k = Len(conv') - 0 /\ 0 \in Nat
        BY <2>2, <1>0, <1>1
      <3>2. QED
        BY <3>1, <1>2, <1>5
    <2>3. CASE k # Len(conv) + 1
      <3>1. k \in 1..Len(conv)
        BY <2>1, <2>3, <1>0, <1>1
      <3>2. k \in Of(turn.no)
        BY <2>1, <3>1, <1>1 DEF Of
      <3>3. \E n \in Nat : Full(conv, k, n)
        BY <3>2, NoBatchFull DEF Running
      <3>4. QED
        BY <3>1, <3>3, <1>4
    <2>4. QED
      BY <2>2, <2>3
  <1>7. BatchOpen'
    BY <1>2, <1>5 DEF BatchOpen
  <1>8. QED
    BY <1>4, <1>6, <1>7 DEF Rounds

\* Items of the model's making or for it, none a result or a call.
Bare == \A i \in Len(conv) + 1..Len(conv') : conv'[i].role # "tool" /\ conv'[i].calls = {}

\* The note, the prose and the user's words are no results and make no calls.
LEMMA BareGrowth ==
  ASSUME conv \in Seq(Item),
         \/ conv' = conv \/ conv' = Append(conv, Note) \/ conv' = Append(conv, Prose)
         \/ conv' = conv \o <<Prose, Note>>
  PROVE  Grows /\ Bare
  <1>0. /\ Note \in Item /\ Note.role = "user" /\ Note.calls = {}
        /\ Prose \in Item /\ Prose.role = "assistant" /\ Prose.calls = {}
    BY NoteTyped
  <1>1. CASE conv' = conv
    BY <1>1, GrownByNothing DEF Bare
  <1>2. CASE conv' = Append(conv, Note)
    BY <1>0, <1>2, GrownByOne DEF Bare
  <1>3. CASE conv' = Append(conv, Prose)
    BY <1>0, <1>3, GrownByOne DEF Bare
  <1>4. CASE conv' = conv \o <<Prose, Note>>
    <2>1. <<Prose, Note>> \in Seq(Item)
      BY <1>0
    <2>2. PICK d \in Seq(Item) : d = <<Prose, Note>>
      BY <2>1
    <2>3. Len(d) = 2 /\ d[1] = Prose /\ d[2] = Note
      BY <2>2
    <2>4. /\ conv' \in Seq(Item) /\ Len(conv') = Len(conv) + 2
          /\ \A i \in 1..Len(conv) : conv'[i] = conv[i]
          /\ conv'[Len(conv) + 1] = Prose /\ conv'[Len(conv) + 2] = Note
      BY <1>4, <2>2, <2>3
    <2>5. \A i \in Len(conv) + 1..Len(conv') : i = Len(conv) + 1 \/ i = Len(conv) + 2
      BY <2>4
    <2>6. QED
      BY <2>4, <2>5, <1>0 DEF Grows, Bare
  <1>5. QED
    BY <1>1, <1>2, <1>3, <1>4

\* Every step of the loop keeps the rounds.
LEMMA LoopRounds ==
  ASSUME RoundInv, LoopNext, TypeOK'
  PROVE  Rounds'
  <1> USE DEF Point, Ending
  <1>0. /\ conv \in Seq(Item) /\ turn \in Turn /\ batch \in Seq(Call)
        /\ turn.at # "batch" => batch = <<>>
    BY DEF RoundInv, TypeOK, LoopTypeOK, Rounds, BatchOpen
  <1>a. ASSUME conv' \in {conv, Append(conv, Prose)}, NEW how \in Ending, End(how)
        PROVE  Rounds'
    <2>1. Grows /\ Bare
      BY <1>a, <1>0, BareGrowth
    <2>2. turn'.at = "done" /\ turn'.no = turn.no /\ batch' = <<>>
      BY <1>a, <1>0, EndTyped
    <2>3. QED
      BY <2>1, <2>2, RoundsOver DEF Bare
  <1>b. ASSUME Running, turn.at # "batch", Grows, Bare, turn'.no = turn.no,
               turn'.at # "batch", batch' = batch \/ batch' = <<>>
        PROVE  Rounds'
    <2>1. batch' = <<>> /\ \A k \in Of(turn.no) : \E n \in Nat : Full(conv, k, n)
      BY <1>b, <1>0, NoBatchFull
    <2>2. QED
      BY <1>b, <2>1, SaysOn DEF Bare
  <1>1. CASE StopAtTop \/ StopAtModel \/ GivesUp \/ StopInBatch
    <2>1. conv' = conv /\ \E how \in Ending : End(how)
      BY <1>1 DEF StopAtTop, StopAtModel, GivesUp, StopInBatch
    <2>2. QED
      BY <2>1, <1>a
  <1>2. CASE Answers
    BY <1>2, <1>a DEF Answers
  <1>3. CASE Prepare
    <2>1. /\ Grows /\ Len(conv') = Len(conv) + 1
          /\ conv'[Len(conv) + 1].role = "user" /\ conv'[Len(conv) + 1].calls = {}
          /\ turn'.at = "top" /\ turn'.no = turn.no
      BY <1>3, PrepareSays
    <2>2. \A i \in Len(conv) + 1..Len(conv') : i = Len(conv) + 1
      BY <2>1, <1>0
    <2>3. Bare
      BY <2>1, <2>2 DEF Bare
    <2>4. turn.at = "accepted" /\ batch' = batch
      BY <1>3 DEF Prepare
    <2>5. QED
      BY <2>1, <2>3, <2>4, <1>b DEF Running
  <1>4. CASE Ask
    <2>1. /\ Grows /\ Len(conv') = Len(conv) + Len(queue)
          /\ \A i \in 1..Len(queue) : LET x == conv'[Len(conv) + i] IN
               x.role = "user" /\ x.calls = {}
          /\ \A i \in Len(conv) + 1..Len(conv') : i - Len(conv) \in 1..Len(queue)
          /\ turn'.at = "fit" /\ turn'.no = turn.no
      BY <1>4, AskSays
    <2>2. \A i \in Len(conv) + 1..Len(conv') : Len(conv) + (i - Len(conv)) = i
      BY <1>0
    <2>3. Bare
      BY <2>1, <2>2 DEF Bare
    <2>4. turn.at = "top" /\ batch' = batch
      BY <1>4 DEF Ask
    <2>5. QED
      BY <2>1, <2>3, <2>4, <1>b DEF Running
  <1>5. CASE Fit
    <2>1. /\ turn.at = "fit" /\ GoTo("model") /\ batch' = batch
          /\ conv' = conv \/ conv' = Folded(conv)
      BY <1>5 DEF Fit
    <2>2. turn'.no = turn.no /\ turn'.at = "model"
      BY <2>1, <1>0, GoToTyped
    <2>3. CASE conv' = conv
      BY <2>1, <2>2, <2>3, <1>0, <1>b, BareGrowth DEF Running
    <2>4. CASE conv' = Folded(conv)
      BY <2>1, <2>2, <2>4, FoldRounds
    <2>5. QED
      BY <2>1, <2>3, <2>4
  <1>6. CASE Unsupported \/ Again
    <2>1. /\ \E p \in {"top", "model"} : GoTo(p)
          /\ turn.at \in {"model", "backoff", "restart"}
          /\ conv' = conv /\ batch' = batch
      BY <1>6 DEF Unsupported, Again
    <2>2. PICK p \in {"top", "model"} : GoTo(p)
      BY <2>1
    <2>3. turn'.no = turn.no /\ turn'.at # "batch"
      BY <2>2, <1>0, GoToTyped
    <2>4. QED
      BY <2>1, <2>3, <1>0, <1>b, BareGrowth DEF Running
  <1>7. CASE ModelFails
    <2>1. turn.at = "model" /\ conv' = conv /\ batch' = batch
      BY <1>7 DEF ModelFails
    <2>2. \/ /\ turn.failures < MaxFailures
             /\ turn' = [turn EXCEPT !.at = "backoff", !.failures = @ + 1]
          \/ GoTo("backoff")
      BY <1>7 DEF ModelFails
    <2>3. turn'.at = "backoff" /\ turn'.no = turn.no
      BY <2>2, <1>0, GoToTyped, FailureTyped
    <2>4. QED
      BY <2>1, <2>3, <1>0, <1>b, BareGrowth DEF Running
  <1>8. CASE Correct
    <2>1. /\ turn.at = "model" /\ turn.failures < MaxFailures /\ batch' = batch
          /\ turn' = [turn EXCEPT !.at = "top", !.failures = @ + 1]
          /\ conv' = Append(conv, Note) \/ conv' = conv \o <<Prose, Note>>
      BY <1>8 DEF Correct
    <2>2. turn'.at = "top" /\ turn'.no = turn.no
      BY <2>1, <1>0, FailureTyped
    <2>3. QED
      BY <2>1, <2>2, <1>0, <1>b, BareGrowth DEF Running
  <1>9. CASE WindDown /\ turn.at \in {"top", "model"}
    <2>1. turn'.at = "landing" /\ turn'.no = turn.no /\ conv' = Append(conv, Note) /\ batch' = <<>>
      BY <1>9, <1>0, WindDownTyped
    <2>2. QED
      BY <2>1, <1>9, <1>0, <1>b, BareGrowth DEF Running
  <1>10. CASE Calls /\ ~WindDown
    BY <1>10, CallsRounds DEF Calls
  <1>11. CASE \E i \in Index : CallStep(i)
    <2>1. /\ batch' \in Seq(Call) /\ Len(batch') = Len(batch)
          /\ \A j \in Index : batch'[j].noted = batch[j].noted
          /\ UNCHANGED <<conv, turn, queue>>
      BY <1>0, <1>11, CallSteps
    <2>2. QED
      BY <2>1, RoundsStay
  <1>12. CASE Record
    BY <1>12, RecordRounds
  <1>13. CASE NextRound
    <2>1. /\ turn.at = "batch" /\ \A i \in Index : batch[i].noted
          /\ \/ End("answered") /\ conv' = conv
             \/ GoTo("top") /\ batch' = <<>> /\ conv' = conv
             \/ WindDown
      BY <1>13 DEF NextRound
    <2>2. \A k \in Of(turn.no) : \E n \in Nat : Full(conv, k, n)
      BY <2>1, BatchDoneFull DEF Running
    <2>3. CASE End("answered") /\ conv' = conv
      BY <2>3, <1>a
    <2>4. CASE GoTo("top") /\ batch' = <<>> /\ conv' = conv
      <3>1. turn'.at = "top" /\ turn'.no = turn.no
        BY <2>4, <1>0, GoToTyped
      <3>2. Grows /\ Bare
        BY <2>4, <1>0, BareGrowth
      <3>3. QED
        BY <3>1, <3>2, <2>2, <2>4, SaysOn DEF Bare
    <2>5. CASE WindDown
      <3>1. /\ turn'.at = "landing" /\ turn'.no = turn.no /\ batch' = <<>>
            /\ conv' = Append(conv, Note)
        BY <2>5, <1>0, WindDownTyped
      <3>2. Grows /\ Bare
        BY <3>1, <1>0, BareGrowth
      <3>3. QED
        BY <3>1, <3>2, <2>2, SaysOn DEF Bare
    <2>6. QED
      BY <2>1, <2>3, <2>4, <2>5
  <1>14. CASE Break
    <2>1. CASE End("raised") /\ conv' = conv
      BY <2>1, <1>a
    <2>2. CASE /\ turn.failures < MaxFailures /\ conv' = AnsweredDangling(conv)
               /\ turn' = [turn EXCEPT !.at = "restart", !.failures = @ + 1] /\ batch' = <<>>
      <3>1. turn'.at = "restart" /\ turn'.no = turn.no /\ turn.at \in {"batch", "fit"}
        BY <2>2, <1>0, <1>14, FailureTyped DEF Break
      <3>2. QED
        BY <3>1, <2>2, BreakRounds
    <2>3. QED
      BY <1>14, <2>1, <2>2 DEF Break
  <1>15. QED
    BY <1>1, <1>2, <1>3, <1>4, <1>5, <1>6, <1>7, <1>8, <1>9, <1>10, <1>11, <1>12, <1>13, <1>14
       DEF LoopNext, TurnSteps, ModelReplies, CallStep, LimitAtTop, Calls

\* Every step keeps types and rounds.
LEMMA RoundStep ==
  ASSUME RoundInv, [Next]_vars
  PROVE  RoundInv'
  <1>1. TypeOK'
    BY TypeStep
  <1>0. conv \in Seq(Item) /\ turn \in Turn /\ batch \in Seq(Call)
    BY DEF RoundInv, TypeOK, LoopTypeOK
  <1>2. Rounds'
    <2>a. ASSUME conv' = conv, batch' = batch, turn'.at = turn.at, turn'.no = turn.no,
                 turn'.step = turn.step
          PROVE  Rounds'
      BY <2>a, <1>0, RoundsStay
    <2>b. ASSUME turn.at \in {"off", "done"}, conv' = conv, batch' = batch,
                 NEW text \in SUBSET Message, turn' = NewTurn(text)
          PROVE  Rounds'
      BY <2>b, <1>0, NewTyped, RoundsBegin
    <2>c. ASSUME turn.at = "done", conv' = conv, batch' = batch,
                 turn'.at = "off", turn'.no = turn.no
          PROVE  Rounds'
      <3>1. batch' = <<>>
        BY <2>c DEF RoundInv, Rounds, BatchOpen
      <3>2. Grows /\ Bare
        BY <2>c, <1>0, BareGrowth
      <3>3. QED
        BY <3>1, <3>2, <2>c, RoundsOver DEF Bare
    <2>1. CASE Loop(LoopNext)
      BY <2>1, <1>1, LoopRounds DEF Loop
    <2>2. ASSUME NEW m \in Message, Submit(m)
          PROVE  Rounds'
      <3>1. {m} \in SUBSET Message
        OBVIOUS
      <3>2. /\ conv' = conv /\ batch' = batch
            /\ turn' = turn \/ (turn.at = "off" /\ turn' = NewTurn({m}))
        BY <2>2 DEF Submit
      <3>3. QED
        BY <3>1, <3>2, <2>a, <2>b
    <2>3. ASSUME NEW i \in 1..Len(followups), Promote(i)
          PROVE  Rounds'
      BY <2>3, <2>a DEF Promote
    <2>4. CASE StartTurn
      <3>1. Head(line) \in SUBSET Message
        BY <2>4 DEF StartTurn, RoundInv, TypeOK
      <3>2. QED
        BY <2>4, <3>1, <2>b DEF StartTurn
    <2>5. CASE TurnReturns
      <3>1. turn.at = "done" /\ conv' = conv /\ batch' = batch
        BY <2>5 DEF TurnReturns
      <3>2. \/ turn' = NoTurn(turn.no)
            \/ turn' = [NoTurn(turn.no) EXCEPT !.end = "raised"]
            \/ turn' = NewTurn(Texts(queue))
            \/ followups # <<>> /\ turn' = NewTurn({Head(followups)})
        BY <2>5 DEF TurnReturns, GoOnWith, Left
      <3>3. Texts(queue) \in SUBSET Message
        BY DEF RoundInv, TypeOK, LoopTypeOK, Texts
      <3>4. followups # <<>> => {Head(followups)} \in SUBSET Message
        BY DEF RoundInv, TypeOK
      <3>5. /\ NoTurn(turn.no).at = "off" /\ NoTurn(turn.no).no = turn.no
            /\ [NoTurn(turn.no) EXCEPT !.end = "raised"].at = "off"
            /\ [NoTurn(turn.no) EXCEPT !.end = "raised"].no = turn.no
        BY DEF NoTurn
      <3>6. CASE turn' = NoTurn(turn.no) \/ turn' = [NoTurn(turn.no) EXCEPT !.end = "raised"]
        BY <3>1, <3>5, <3>6, <2>c
      <3>7. CASE turn' = NewTurn(Texts(queue))
        BY <3>1, <3>3, <3>7, <2>b
      <3>8. CASE followups # <<>> /\ turn' = NewTurn({Head(followups)})
        BY <3>1, <3>4, <3>8, <2>b
      <3>9. QED
        BY <3>2, <3>6, <3>7, <3>8
    <2>6. CASE PressStop
      BY <2>6, <2>a DEF PressStop
    <2>7. CASE StopLands
      <3>1. /\ conv' = conv /\ batch' = batch
            /\ turn' = turn \/ turn' = [turn EXCEPT !.cancel = TRUE]
        BY <2>7 DEF StopLands
      <3>2. turn'.at = turn.at /\ turn'.no = turn.no /\ turn'.step = turn.step
        BY <3>1, <1>0 DEF Turn
      <3>3. QED
        BY <3>1, <3>2, <2>a
    <2>8. CASE UNCHANGED vars
      BY <2>8, <2>a DEF vars
    <2>9. QED
      BY <2>1, <2>2, <2>3, <2>4, <2>5, <2>6, <2>7, <2>8 DEF Next
  <1>3. QED
    BY <1>1, <1>2 DEF RoundInv

\* Nothing is wrong at the start.
LEMMA RoundInit ==
  ASSUME Init
  PROVE  RoundInv
  <1>1. /\ turn \in Turn /\ turn.at = "off" /\ turn.no = 0
        /\ conv = <<>> /\ batch = <<>>
    <2>1. 0 \in 0..MaxFailures
      BY LoopAssumption
    <2>2. QED
      BY <2>1 DEF Init, LoopInit, NoTurn, Turn, Point, Ending
  <1>2. past \in [typed : 0..MaxMessages, dropped : SUBSET Message, stops : 0..MaxStops]
    <2>1. 0 \in 0..MaxMessages /\ 0 \in 0..MaxStops
      BY LoopAssumption, SessionAssumption
    <2>2. QED
      BY <2>1 DEF Init
  <1>31. /\ conv \in Seq(Item) /\ batch \in Seq(Call) /\ queue \in Seq(Message)
    BY DEF Init, LoopInit
  <1>32. followups = <<>> /\ line = <<>> /\ stopping \in BOOLEAN
    BY DEF Init
  <1>33. <<>> \in Seq(Message) /\ <<>> \in Seq(SUBSET Message)
    OBVIOUS
  <1>3. TypeOK
    BY <1>1, <1>2, <1>31, <1>32, <1>33 DEF TypeOK, LoopTypeOK
  <1>4. \A i \in 1..Len(conv) : FALSE
    BY <1>1
  <1>5. Rounds
    BY <1>1, <1>4 DEF Rounds, ResultsFollowCalls, ResultsNamed, CallsNamed, BatchOpen, OthersFull, Running
  <1>6. QED
    BY <1>3, <1>5 DEF RoundInv

\* Types and rounds hold throughout.
LEMMA RoundsHold == Spec => []RoundInv
  BY RoundInit, RoundStep, PTL DEF Spec

\* A complete round is one whose calls each have one result.
LEMMA FullAnswered ==
  ASSUME conv \in Seq(Item), NEW k \in 1..Len(conv), NEW n \in Nat, Full(conv, k, n)
  PROVE  AnsweredInFull(k)
  <1>1. /\ k + n <= Len(conv) /\ \A j \in k + 1..k + n : conv[j].role = "tool"
        /\ k + n < Len(conv) => conv[k + n + 1].role # "tool"
        /\ Cardinality(conv[k].calls) = n
        /\ UNION {conv[j].calls : j \in k + 1..k + n} = conv[k].calls
        /\ k \in Nat /\ Len(conv) \in Nat
    BY DEF Full
  <1>2. Answered(k) = k + 1..k + n
    <2>1. ASSUME NEW i \in k + 1..k + n
          PROVE  i \in k + 1..Len(conv) /\ \A j \in k + 1..i : conv[j].role = "tool"
      BY <1>1
    <2>2. ASSUME NEW i \in k + 1..Len(conv), \A j \in k + 1..i : conv[j].role = "tool",
                 i \notin k + 1..k + n
          PROVE  FALSE
      <3>1. k + n + 1 \in k + 1..i /\ k + n < Len(conv)
        BY <1>1, <2>2
      <3>2. QED
        BY <3>1, <1>1, <2>2
    <2>3. QED
      BY <2>1, <2>2 DEF Answered
  <1>3. Cardinality(k + 1..k + n) = n
    BY <1>1, PlacesAfter
  <1>4. QED
    BY <1>1, <1>2, <1>3 DEF AnsweredInFull

\* The variables of the session and of its turn keep their types: whatever is
\* folded, closed or taken out of a queue leaves a conversation of messages and
\* queues of what the user typed.
THEOREM TypeCorrect == Spec => []TypeOK
  <1>1. RoundInv => TypeOK
    BY DEF RoundInv
  <1>2. QED
    BY <1>1, RoundsHold, PTL

\* No result is separated from the call it answers, however the conversation
\* was compacted, broken or stopped.
THEOREM ResultsAlwaysFollow == Spec => []ResultsFollowCalls
  <1>1. RoundInv => ResultsFollowCalls
    BY DEF RoundInv, Rounds
  <1>2. QED
    BY <1>1, RoundsHold, PTL

\* Whenever the model is asked, every call of the turn under way has exactly
\* one result, also after rounds that broke and after compactions.
THEOREM RoundsAlwaysClosed == Spec => []RoundsClosed
  <1>1. ASSUME RoundInv
        PROVE  RoundsClosed
    <2> SUFFICES ASSUME turn.at = "model", NEW k \in Of(turn.no)
                 PROVE  AnsweredInFull(k)
      BY DEF RoundsClosed
    <2>1. PICK n \in Nat : Full(conv, k, n)
      BY <1>1, NoBatchFull DEF Running
    <2>2. conv \in Seq(Item) /\ k \in 1..Len(conv)
      BY <1>1 DEF RoundInv, TypeOK, LoopTypeOK, Of
    <2>3. QED
      BY <2>1, <2>2, FullAnswered
  <1>2. QED
    BY <1>1, RoundsHold, PTL

-----------------------------------------------------------------------------
(* Every message in one place.                                             *)

\* The message m lies in the i-th element of the named place.
At(m, place, i) ==
  \/ place = "conv" /\ i \in 1..Len(conv) /\ m \in conv[i].said
  \/ place = "queue" /\ i \in 1..Len(queue) /\ queue[i] = m
  \/ place = "followups" /\ i \in 1..Len(followups) /\ followups[i] = m
  \/ place = "line" /\ i \in 1..Len(line) /\ m \in line[i]
  \/ place = "turn" /\ i = 0 /\ m \in turn.text
  \/ place = "dropped" /\ i = 0 /\ m \in past.dropped

\* It lies there and nowhere else.
OnlyAt(m, place, i) ==
  At(m, place, i) /\ \A q, j : At(m, q, j) => q = place /\ j = i

\* What was typed lies in one place, what was not in none; a turn holds words
\* of the user only until they join the conversation.
KeptOnce ==
  /\ \A m \in 1..past.typed : \E place, i : OnlyAt(m, place, i)
  /\ \A m \in Message : m > past.typed => \A place, i : ~At(m, place, i)
  /\ turn.at # "accepted" => turn.text = {}

\* What lies in one place only has a set of places of one element.
LEMMA OnePlace ==
  ASSUME NEW m, NEW place, NEW i, OnlyAt(m, place, i)
  PROVE  Cardinality(Places(m)) = 1
  <1>1. <<place, i>> \in Places(m)
    BY DEF OnlyAt, At, Places
  <1>2. ASSUME NEW x \in Places(m)
        PROVE  x = <<place, i>>
    <2>1. \E q, j : x = <<q, j>> /\ At(m, q, j)
      BY <1>2 DEF At, Places
    <2>2. QED
      BY <2>1 DEF OnlyAt
  <1>3. Places(m) = {<<place, i>>}
    BY <1>1, <1>2
  <1>4. QED
    BY <1>3, FS_Singleton

\* A step that only moves messages: what lay in one place lies in one place,
\* and nothing comes from nowhere.
Moves ==
  /\ past'.typed = past.typed
  /\ turn'.at # "accepted" => turn'.text = {}
  /\ \A m \in Message :
       /\ (\E p, i : OnlyAt(m, p, i)) => \E q, j : OnlyAt(m, q, j)'
       /\ (\A p, i : ~At(m, p, i)) => \A q, j : ~At(m, q, j)'

\* Such a step keeps every message in its one place.
LEMMA MovesKeep ==
  ASSUME TypeOK, KeptOnce, Moves
  PROVE  KeptOnce'
  <1>1. \A m \in 1..past.typed : m \in Message
    BY LoopAssumption DEF TypeOK, Message
  <1>2. QED
    BY <1>1 DEF KeptOnce, Moves

\* A step that moves no message at all.
LEMMA StaysKeep ==
  ASSUME past'.typed = past.typed, turn'.at # "accepted" => turn'.text = {},
         \A m \in Message : \A q, j : At(m, q, j)' <=> At(m, q, j)
  PROVE  Moves
  BY DEF Moves, OnlyAt

\* What lies in the conversation of a turn that says nothing of the user's.
LEMMA QuietMoves ==
  ASSUME KeptOnce, Quiet, UNCHANGED <<followups, line, past>>
  PROVE  Moves
  <1>1. /\ Len(conv) \in Nat /\ Len(conv') \in Nat /\ Len(conv') >= Len(conv)
        /\ \A i \in 1..Len(conv) : conv'[i] = conv[i]
        /\ \A i \in Len(conv) + 1..Len(conv') : conv'[i].said = {}
    BY DEF Quiet, Grows
  <1>2. turn'.text = {} /\ turn.text = {} /\ queue' = queue
    BY DEF Quiet, KeptOnce
  <1>3. \A i : (i \in 1..Len(conv') <=> i \in 1..Len(conv) \/ i \in Len(conv) + 1..Len(conv'))
    BY <1>1
  <1>4. ASSUME NEW m \in Message, NEW q, NEW j
        PROVE  At(m, q, j)' <=> At(m, q, j)
    <2>1. (j \in 1..Len(conv') /\ m \in conv'[j].said) <=> (j \in 1..Len(conv) /\ m \in conv[j].said)
      BY <1>1, <1>3
    <2>2. QED
      BY <2>1, <1>2 DEF At
  <1>5. QED
    BY <1>2, <1>4, StaysKeep

\* The turn's text comes to the end of the conversation.
LEMMA PrepareMoves ==
  ASSUME RoundInv, KeptOnce, Prepare, UNCHANGED <<followups, line, past>>
  PROVE  Moves
  <1>1. /\ Len(conv) \in Nat /\ Len(conv') = Len(conv) + 1
        /\ \A i \in 1..Len(conv) : conv'[i] = conv[i]
        /\ conv'[Len(conv) + 1].said = turn.text
        /\ turn'.at = "top" /\ turn'.text = {} /\ queue' = queue
    BY PrepareSays DEF Grows, Prepare
  <1>2. \A i : (i \in 1..Len(conv') <=> i \in 1..Len(conv) \/ i = Len(conv) + 1)
    BY <1>1
  <1>3. Len(conv) + 1 \notin 1..Len(conv)
    BY <1>1
  <1>a. PICK e \in Nat : e = Len(conv) + 1
    BY <1>1
  <1>4. ASSUME NEW m \in Message, NEW q, NEW j
        PROVE  At(m, q, j)' <=> \/ q # "turn" /\ At(m, q, j)
                                \/ q = "conv" /\ j = e /\ At(m, "turn", 0)
    <2>1. (j \in 1..Len(conv') /\ m \in conv'[j].said) <=>
            \/ j \in 1..Len(conv) /\ m \in conv[j].said
            \/ j = e /\ m \in turn.text
      BY <1>1, <1>2, <1>3, <1>a
    <2>2. QED
      BY <2>1, <1>1 DEF At
  <1>5. \A m, i : At(m, "turn", i) => i = 0
    BY DEF At
  <1>6. ASSUME NEW m \in Message, NEW p, NEW i, OnlyAt(m, p, i)
        PROVE  \E q, j : OnlyAt(m, q, j)'
    <2>1. CASE p = "turn"
      <3>1. OnlyAt(m, "conv", e)'
        BY <1>4, <1>5, <1>6, <2>1 DEF OnlyAt
      <3>2. QED
        BY <3>1
    <2>2. CASE p # "turn"
      <3>1. OnlyAt(m, p, i)'
        BY <1>4, <1>6, <2>2 DEF OnlyAt
      <3>2. QED
        BY <3>1
    <2>3. QED
      BY <2>1, <2>2
  <1>7. \A m \in Message : (\A p, i : ~At(m, p, i)) => \A q, j : ~At(m, q, j)'
    BY <1>4
  <1>8. QED
    BY <1>1, <1>6, <1>7 DEF Moves

\* What was queued comes to the end of the conversation, in its order.
LEMMA AskMoves ==
  ASSUME RoundInv, KeptOnce, Ask, UNCHANGED <<followups, line, past>>
  PROVE  Moves
  <1>0. /\ Grows /\ Len(conv') = Len(conv) + Len(queue)
        /\ \A i \in 1..Len(queue) : conv'[Len(conv) + i].said = {queue[i]}
        /\ turn'.at = "fit" /\ turn'.text = turn.text /\ queue' = <<>>
    BY AskSays
  <1>01. conv \in Seq(Item) /\ queue \in Seq(Message) /\ turn.at = "top"
    BY DEF RoundInv, TypeOK, LoopTypeOK, Ask
  <1>1. /\ Len(conv) \in Nat /\ Len(conv') = Len(conv) + Len(queue) /\ Len(queue) \in Nat
        /\ \A i \in 1..Len(conv) : conv'[i] = conv[i]
        /\ \A i \in 1..Len(queue) : conv'[Len(conv) + i].said = {queue[i]}
        /\ turn'.at = "fit" /\ turn'.text = turn.text /\ queue' = <<>> /\ turn.text = {}
    BY <1>0, <1>01 DEF Grows, KeptOnce
  <1>a. PICK e \in Nat : e = Len(conv)
    BY <1>1
  <1>2. \A i : (i \in 1..Len(conv') <=> i \in 1..Len(conv) \/ \E k \in 1..Len(queue) : i = e + k)
    <2>1. \A i \in 1..Len(conv') : i \in 1..Len(conv) \/ (i - e \in 1..Len(queue) /\ i = e + (i - e))
      BY <1>1, <1>a
    <2>2. \A k \in 1..Len(queue) : e + k \in 1..Len(conv')
      BY <1>1, <1>a
    <2>3. \A i \in 1..Len(conv) : i \in 1..Len(conv')
      BY <1>1
    <2>4. QED
      BY <2>1, <2>2, <2>3
  <1>3. \A k \in 1..Len(queue) : e + k \notin 1..Len(conv)
    BY <1>1, <1>a
  <1>4. ASSUME NEW m \in Message, NEW q, NEW j
        PROVE  At(m, q, j)' <=>
                 \/ q # "queue" /\ At(m, q, j)
                 \/ q = "conv" /\ \E k \in 1..Len(queue) : j = e + k /\ At(m, "queue", k)
    <2>1. (j \in 1..Len(conv') /\ m \in conv'[j].said) <=>
            \/ j \in 1..Len(conv) /\ m \in conv[j].said
            \/ \E k \in 1..Len(queue) : j = e + k /\ queue[k] = m
      <3>1. ASSUME NEW k \in 1..Len(queue), j = e + k
            PROVE  m \in conv'[j].said <=> queue[k] = m
        BY <1>1, <1>a, <3>1
      <3>2. QED
        BY <1>1, <1>2, <3>1
    <2>2. \A k : k \notin 1..Len(queue')
      BY <1>1
    <2>3. QED
      BY <2>1, <2>2, <1>1 DEF At
  <1>5. \A m, i : At(m, "queue", i) => i \in 1..Len(queue)
    BY DEF At
  <1>6. ASSUME NEW m \in Message, NEW p, NEW i, OnlyAt(m, p, i)
        PROVE  \E q, j : OnlyAt(m, q, j)'
    <2>1. CASE p = "queue"
      <3>1. PICK c \in Int : c = e + i
        BY <1>5, <1>6, <2>1 DEF OnlyAt
      <3>2. OnlyAt(m, "conv", c)'
        BY <3>1, <1>4, <1>5, <1>6, <2>1 DEF OnlyAt
      <3>3. QED
        BY <3>2
    <2>2. CASE p # "queue"
      <3>1. OnlyAt(m, p, i)'
        BY <1>4, <1>6, <2>2 DEF OnlyAt
      <3>2. QED
        BY <3>1
    <2>3. QED
      BY <2>1, <2>2
  <1>7. \A m \in Message : (\A p, i : ~At(m, p, i)) => \A q, j : ~At(m, q, j)'
    BY <1>4
  <1>8. QED
    BY <1>1, <1>6, <1>7 DEF Moves

\* The older messages come into the summary, and the recent ones move up.
LEMMA FoldMoves ==
  ASSUME RoundInv, KeptOnce, Fit, conv' = Folded(conv), UNCHANGED <<followups, line, past>>
  PROVE  Moves
  <1> DEFINE split == Split(conv)
  <1>0. conv \in Seq(Item) /\ turn \in Turn /\ Len(conv) \in Nat
    BY DEF RoundInv, TypeOK, LoopTypeOK
  <1>1. PICK h \in {1, 2} :
          /\ conv' \in Seq(Item) /\ Len(conv') = h + (Len(conv) - split)
          /\ conv'[1].said = {m \in Message : \E k \in 1..split : m \in conv[k].said}
          /\ h = 2 => conv'[2].said = {}
          /\ \A i \in 1..Len(conv) - split : conv'[h + i] = conv[split + i]
    BY <1>0, FoldedElements
  <1>2. split \in Nat /\ split <= Len(conv)
    BY <1>0, Window
  <1>3. turn'.text = {} /\ turn.text = {} /\ queue' = queue
    <2>1. turn'.text = turn.text /\ turn.at = "fit"
      BY <1>0, GoToTyped DEF Fit, Point
    <2>2. QED
      BY <2>1 DEF KeptOnce, Fit
  <1>a. PICK s \in Nat : s = split
    BY <1>2
  <1> HIDE DEF split
  <1>4. \A j \in 1..Len(conv') : j = 1 \/ (j = 2 /\ h = 2) \/ \E k \in s + 1..Len(conv) : j = k - s + h
    <2>1. \A j \in 1..Len(conv') : j <= h \/ (j - h + s \in s + 1..Len(conv) /\ j = j - h + s - s + h)
      BY <1>0, <1>1, <1>2, <1>a
    <2>2. QED
      BY <2>1, <1>0, <1>1
  <1>5. \A k \in s + 1..Len(conv) : /\ k - s + h \in 1..Len(conv') /\ k - s + h # 1
                                    /\ (k - s + h = 2 => h # 2)
    BY <1>0, <1>1, <1>2, <1>a
  <1>6. ASSUME NEW k \in s + 1..Len(conv)
        PROVE  conv'[k - s + h] = conv[k]
    <2>1. k - s \in 1..Len(conv) - split /\ h + (k - s) = k - s + h /\ split + (k - s) = k
      BY <1>0, <1>1, <1>2, <1>a
    <2>2. QED
      BY <2>1, <1>1
  <1>7. 1 \in 1..Len(conv')
    BY <1>0, <1>1, <1>2
  <1>8. \A k \in 1..Len(conv) : k \in 1..s \/ k \in s + 1..Len(conv)
    BY <1>0, <1>2, <1>a
  <1>81. \A k \in 1..s : k \in 1..Len(conv)
    BY <1>0, <1>2, <1>a
  <1>82. \A k \in s + 1..Len(conv) : k \in 1..Len(conv)
    BY <1>0, <1>2, <1>a
  <1>9. ASSUME NEW m \in Message, NEW j
        PROVE  At(m, "conv", j)' <=>
                 \/ j = 1 /\ \E k \in 1..s : At(m, "conv", k)
                 \/ \E k \in s + 1..Len(conv) : j = k - s + h /\ At(m, "conv", k)
    <2>1. At(m, "conv", j)' <=> j \in 1..Len(conv') /\ m \in conv'[j].said
      BY DEF At
    <2>2. \A k \in 1..Len(conv) : At(m, "conv", k) <=> m \in conv[k].said
      BY DEF At
    <2>3. m \in conv'[1].said <=> \E k \in 1..s : At(m, "conv", k)
      BY <1>1, <1>a, <1>81, <2>2
    <2>4. \A k \in s + 1..Len(conv) : m \in conv'[k - s + h].said <=> At(m, "conv", k)
      BY <1>6, <1>82, <2>2
    <2>5. h = 2 => m \notin conv'[2].said
      BY <1>1
    <2>6. ASSUME At(m, "conv", j)'
          PROVE  \/ j = 1 /\ \E k \in 1..s : At(m, "conv", k)
                 \/ \E k \in s + 1..Len(conv) : j = k - s + h /\ At(m, "conv", k)
      BY <2>1, <2>3, <2>4, <2>5, <2>6, <1>4
    <2>7. ASSUME j = 1, \E k \in 1..s : At(m, "conv", k)
          PROVE  At(m, "conv", j)'
      BY <2>1, <2>3, <2>7, <1>7
    <2>8. ASSUME NEW k \in s + 1..Len(conv), j = k - s + h, At(m, "conv", k)
          PROVE  At(m, "conv", j)'
      BY <2>1, <2>4, <2>8, <1>5
    <2>9. QED
      BY <2>6, <2>7, <2>8
  <1>10. \A m, q, j : q # "conv" => (At(m, q, j)' <=> At(m, q, j))
    BY <1>3 DEF At
  <1>11. \A m, i : At(m, "conv", i) => i \in 1..Len(conv)
    BY DEF At
  <1>12. ASSUME NEW m \in Message, NEW p, NEW i, OnlyAt(m, p, i)
         PROVE  \E q, j : OnlyAt(m, q, j)'
    <2>0. At(m, p, i) /\ \A q, j : At(m, q, j) => q = p /\ j = i
      BY <1>12 DEF OnlyAt
    <2>1. CASE p # "conv"
      <3>1. OnlyAt(m, p, i)'
        BY <2>0, <2>1, <1>9, <1>10 DEF OnlyAt
      <3>2. QED
        BY <3>1
    <2>2. CASE p = "conv" /\ i \in 1..s
      <3>1. i \notin s + 1..Len(conv)
        BY <2>2, <1>0
      <3>2. At(m, "conv", 1)' /\ \A j : At(m, "conv", j)' => j = 1
        BY <2>0, <2>2, <3>1, <1>9
      <3>3. \A q, j : At(m, q, j)' => q = "conv"
        BY <2>0, <2>2, <1>10
      <3>4. OnlyAt(m, "conv", 1)'
        BY <3>2, <3>3 DEF OnlyAt
      <3>5. QED
        BY <3>4
    <2>3. CASE p = "conv" /\ i \in s + 1..Len(conv)
      <3>1. i \notin 1..s
        BY <2>3, <1>0
      <3>2. PICK c \in Int : c = i - s + h
        BY <2>3, <1>0
      <3>3. At(m, "conv", c)' /\ \A j : At(m, "conv", j)' => j = c
        BY <2>0, <2>3, <3>1, <3>2, <1>9
      <3>4. \A q, j : At(m, q, j)' => q = "conv"
        BY <2>0, <2>3, <1>10
      <3>5. OnlyAt(m, "conv", c)'
        BY <3>3, <3>4 DEF OnlyAt
      <3>6. QED
        BY <3>5
    <2>4. QED
      BY <2>0, <2>1, <2>2, <2>3, <1>8, <1>11
  <1>13. \A m \in Message : (\A p, i : ~At(m, p, i)) => \A q, j : ~At(m, q, j)'
    BY <1>9, <1>10
  <1>14. QED
    BY <1>3, <1>12, <1>13 DEF Moves

\* A message that waited steers: it comes to the end of the queue.
LEMMA PromoteMoves ==
  ASSUME TypeOK, KeptOnce, NEW i \in 1..Len(followups), Promote(i)
  PROVE  Moves
  <1>0. /\ followups \in Seq(Message) /\ Len(followups) \in Nat /\ followups[i] \in Message
        /\ queue \in Seq(Message) /\ Len(queue) \in Nat
    BY DEF TypeOK, LoopTypeOK
  <1>1. /\ UNCHANGED <<conv, turn, line, past>> /\ queue' = Append(queue, followups[i])
        /\ followups' = SubSeq(followups, 1, i - 1) \o SubSeq(followups, i + 1, Len(followups))
    BY DEF Promote
  <1>2. /\ Len(followups') = Len(followups) - 1
        /\ \A j \in 1..i - 1 : followups'[j] = followups[j]
        /\ \A j \in i..Len(followups) - 1 : followups'[j] = followups[j + 1]
    BY <1>0, <1>1, WithoutElements
  <1>3. PICK e \in Nat : e = Len(queue) + 1
    BY <1>0
  <1>4. /\ \A j : (j \in 1..Len(queue') <=> j \in 1..Len(queue) \/ j = e)
        /\ e \notin 1..Len(queue)
        /\ queue'[e] = followups[i] /\ \A j \in 1..Len(queue) : queue'[j] = queue[j]
    <2>1. /\ Len(queue') = e /\ queue'[e] = followups[i]
          /\ \A j \in 1..Len(queue) : queue'[j] = queue[j]
      BY <1>0, <1>1, <1>3, AppendElements
    <2>2. /\ \A j : (j \in 1..e <=> j \in 1..Len(queue) \/ j = e)
          /\ e \notin 1..Len(queue)
      BY <1>0, <1>3
    <2>3. QED
      BY <2>1, <2>2
  <1>5. ASSUME NEW m \in Message, NEW j
        PROVE  At(m, "queue", j)' <=> At(m, "queue", j) \/ (j = e /\ At(m, "followups", i))
    BY <1>4 DEF At
  <1>6. ASSUME NEW m \in Message, NEW j
        PROVE  At(m, "followups", j)' <=>
                 \/ j \in 1..i - 1 /\ At(m, "followups", j)
                 \/ \E k \in i + 1..Len(followups) : j = k - 1 /\ At(m, "followups", k)
    <2>1. At(m, "followups", j)' <=> j \in 1..Len(followups') /\ followups'[j] = m
      BY DEF At
    <2>2. \A k \in 1..Len(followups) : At(m, "followups", k) <=> followups[k] = m
      BY DEF At
    <2>3. /\ \A k \in 1..i - 1 : k \in 1..Len(followups) /\ k \in 1..Len(followups')
          /\ \A k \in i + 1..Len(followups) : /\ k - 1 \in i..Len(followups) - 1 /\ k - 1 + 1 = k
                                              /\ k \in 1..Len(followups)
                                              /\ k - 1 \in 1..Len(followups')
      BY <1>0, <1>2
    <2>4. \A k \in i + 1..Len(followups) : followups'[k - 1] = followups[k]
      BY <1>2, <2>3
    <2>5. j \in 1..Len(followups') =>
            \/ j \in 1..i - 1
            \/ j \in Int /\ j + 1 \in i + 1..Len(followups)
      BY <1>0, <1>2
    <2>6. ASSUME At(m, "followups", j)'
          PROVE  \/ j \in 1..i - 1 /\ At(m, "followups", j)
                 \/ \E k \in i + 1..Len(followups) : j = k - 1 /\ At(m, "followups", k)
      <3>1. CASE j \in 1..i - 1
        BY <3>1, <2>1, <2>2, <2>3, <2>6, <1>2
      <3>2. CASE j \in Int /\ j + 1 \in i + 1..Len(followups)
        <4>1. PICK k \in i + 1..Len(followups) : k = j + 1 /\ j = k - 1
          BY <3>2
        <4>2. followups[k] = m
          BY <4>1, <2>1, <2>4, <2>6
        <4>3. QED
          BY <4>1, <4>2, <2>2, <2>3
      <3>3. QED
        BY <3>1, <3>2, <2>1, <2>5, <2>6
    <2>7. ASSUME j \in 1..i - 1, At(m, "followups", j)
          PROVE  At(m, "followups", j)'
      BY <2>1, <2>2, <2>3, <2>7, <1>2
    <2>8. ASSUME NEW k \in i + 1..Len(followups), j = k - 1, At(m, "followups", k)
          PROVE  At(m, "followups", j)'
      BY <2>1, <2>2, <2>3, <2>4, <2>8
    <2>9. QED
      BY <2>6, <2>7, <2>8
  <1>7. ASSUME NEW m \in Message, NEW q, NEW j, q \notin {"queue", "followups"}
        PROVE  At(m, q, j)' <=> At(m, q, j)
    BY <1>1, <1>7 DEF At
  <1>8. \A m, j : At(m, "followups", j) => j \in 1..Len(followups)
    BY DEF At
  <1>9. \A k \in 1..Len(followups) : /\ k = i \/ k \in 1..i - 1 \/ k \in i + 1..Len(followups)
                                     /\ ~(k = i /\ k \in 1..i - 1)
                                     /\ ~(k = i /\ k \in i + 1..Len(followups))
                                     /\ ~(k \in 1..i - 1 /\ k \in i + 1..Len(followups))
    BY <1>0
  <1>10. ASSUME NEW m \in Message, NEW p, NEW j, OnlyAt(m, p, j)
         PROVE  \E q, k : OnlyAt(m, q, k)'
    <2>0. At(m, p, j) /\ \A q, k : At(m, q, k) => q = p /\ k = j
      BY <1>10 DEF OnlyAt
    <2>1. CASE p # "followups"
      <3>1. \A k : ~At(m, "followups", k)
        BY <2>0, <2>1
      <3>2. \A q, k : At(m, q, k)' <=> At(m, q, k)
        BY <3>1, <1>5, <1>6, <1>7
      <3>3. OnlyAt(m, p, j)'
        BY <3>2, <2>0 DEF OnlyAt
      <3>4. QED
        BY <3>3
    <2>2. CASE p = "followups" /\ j = i
      <3>1. At(m, "queue", e)' /\ \A k : At(m, "queue", k)' => k = e
        BY <2>0, <2>2, <1>5
      <3>2. \A k : ~At(m, "followups", k)'
        BY <2>0, <2>2, <1>0, <1>6, <1>9
      <3>3. \A q, k : At(m, q, k)' => q = "queue"
        BY <2>0, <2>2, <3>2, <1>7
      <3>4. OnlyAt(m, "queue", e)'
        BY <3>1, <3>3 DEF OnlyAt
      <3>5. QED
        BY <3>4
    <2>3. CASE p = "followups" /\ j # i
      <3>1. j \in 1..i - 1 \/ j \in i + 1..Len(followups)
        BY <2>0, <2>3, <1>8, <1>9
      <3>2. \A k : ~At(m, "queue", k)'
        BY <2>0, <2>3, <1>5
      <3>3. \A q, k : At(m, q, k)' => q = "followups"
        BY <2>0, <2>3, <3>2, <1>7
      <3>4. CASE j \in 1..i - 1
        <4>1. At(m, "followups", j)' /\ \A k : At(m, "followups", k)' => k = j
          <5>1. j \notin i + 1..Len(followups)
            BY <3>4, <1>0
          <5>2. QED
            BY <5>1, <2>0, <2>3, <3>4, <1>6
        <4>2. OnlyAt(m, "followups", j)'
          BY <4>1, <3>3 DEF OnlyAt
        <4>3. QED
          BY <4>2
      <3>5. CASE j \in i + 1..Len(followups)
        <4>0. PICK c \in Int : c = j - 1
          BY <3>5, <1>0
        <4>1. At(m, "followups", c)' /\ \A k : At(m, "followups", k)' => k = c
          <5>1. j \notin 1..i - 1
            BY <3>5, <1>0
          <5>2. QED
            BY <5>1, <4>0, <2>0, <2>3, <3>5, <1>6
        <4>2. OnlyAt(m, "followups", c)'
          BY <4>1, <3>3 DEF OnlyAt
        <4>3. QED
          BY <4>2
      <3>6. QED
        BY <3>1, <3>4, <3>5
    <2>4. QED
      BY <2>1, <2>2, <2>3
  <1>11. \A m \in Message : (\A p, j : ~At(m, p, j)) => \A q, k : ~At(m, q, k)'
    BY <1>5, <1>6, <1>7
  <1>12. turn'.at # "accepted" => turn'.text = {}
    BY <1>1 DEF KeptOnce
  <1>13. QED
    BY <1>1, <1>10, <1>11, <1>12 DEF Moves

\* The places of the three lines of messages are counted from one.
LEMMA LinesCounted ==
  ASSUME TypeOK, NEW m, NEW from \in {"queue", "followups", "line"}, NEW k, At(m, from, k)
  PROVE  k \in Nat /\ k > 0
  BY DEF At, TypeOK, LoopTypeOK

\* The first n of a line of messages go to one spot elsewhere, and the others
\* move up.
HandsOn(from, n, to, spot) ==
  \A m \in Message : \A j :
    /\ At(m, from, j)' <=> \E k \in Nat : k > n /\ j = k - n /\ At(m, from, k)
    /\ At(m, to, j)' <=> \/ At(m, to, j)
                         \/ j = spot /\ \E k \in 1..n : At(m, from, k)
    /\ \A q : q \notin {from, to} => (At(m, q, j)' <=> At(m, q, j))

\* A step that hands messages on moves them.
LEMMA HandedOn ==
  ASSUME TypeOK, NEW from \in {"queue", "followups", "line"}, NEW n \in Nat,
         NEW to, NEW spot, to # from,
         past'.typed = past.typed, turn'.at # "accepted" => turn'.text = {},
         HandsOn(from, n, to, spot)
  PROVE  Moves
  <1>0. ASSUME NEW m, NEW k, At(m, from, k)
        PROVE  k \in Nat /\ k > 0
    BY <1>0, LinesCounted
  <1> USE DEF HandsOn
  <1>1. ASSUME NEW m \in Message, NEW p, NEW i, OnlyAt(m, p, i)
        PROVE  \E q, j : OnlyAt(m, q, j)'
    <2>0. At(m, p, i) /\ \A q, j : At(m, q, j) => q = p /\ j = i
      BY <1>1 DEF OnlyAt
    <2>1. CASE p # from
      <3>1. \A k : ~At(m, from, k)
        BY <2>0, <2>1
      <3>2. \A q, j : At(m, q, j)' <=> At(m, q, j)
        BY <3>1
      <3>3. OnlyAt(m, p, i)'
        BY <3>2, <2>0 DEF OnlyAt
      <3>4. QED
        BY <3>3
    <2>2. CASE p = from
      <3>0. i \in Nat /\ i > 0
        BY <2>0, <2>2, <1>0
      <3>1. CASE i <= n
        <4>1. i \in 1..n /\ \A k \in Nat : At(m, from, k) => ~(k > n)
          BY <3>0, <3>1, <2>0, <2>2
        <4>2. At(m, to, spot)' /\ \A j : At(m, to, j)' => j = spot
          <5>1. \A j : At(m, to, j)' <=> \/ At(m, to, j)
                                         \/ j = spot /\ \E k \in 1..n : At(m, from, k)
            BY DEF HandsOn
          <5> HIDE DEF HandsOn
          <5>2. \A j : ~At(m, to, j)
            BY <2>0, <2>2
          <5>3. \E k \in 1..n : At(m, from, k)
            BY <4>1, <2>0, <2>2
          <5>4. QED
            BY <5>1, <5>2, <5>3
        <4>a. /\ \A j : At(m, from, j)' => \E k \in Nat : k > n /\ At(m, from, k)
              /\ \A q, j : q \notin {from, to} => (At(m, q, j)' <=> At(m, q, j))
          BY DEF HandsOn
        <4>3. \A q, j : At(m, q, j)' => q = to
          <5> HIDE DEF HandsOn
          <5> SUFFICES ASSUME NEW q, NEW j, At(m, q, j)', q # to
                       PROVE  FALSE
            OBVIOUS
          <5>1. CASE q = from
            BY <4>1, <4>a, <5>1
          <5>2. CASE q # from
            <6>1. At(m, q, j)
              BY <4>a, <5>2
            <6>2. QED
              BY <6>1, <5>2, <2>0, <2>2
          <5>3. QED
            BY <5>1, <5>2
        <4>4. OnlyAt(m, to, spot)'
          BY <4>2, <4>3 DEF OnlyAt
        <4>5. QED
          BY <4>4
      <3>2. CASE i > n
        <4>0. PICK c \in Int : c = i - n
          BY <3>0
        <4>1. \A k \in 1..n : ~At(m, from, k)
          BY <3>0, <3>2, <2>0, <2>2
        <4>2. \A j : ~At(m, to, j)'
          BY <4>1, <2>0, <2>2
        <4>3. At(m, from, c)' /\ \A j : At(m, from, j)' => j = c
          BY <4>0, <3>0, <3>2, <2>0, <2>2
        <4>a. \A q, j : q \notin {from, to} => (At(m, q, j)' <=> At(m, q, j))
          BY DEF HandsOn
        <4>4. \A q, j : At(m, q, j)' => q = from
          <5> HIDE DEF HandsOn
          <5> SUFFICES ASSUME NEW q, NEW j, At(m, q, j)', q # from
                       PROVE  FALSE
            OBVIOUS
          <5>1. q # to
            BY <4>2
          <5>2. At(m, q, j)
            BY <4>a, <5>1
          <5>3. QED
            BY <2>0, <2>2, <5>2
        <4>5. OnlyAt(m, from, c)'
          BY <4>3, <4>4 DEF OnlyAt
        <4>6. QED
          BY <4>5
      <3>3. QED
        BY <3>0, <3>1, <3>2
    <2>3. QED
      BY <2>1, <2>2
  <1>2. \A m \in Message : (\A p, i : ~At(m, p, i)) => \A q, j : ~At(m, q, j)'
    OBVIOUS
  <1>3. QED
    BY <1>1, <1>2 DEF Moves

\* The first of a line is taken, and the others move up.
LEMMA LineShortened ==
  ASSUME TypeOK, NEW m
  PROVE  /\ followups # <<>> /\ followups' = Tail(followups) =>
              \A j : At(m, "followups", j)' <=>
                       \E k \in Nat : k > 1 /\ j = k - 1 /\ At(m, "followups", k)
         /\ line # <<>> /\ line' = Tail(line) =>
              \A j : At(m, "line", j)' <=>
                       \E k \in Nat : k > 1 /\ j = k - 1 /\ At(m, "line", k)
  <1>1. ASSUME NEW S, NEW q \in Seq(S), q # <<>>, NEW j
        PROVE  /\ j \in 1..Len(Tail(q)) <=> \E k \in Nat : k > 1 /\ j = k - 1 /\ k \in 1..Len(q)
               /\ \A k \in 1..Len(q) : k > 1 => Tail(q)[k - 1] = q[k]
    <2>1. Len(q) \in Nat /\ Len(Tail(q)) = Len(q) - 1
      BY <1>1
    <2>2. ASSUME j \in 1..Len(Tail(q))
          PROVE  \E k \in Nat : k > 1 /\ j = k - 1 /\ k \in 1..Len(q)
      <3>1. PICK k \in Nat : k = j + 1
        BY <2>2
      <3>2. k > 1 /\ j = k - 1 /\ k \in 1..Len(q)
        BY <3>1, <2>1, <2>2
      <3>3. QED
        BY <3>2
    <2>3. ASSUME NEW k \in Nat, k > 1, j = k - 1, k \in 1..Len(q)
          PROVE  j \in 1..Len(Tail(q))
      BY <2>1, <2>3
    <2>4. \A k \in 1..Len(q) : k > 1 => Tail(q)[k - 1] = q[k]
      BY <1>1
    <2>5. QED
      BY <2>2, <2>3, <2>4
  <1>2. ASSUME followups # <<>>, followups' = Tail(followups), NEW j
        PROVE  At(m, "followups", j)' <=>
                 \E k \in Nat : k > 1 /\ j = k - 1 /\ At(m, "followups", k)
    <2>1. followups \in Seq(Message)
      BY DEF TypeOK
    <2>2. /\ j \in 1..Len(followups') <=>
               \E k \in Nat : k > 1 /\ j = k - 1 /\ k \in 1..Len(followups)
          /\ \A k \in 1..Len(followups) : k > 1 => followups'[k - 1] = followups[k]
      BY <1>1, <1>2, <2>1
    <2>3. \A k : At(m, "followups", k) <=> k \in 1..Len(followups) /\ followups[k] = m
      BY DEF At
    <2>4. At(m, "followups", j)' <=> j \in 1..Len(followups') /\ followups'[j] = m
      BY DEF At
    <2>5. QED
      BY <2>2, <2>3, <2>4
  <1>3. ASSUME line # <<>>, line' = Tail(line), NEW j
        PROVE  At(m, "line", j)' <=> \E k \in Nat : k > 1 /\ j = k - 1 /\ At(m, "line", k)
    <2>1. line \in Seq(SUBSET Message)
      BY DEF TypeOK
    <2>2. /\ j \in 1..Len(line') <=>
               \E k \in Nat : k > 1 /\ j = k - 1 /\ k \in 1..Len(line)
          /\ \A k \in 1..Len(line) : k > 1 => line'[k - 1] = line[k]
      BY <1>1, <1>3, <2>1
    <2>3. \A k : At(m, "line", k) <=> k \in 1..Len(line) /\ m \in line[k]
      BY DEF At
    <2>4. At(m, "line", j)' <=> j \in 1..Len(line') /\ m \in line'[j]
      BY DEF At
    <2>5. QED
      BY <2>2, <2>3, <2>4
  <1>4. QED
    BY <1>2, <1>3

\* A text goes to a turn of its own, or to the end of those who wait.
Goes(text) ==
  \/ /\ turn'.at = "accepted" /\ turn'.text = text /\ line' = line
  \/ /\ turn'.text = {} /\ line' = Append(line, text)

\* Where the messages of such a text are then.
LEMMA TextGoes ==
  ASSUME TypeOK, turn.text = {}, NEW text \in SUBSET Message, Goes(text)
  PROVE  \E to \in {"turn", "line"} : \E spot :
           \A m \in Message : \A j :
             /\ At(m, to, j)' <=> At(m, to, j) \/ (j = spot /\ m \in text)
             /\ \A q \in {"turn", "line"} : q # to => (At(m, q, j)' <=> At(m, q, j))
  <1>1. CASE turn'.at = "accepted" /\ turn'.text = text /\ line' = line
    <2>1. ASSUME NEW m \in Message, NEW j
          PROVE  /\ At(m, "turn", j)' <=> At(m, "turn", j) \/ (j = 0 /\ m \in text)
                 /\ At(m, "line", j)' <=> At(m, "line", j)
      BY <1>1 DEF At
    <2>2. QED
      BY <2>1
  <1>2. CASE turn'.text = {} /\ line' = Append(line, text)
    <2>0. line \in Seq(SUBSET Message) /\ Len(line) \in Nat
      BY DEF TypeOK
    <2>1. PICK e \in Nat : e = Len(line) + 1
      BY <2>0
    <2>2. /\ \A j : (j \in 1..Len(line') <=> j \in 1..Len(line) \/ j = e)
          /\ e \notin 1..Len(line)
          /\ line'[e] = text /\ \A j \in 1..Len(line) : line'[j] = line[j]
      BY <1>2, <2>0, <2>1
    <2>3. ASSUME NEW m \in Message, NEW j
          PROVE  /\ At(m, "line", j)' <=> At(m, "line", j) \/ (j = e /\ m \in text)
                 /\ At(m, "turn", j)' <=> At(m, "turn", j)
      BY <1>2, <2>2 DEF At
    <2>4. QED
      BY <2>3
  <1>3. QED
    BY <1>1, <1>2 DEF Goes

\* Messages of the queues go on as the text of a turn, and the others move up.
Takes(text, from, n) ==
  \A m \in Message :
    /\ m \in text <=> \E k \in 1..n : At(m, from, k)
    /\ \A j : At(m, from, j)' <=> \E k \in Nat : k > n /\ j = k - n /\ At(m, from, k)
    /\ \A q \in {"queue", "followups"} \ {from} : \A j : At(m, q, j)' <=> At(m, q, j)

\* A step that does so moves them.
LEMMA TextHanded ==
  ASSUME TypeOK, turn.text = {}, NEW text \in SUBSET Message, Goes(text),
         NEW from \in {"queue", "followups"}, NEW n \in Nat, past' = past, conv' = conv,
         Takes(text, from, n)
  PROVE  Moves
  <1> USE DEF Takes
  <1>1. PICK to \in {"turn", "line"} : \E spot :
          \A m \in Message : \A j :
            /\ At(m, to, j)' <=> At(m, to, j) \/ (j = spot /\ m \in text)
            /\ \A q \in {"turn", "line"} : q # to => (At(m, q, j)' <=> At(m, q, j))
    BY TextGoes
  <1>2. PICK spot :
          \A m \in Message : \A j :
            /\ At(m, to, j)' <=> At(m, to, j) \/ (j = spot /\ m \in text)
            /\ \A q \in {"turn", "line"} : q # to => (At(m, q, j)' <=> At(m, q, j))
    BY <1>1
  <1>3. to # from
    BY <1>1
  <1>4. ASSUME NEW m \in Message, NEW q, NEW j, q \notin {from, to}
        PROVE  At(m, q, j)' <=> At(m, q, j)
    <2>1. CASE q \in {"queue", "followups"}
      BY <2>1, <1>4
    <2>2. CASE q \in {"turn", "line"}
      BY <2>2, <1>2, <1>4
    <2>3. CASE q \notin {"queue", "followups", "turn", "line"}
      BY <2>3 DEF At
    <2>4. QED
      BY <2>1, <2>2, <2>3
  <1>5. \A m \in Message : \A j :
          At(m, to, j)' <=> \/ At(m, to, j)
                            \/ j = spot /\ \E k \in 1..n : At(m, from, k)
    BY <1>2
  <1>6. turn'.at # "accepted" => turn'.text = {}
    BY DEF Goes
  <1>7. past'.typed = past.typed /\ from \in {"queue", "followups", "line"}
    OBVIOUS
  <1>8. \A m \in Message : \A q, j : q \notin {from, to} => (At(m, q, j)' <=> At(m, q, j))
    BY <1>4
  <1>9. HandsOn(from, n, to, spot)
    BY <1>5, <1>8 DEF HandsOn
  <1> HIDE DEF Takes
  <1>10. QED
    BY <1>3, <1>6, <1>7, <1>9, HandedOn

\* The next in line: its text is taken up.
LEMMA StartMoves ==
  ASSUME TypeOK, KeptOnce, StartTurn
  PROVE  Moves
  <1>1. /\ turn.text = {} /\ line # <<>> /\ line' = Tail(line) /\ turn' = NewTurn(Head(line))
        /\ UNCHANGED <<conv, batch, queue, followups, stopping, past>>
    BY DEF StartTurn, KeptOnce
  <1>2. /\ line \in Seq(SUBSET Message) /\ Head(line) = line[1] /\ 1 \in 1..Len(line)
        /\ Head(line) \in SUBSET Message /\ turn \in Turn
    BY <1>1 DEF TypeOK, LoopTypeOK
  <1>3. turn'.at = "accepted" /\ turn'.text = line[1]
    BY <1>1, <1>2, NewTyped
  <1>4. \A m \in Message : \A j :
          At(m, "line", j)' <=> \E k \in Nat : k > 1 /\ j = k - 1 /\ At(m, "line", k)
    BY <1>1, LineShortened
  <1>5. ASSUME NEW m \in Message, NEW j
        PROVE  At(m, "turn", j)' <=> \/ At(m, "turn", j)
                                     \/ j = 0 /\ \E k \in 1..1 : At(m, "line", k)
    <2>1. (\E k \in 1..1 : At(m, "line", k)) <=> m \in line[1]
      BY <1>2 DEF At
    <2>2. QED
      BY <1>1, <1>3, <2>1 DEF At
  <1>6. ASSUME NEW m \in Message, NEW q, NEW j, q \notin {"line", "turn"}
        PROVE  At(m, q, j)' <=> At(m, q, j)
    BY <1>1, <1>6 DEF At
  <1>7. past'.typed = past.typed /\ (turn'.at # "accepted" => turn'.text = {})
    BY <1>1, <1>3
  <1>8. HandsOn("line", 1, "turn", 0)
    BY <1>4, <1>5, <1>6 DEF HandsOn
  <1>9. QED
    BY <1>7, <1>8, HandedOn

\* A turn of its own for what is left is a turn, or a place at the end of the line.
LEMMA GoingOn ==
  ASSUME TypeOK, NEW text \in SUBSET Message, GoOnWith(text)
  PROVE  Goes(text)
  <1>1. turn \in Turn
    BY DEF TypeOK, LoopTypeOK
  <1>2. /\ NewTurn(text).at = "accepted" /\ NewTurn(text).text = text
        /\ NoTurn(turn.no).text = {}
    BY <1>1, NewTyped
  <1>3. QED
    BY <1>2 DEF GoOnWith, Goes

\* A turn has returned: what was left is dropped, stays, or goes on.
LEMMA ReturnMoves ==
  ASSUME TypeOK, KeptOnce, TurnReturns
  PROVE  Moves
  <1>0. /\ turn.text = {} /\ turn \in Turn /\ turn.at = "done"
        /\ UNCHANGED <<conv, batch, stopping>>
        /\ queue \in Seq(Message) /\ followups \in Seq(Message)
        /\ past \in [typed : 0..MaxMessages, dropped : SUBSET Message, stops : 0..MaxStops]
    BY DEF TurnReturns, KeptOnce, TypeOK, LoopTypeOK
  <1>00. /\ NoTurn(turn.no).text = {} /\ [NoTurn(turn.no) EXCEPT !.end = "raised"].text = {}
    BY DEF NoTurn
  <1>01. \A k : k \notin 1..Len(<<>>)
    OBVIOUS
  <1>1. CASE /\ queue' = <<>> /\ followups' = <<>>
             /\ past' = [past EXCEPT !.dropped = @ \cup Texts(queue) \cup Texts(followups)]
             /\ turn' = NoTurn(turn.no) /\ UNCHANGED line
    <2>1. /\ past'.typed = past.typed
          /\ past'.dropped = past.dropped \cup Texts(queue) \cup Texts(followups)
          /\ turn'.text = {}
      BY <1>0, <1>00, <1>1
    <2>2. ASSUME NEW m \in Message
          PROVE  m \in past'.dropped <=> \/ m \in past.dropped
                                         \/ \E k : At(m, "queue", k)
                                         \/ \E k : At(m, "followups", k)
      BY <2>1 DEF At, Texts
    <2>3. ASSUME NEW m \in Message, NEW q, NEW j
          PROVE  At(m, q, j)' <=>
                   \/ q \notin {"queue", "followups"} /\ At(m, q, j)
                   \/ /\ q = "dropped" /\ j = 0
                      /\ \E p \in {"queue", "followups"} : \E k : At(m, p, k)
      <3>1. ~At(m, "queue", j)' /\ ~At(m, "followups", j)'
        BY <1>1, <1>01 DEF At
      <3>2. At(m, "dropped", j)' <=> j = 0 /\ m \in past'.dropped
        BY DEF At
      <3>3. At(m, "dropped", j) <=> j = 0 /\ m \in past.dropped
        BY DEF At
      <3>4. CASE q \notin {"queue", "followups", "dropped"}
        BY <3>4, <1>0, <1>1, <2>1 DEF At
      <3>5. CASE q = "dropped"
        BY <3>5, <3>2, <3>3, <2>2
      <3>6. QED
        BY <3>1, <3>4, <3>5
    <2>4. ASSUME NEW m \in Message, NEW p, NEW i, OnlyAt(m, p, i)
          PROVE  \E q, j : OnlyAt(m, q, j)'
      <3>1. CASE p \in {"queue", "followups"}
        <4>1. OnlyAt(m, "dropped", 0)'
          BY <2>3, <2>4, <3>1 DEF OnlyAt
        <4>2. QED
          BY <4>1
      <3>2. CASE p \notin {"queue", "followups"}
        <4>1. OnlyAt(m, p, i)'
          BY <2>3, <2>4, <3>2 DEF OnlyAt
        <4>2. QED
          BY <4>1
      <3>3. QED
        BY <3>1, <3>2
    <2>5. \A m \in Message : (\A p, i : ~At(m, p, i)) => \A q, j : ~At(m, q, j)'
      BY <2>3
    <2>6. QED
      BY <2>1, <2>4, <2>5 DEF Moves
  <1>2. CASE /\ turn' = [NoTurn(turn.no) EXCEPT !.end = "raised"] \/ turn' = NoTurn(turn.no)
             /\ UNCHANGED <<queue, followups, line, past>>
    <2>1. turn'.text = {} /\ past'.typed = past.typed
      BY <1>00, <1>2
    <2>2. ASSUME NEW m \in Message, NEW q, NEW j
          PROVE  At(m, q, j)' <=> At(m, q, j)
      BY <1>0, <1>2, <2>1 DEF At
    <2>3. QED
      BY <2>1, <2>2, StaysKeep
  <1>3. CASE /\ queue # <<>> /\ queue' = <<>> /\ UNCHANGED <<followups, past>>
             /\ GoOnWith(Texts(queue))
    <2>0. Texts(queue) \in SUBSET Message
      BY <1>0 DEF Texts
    <2>1. PICK text \in SUBSET Message : text = Texts(queue)
      BY <2>0
    <2>2. Goes(text)
      BY <1>3, <2>1, GoingOn
    <2>3. PICK n \in Nat : n = Len(queue)
      BY <1>0
    <2>4. ASSUME NEW m \in Message
          PROVE  /\ m \in text <=> \E k \in 1..n : At(m, "queue", k)
                 /\ \A k : At(m, "queue", k) => k \in 1..n
      BY <2>1, <2>3 DEF At, Texts
    <2>5. ASSUME NEW m \in Message, NEW j
          PROVE  At(m, "queue", j)' <=> \E k \in Nat : k > n /\ j = k - n /\ At(m, "queue", k)
      <3>1. ~At(m, "queue", j)'
        BY <1>3, <1>01 DEF At
      <3>2. \A k \in 1..n : ~(k > n)
        BY <2>3
      <3>3. QED
        BY <3>1, <3>2, <2>4
    <2>6. \A m \in Message : \A q \in {"queue", "followups"} \ {"queue"} : \A j :
            At(m, q, j)' <=> At(m, q, j)
      BY <1>3 DEF At
    <2>7. past' = past /\ conv' = conv
      BY <1>0, <1>3
    <2>8. Takes(text, "queue", n)
      BY <2>4, <2>5, <2>6 DEF Takes
    <2>9. QED
      BY <2>2, <2>7, <2>8, <1>0, TextHanded
  <1>4. CASE /\ followups # <<>> /\ queue' = queue /\ followups' = Tail(followups)
             /\ past' = past /\ GoOnWith({Head(followups)})
    <2>0. Head(followups) = followups[1] /\ followups[1] \in Message /\ 1 \in 1..Len(followups)
      BY <1>0, <1>4
    <2>1. PICK text \in SUBSET Message : text = {followups[1]}
      BY <2>0
    <2>2. Goes(text)
      BY <1>4, <2>0, <2>1, GoingOn
    <2>4. ASSUME NEW m \in Message
          PROVE  m \in text <=> \E k \in 1..1 : At(m, "followups", k)
      <3>1. At(m, "followups", 1) <=> followups[1] = m
        BY <2>0 DEF At
      <3>2. QED
        BY <2>1, <3>1
    <2>5. \A m \in Message : \A j :
            At(m, "followups", j)' <=> \E k \in Nat : k > 1 /\ j = k - 1 /\ At(m, "followups", k)
      BY <1>4, LineShortened
    <2>6. \A m \in Message : \A q \in {"queue", "followups"} \ {"followups"} : \A j :
            At(m, q, j)' <=> At(m, q, j)
      BY <1>4 DEF At
    <2>7. Takes(text, "followups", 1)
      BY <2>4, <2>5, <2>6 DEF Takes
    <2>8. QED
      BY <2>2, <2>7, <1>0, <1>4, TextHanded
  <1>5. QED
    BY <1>1, <1>2, <1>3, <1>4 DEF TurnReturns, Left

\* A message comes to one spot, and all others lie where they lay.
Lays(m0, to, spot) ==
  \A m \in Message : \A q, j :
    At(m, q, j)' <=> At(m, q, j) \/ (m = m0 /\ q = to /\ j = spot)

\* A message is typed: it lies where it was put, and all others where they were.
LEMMA SubmitKeeps ==
  ASSUME TypeOK, KeptOnce, NEW m0 \in Message, Submit(m0)
  PROVE  KeptOnce'
  <1>0. /\ m0 = past.typed + 1 /\ past'.typed = m0 /\ past'.dropped = past.dropped
        /\ past.typed \in Nat /\ m0 \in Nat /\ conv' = conv
        /\ queue \in Seq(Message) /\ Len(queue) \in Nat
        /\ followups \in Seq(Message) /\ Len(followups) \in Nat /\ turn \in Turn
        /\ {m0} \in SUBSET Message
    BY LoopAssumption DEF Submit, TypeOK, LoopTypeOK, Message
  <1>1. PICK to, spot : Lays(m0, to, spot)
    <2>1. CASE queue' = Append(queue, m0) /\ UNCHANGED <<turn, followups, line>>
      <3>1. PICK e \in Nat : e = Len(queue) + 1
        BY <1>0
      <3>2. /\ \A j : (j \in 1..Len(queue') <=> j \in 1..Len(queue) \/ j = e)
            /\ e \notin 1..Len(queue)
            /\ queue'[e] = m0 /\ \A j \in 1..Len(queue) : queue'[j] = queue[j]
        BY <1>0, <2>1, <3>1
      <3>3. ASSUME NEW m \in Message, NEW q, NEW j
            PROVE  At(m, q, j)' <=> At(m, q, j) \/ (m = m0 /\ q = "queue" /\ j = e)
        BY <1>0, <2>1, <3>2 DEF At
      <3>4. Lays(m0, "queue", e)
        BY <3>3 DEF Lays
      <3>5. QED
        BY <3>4
    <2>2. CASE followups' = Append(followups, m0) /\ UNCHANGED <<turn, queue, line>>
      <3>1. PICK e \in Nat : e = Len(followups) + 1
        BY <1>0
      <3>2. /\ \A j : (j \in 1..Len(followups') <=> j \in 1..Len(followups) \/ j = e)
            /\ e \notin 1..Len(followups)
            /\ followups'[e] = m0 /\ \A j \in 1..Len(followups) : followups'[j] = followups[j]
        BY <1>0, <2>2, <3>1
      <3>3. ASSUME NEW m \in Message, NEW q, NEW j
            PROVE  At(m, q, j)' <=> At(m, q, j) \/ (m = m0 /\ q = "followups" /\ j = e)
        BY <1>0, <2>2, <3>2 DEF At
      <3>4. Lays(m0, "followups", e)
        BY <3>3 DEF Lays
      <3>5. QED
        BY <3>4
    <2>3. ASSUME Goes({m0}), turn.text = {}, UNCHANGED <<queue, followups>>
          PROVE  \E to, spot : Lays(m0, to, spot)
      <3>1. PICK to \in {"turn", "line"} : \E spot :
              \A m \in Message : \A j :
                /\ At(m, to, j)' <=> At(m, to, j) \/ (j = spot /\ m \in {m0})
                /\ \A q \in {"turn", "line"} : q # to => (At(m, q, j)' <=> At(m, q, j))
        BY <1>0, <2>3, TextGoes
      <3>2. PICK spot :
              \A m \in Message : \A j :
                /\ At(m, to, j)' <=> At(m, to, j) \/ (j = spot /\ m \in {m0})
                /\ \A q \in {"turn", "line"} : q # to => (At(m, q, j)' <=> At(m, q, j))
        BY <3>1
      <3>3. ASSUME NEW m \in Message, NEW q, NEW j
            PROVE  At(m, q, j)' <=> At(m, q, j) \/ (m = m0 /\ q = to /\ j = spot)
        <4>1. CASE q \in {"turn", "line"}
          BY <4>1, <3>2
        <4>2. CASE q \notin {"turn", "line"}
          BY <4>2, <3>1, <2>3, <1>0 DEF At
        <4>3. QED
          BY <4>1, <4>2
      <3>4. Lays(m0, to, spot)
        BY <3>3 DEF Lays
      <3>5. QED
        BY <3>4
    <2>4. CASE turn.at = "off" /\ turn' = NewTurn({m0}) /\ UNCHANGED <<queue, followups, line>>
      <3>1. turn'.at = "accepted" /\ turn'.text = {m0} /\ turn.text = {}
        BY <1>0, <2>4, NewTyped DEF KeptOnce
      <3>2. QED
        BY <3>1, <2>3, <2>4 DEF Goes
    <2>5. CASE /\ turn.at \in {"off", "done"} /\ line' = Append(line, {m0})
               /\ UNCHANGED <<turn, queue, followups>>
      <3>1. turn'.text = {} /\ turn.text = {}
        BY <2>5 DEF KeptOnce
      <3>2. QED
        BY <3>1, <2>3, <2>5 DEF Goes
    <2>6. QED
      BY <2>1, <2>2, <2>4, <2>5 DEF Submit
  <1>2. \A q, j : ~At(m0, q, j)
    BY <1>0 DEF KeptOnce
  <1>3. OnlyAt(m0, to, spot)'
    BY <1>1, <1>2 DEF OnlyAt, Lays
  <1>4. ASSUME NEW m \in 1..past.typed
        PROVE  \E q, j : OnlyAt(m, q, j)'
    <2>1. m \in Message /\ m # m0
      <3>1. past.typed \in 0..MaxMessages /\ MaxMessages \in Nat
        BY LoopAssumption DEF TypeOK
      <3>2. QED
        BY <1>0, <3>1 DEF Message
    <2>2. PICK p, i : OnlyAt(m, p, i)
      BY DEF KeptOnce
    <2>3. OnlyAt(m, p, i)'
      BY <1>1, <2>1, <2>2 DEF OnlyAt, Lays
    <2>4. QED
      BY <2>3
  <1>5. \A m \in 1..past'.typed : m = m0 \/ m \in 1..past.typed
    BY <1>0
  <1>6. \A m \in Message : m > past'.typed => m # m0 /\ m > past.typed
    BY <1>0 DEF Message
  <1>7. \A m \in Message : m > past'.typed => \A q, j : ~At(m, q, j)'
    BY <1>1, <1>6 DEF KeptOnce, Lays
  <1>8. turn'.at # "accepted" => turn'.text = {}
    <2>1. CASE turn' = NewTurn({m0})
      BY <2>1, <1>0, NewTyped
    <2>2. CASE turn' = turn
      BY <2>2 DEF KeptOnce
    <2>3. QED
      BY <2>1, <2>2 DEF Submit
  <1>9. \A m \in 1..past'.typed : \E q, j : OnlyAt(m, q, j)'
    BY <1>3, <1>4, <1>5
  <1>10. QED
    BY <1>7, <1>8, <1>9 DEF KeptOnce

\* Every step keeps every message in one place.
LEMMA KeptStep ==
  ASSUME RoundInv, KeptOnce, [Next]_vars
  PROVE  KeptOnce'
  <1>0. TypeOK /\ turn \in Turn
    BY DEF RoundInv, TypeOK, LoopTypeOK
  <1>a. ASSUME UNCHANGED <<conv, queue, followups, line>>, past'.typed = past.typed,
               past'.dropped = past.dropped, turn'.at = turn.at, turn'.text = turn.text
        PROVE  Moves
    <2>1. ASSUME NEW m \in Message, NEW q, NEW j
          PROVE  At(m, q, j)' <=> At(m, q, j)
      BY <1>a DEF At
    <2>2. turn'.at # "accepted" => turn'.text = {}
      BY <1>a DEF KeptOnce
    <2>3. QED
      BY <1>a, <2>1, <2>2, StaysKeep
  <1>1. CASE Loop(LoopNext)
    <2>1. UNCHANGED <<followups, line, past>> /\ LoopNext
      BY <1>1 DEF Loop, sessionVars
    <2>2. Moves
      BY <2>1, LoopSteps, QuietMoves, PrepareMoves, AskMoves, FoldMoves
    <2>3. QED
      BY <1>0, <2>2, MovesKeep
  <1>2. CASE \E m \in Message : Submit(m)
    BY <1>0, <1>2, SubmitKeeps
  <1>3. CASE \E i \in 1..Len(followups) : Promote(i)
    BY <1>0, <1>3, PromoteMoves, MovesKeep
  <1>4. CASE StartTurn
    BY <1>0, <1>4, StartMoves, MovesKeep
  <1>5. CASE TurnReturns
    BY <1>0, <1>5, ReturnMoves, MovesKeep
  <1>6. CASE PressStop
    <2>1. past' = [past EXCEPT !.stops = @ + 1] /\ UNCHANGED <<conv, turn, queue, followups, line>>
      BY <1>6 DEF PressStop
    <2>2. past \in [typed : 0..MaxMessages, dropped : SUBSET Message, stops : 0..MaxStops]
      BY <1>0 DEF TypeOK
    <2>3. past'.typed = past.typed /\ past'.dropped = past.dropped
      BY <2>1, <2>2
    <2>4. QED
      BY <1>0, <1>a, <2>1, <2>3, MovesKeep
  <1>7. CASE StopLands
    <2>1. /\ turn' = IF Running THEN [turn EXCEPT !.cancel = TRUE] ELSE turn
          /\ UNCHANGED <<conv, queue, followups, line, past>>
      BY <1>7 DEF StopLands
    <2>2. turn'.at = turn.at /\ turn'.text = turn.text
      BY <2>1, <1>0 DEF Turn
    <2>3. QED
      BY <1>0, <1>a, <2>1, <2>2, MovesKeep
  <1>8. CASE UNCHANGED vars
    BY <1>0, <1>a, <1>8, MovesKeep DEF vars
  <1>9. QED
    BY <1>1, <1>2, <1>3, <1>4, <1>5, <1>6, <1>7, <1>8 DEF Next

\* At the start nothing was typed, and nothing lies anywhere.
LEMMA KeptInit == Init => KeptOnce
  <1> SUFFICES ASSUME Init
               PROVE  KeptOnce
    OBVIOUS
  <1>1. /\ conv = <<>> /\ queue = <<>> /\ followups = <<>> /\ line = <<>>
        /\ past.typed = 0 /\ past.dropped = {} /\ turn.text = {}
    BY DEF Init, LoopInit, NoTurn
  <1>2. \A k : k \notin 1..Len(<<>>)
    OBVIOUS
  <1>3. ASSUME NEW m, NEW q, NEW j
        PROVE  ~At(m, q, j)
    BY <1>1, <1>2 DEF At
  <1>4. 1..past.typed = {}
    BY <1>1
  <1>5. QED
    BY <1>1, <1>3, <1>4 DEF KeptOnce

\* What the user typed is in exactly one place, in the conversation, in a queue,
\* with whoever waits for the lock or among what a stop dropped, whatever ended
\* the turns it met and in whatever order.
THEOREM KeptInOnePlace == Spec => []EachOnce
  <1>1. KeptOnce => EachOnce
    BY OnePlace DEF KeptOnce, EachOnce
  <1>2. RoundInv /\ KeptOnce /\ [Next]_vars => KeptOnce'
    BY KeptStep
  <1>3. QED
    BY <1>1, <1>2, KeptInit, RoundsHold, PTL DEF Spec
=============================================================================
