------------------------------ MODULE SeqLemmas ------------------------------
(***************************************************************************)
(* Lemmas about sequences that the proofs about the connections and the    *)
(* queue share: how a sequence is split, and what is at the front of it.   *)
(***************************************************************************)
EXTENDS TLAPS, SequenceTheorems

AreSeqs(S, s, t, u)  == s \in Seq(S) /\ t \in Seq(S) /\ u \in Seq(S)
LeftConcat(s, t, u)  == (s \o t) \o u
RightConcat(s, t, u) == s \o (t \o u)

LEMMA ConcatBoth ==
  ASSUME NEW S, NEW s, NEW t, NEW u
  PROVE  AreSeqs(S, s, t, u) => LeftConcat(s, t, u) = RightConcat(s, t, u)
BY DEF AreSeqs, LeftConcat, RightConcat

LEMMA SplitSeq ==
  ASSUME NEW S, NEW s \in Seq(S), NEW n \in 0..Len(s)
  PROVE  /\ SubSeq(s, n + 1, Len(s)) \in Seq(S) /\ SubSeq(s, 1, n) \in Seq(S)
         /\ SubSeq(s, 1, n) \o SubSeq(s, n + 1, Len(s)) = s
<1>1. \A i \in 1..Len(s) : s[i] \in S
  BY ElementOfSeq
<1>2. Len(s) \in Nat /\ n \in Nat /\ n <= Len(s)
  OBVIOUS
<1>3. SubSeq(s, n + 1, Len(s)) \in Seq(S) /\ SubSeq(s, 1, n) \in Seq(S)
  BY <1>1, SubSeqProperties
<1>4. 1 \in 1..(Len(s) + 1) /\ n \in (1 - 1)..Len(s) /\ Len(s) \in n..Len(s)
  BY <1>2
<1>5. SubSeq(s, 1, n) \o SubSeq(s, n + 1, Len(s)) = SubSeq(s, 1, Len(s))
  BY <1>4, ConcatAdjacentSubSeq
<1>6. SubSeq(s, 1, Len(s)) = s
  BY SubSeqFull
<1> QED
  BY <1>3, <1>5, <1>6

\* The first n elements of t move to the end of s: a is what s becomes, b what is
\* left of t.
Moved(s, t, n, a, b)   == a = s \o SubSeq(t, 1, n) /\ b = SubSeq(t, n + 1, Len(t))
SameConcat(a, b, s, t) == a \o b = s \o t

LEMMA MoveFront ==
  ASSUME NEW S, NEW s \in Seq(S), NEW t \in Seq(S), NEW n \in 0..Len(t), NEW a, NEW b,
         Moved(s, t, n, a, b)
  PROVE  a \in Seq(S) /\ b \in Seq(S) /\ SameConcat(a, b, s, t)
<1>0. a = s \o SubSeq(t, 1, n) /\ b = SubSeq(t, n + 1, Len(t))
  BY DEF Moved
<1>1. PICK x \in Seq(S) : x = SubSeq(t, 1, n)
  BY SplitSeq
<1>2. b \in Seq(S) /\ x \o b = t
  BY <1>0, <1>1, SplitSeq
<1>3. a = s \o x
  BY <1>0, <1>1
<1>4. AreSeqs(S, s, x, b)
  BY <1>2 DEF AreSeqs
<1>5. LeftConcat(s, x, b) = RightConcat(s, x, b)
  BY <1>4, ConcatBoth
<1>6. (s \o x) \o b = s \o (x \o b)
  BY <1>5 DEF LeftConcat, RightConcat
<1>7. s \o x \in Seq(S)
  BY ConcatProperties
<1>8. a \in Seq(S)
  BY <1>3, <1>7
<1>9. a \o b = s \o t
  BY <1>2, <1>3, <1>6
<1> QED
  BY <1>2, <1>8, <1>9 DEF SameConcat

LEMMA ConsCancel ==
  ASSUME NEW S, NEW h \in S, NEW t \in Seq(S), NEW a \in S, NEW s \in Seq(S),
         <<h>> \o t = <<a>> \o s
  PROVE  h = a /\ t = s
<1>1. (<<h>> \o t)[1] = h /\ (<<a>> \o s)[1] = a
  OBVIOUS
<1>2. Len(<<h>> \o t) = Len(t) + 1 /\ Len(<<a>> \o s) = Len(s) + 1
  OBVIOUS
<1>3. \A i \in 1..Len(t) : (<<h>> \o t)[i + 1] = t[i]
  OBVIOUS
<1>4. \A i \in 1..Len(s) : (<<a>> \o s)[i + 1] = s[i]
  OBVIOUS
<1>5. Len(t) = Len(s) /\ \A i \in 1..Len(t) : t[i] = s[i]
  BY <1>2, <1>3, <1>4
<1> QED
  BY <1>1, <1>5, SeqEqual

\* Taking the head of the first of two sequences.
LEMMA TakeHead ==
  ASSUME NEW S, NEW s \in Seq(S), NEW t \in Seq(S), s # <<>>
  PROVE  /\ Head(s) \in S /\ Tail(s) \in Seq(S)
         /\ Tail(s) \o t \in Seq(S) /\ s \o t = <<Head(s)>> \o (Tail(s) \o t)
<1>1. Head(s) \in S /\ Tail(s) \in Seq(S)
  BY HeadTailProperties
<1>2. s = <<Head(s)>> \o Tail(s)
  OBVIOUS
<1>3. AreSeqs(S, <<Head(s)>>, Tail(s), t)
  BY <1>1 DEF AreSeqs
<1>4. LeftConcat(<<Head(s)>>, Tail(s), t) = RightConcat(<<Head(s)>>, Tail(s), t)
  BY <1>3, ConcatBoth
<1>5. s \o t = <<Head(s)>> \o (Tail(s) \o t)
  BY <1>2, <1>4 DEF LeftConcat, RightConcat
<1> QED
  BY <1>1, <1>5, ConcatProperties
=============================================================================
