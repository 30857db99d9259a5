------------------------ MODULE BatchExecutionProofs ------------------------
(***************************************************************************)
(* A payload's results are its own, and so are its errors, for any number  *)
(* of payloads, any requests and any models.  The argument follows a       *)
(* payload's rows: the blocks of its body add up to what was sent, each    *)
(* backend gathers them at the rows behind those of the payloads before,   *)
(* the framework computes row by row, and the outputs are scattered from   *)
(* the rows where the inputs were gathered.                                *)
(***************************************************************************)
EXTENDS BatchExecution, FiniteSetTheorems, WellFoundedInduction, TLAPS

(***************************************************************************)
(* Sequences of a set, least and greatest numbers.                         *)
(***************************************************************************)

\* A finite set is put into a sequence without repetition.
LEMMA SetToSeqFacts ==
    ASSUME NEW S, IsFiniteSet(S)
    PROVE  /\ SetToSeq(S) \in Seq(S)
           /\ Len(SetToSeq(S)) = Cardinality(S) /\ Cardinality(S) \in Nat
           /\ DOMAIN SetToSeq(S) = 1..Cardinality(S)
           /\ \A a, b \in 1..Cardinality(S) : SetToSeq(S)[a] = SetToSeq(S)[b] => a = b
           /\ \A x \in S : \E a \in 1..Cardinality(S) : SetToSeq(S)[a] = x
<1>1. PICK n \in Nat : n = Cardinality(S)
  BY FS_CardinalityType
<1>2. ExistsBijection(1..n, S)
  BY <1>1, FS_CardinalityType
<1>3. \E f \in [1..n -> S] : IsInjective(f)
  BY <1>2 DEF ExistsBijection, Bijection, Injection, Surjection
<1>4. SetToSeq(S) \in [1..n -> S] /\ IsInjective(SetToSeq(S))
  BY <1>1, <1>3 DEF SetToSeq
<1>5. PICK f : f = SetToSeq(S)
  OBVIOUS
<1>6. f \in Injection(1..n, S)
  BY <1>4, <1>5 DEF Injection
<1>7. IsFiniteSet(1..n) /\ Cardinality(1..n) = n
  BY FS_Interval
<1>8. f \in Surjection(1..n, S)
  BY <1>1, <1>6, <1>7, FS_Injection
<1>9. \A x \in S : \E a \in 1..n : f[a] = x
  BY <1>8 DEF Surjection
<1>10. f \in Seq(S) /\ Len(f) = n /\ DOMAIN f = 1..n
  BY <1>4, <1>5
<1>11. \A a, b \in 1..n : f[a] = f[b] => a = b
  BY <1>4, <1>5, <1>10 DEF IsInjective
<1>12. QED
  BY <1>1, <1>5, <1>9, <1>10, <1>11

\* A set of natural numbers that is not empty has a least one.
LEMMA LeastNumber ==
    ASSUME NEW T \in SUBSET Nat, T # {}
    PROVE  Min(T) \in T /\ \A n \in T : Min(T) <= n
<1>1. PICK R : R = {ss \in Nat \X Nat : ss[1] < ss[2]}
  OBVIOUS
<1>2. R = OpToRel(<, Nat)
  BY <1>1 DEF OpToRel
<1>3. PICK m \in T : \A n \in T : ~ (<<n, m>> \in R)
  BY <1>2, NatLessThanWellFounded, WFMin
<1>4. ASSUME NEW n \in T PROVE m <= n
  <2>1. <<n, m>> \notin R /\ m \in Nat /\ n \in Nat
    BY <1>3
  <2>2. QED
    BY <1>1, <2>1
<1>5. \E k \in T : \A n \in T : k <= n
  BY <1>4
<1>6. QED
  BY <1>5 DEF Min

\* Only one element can be the greatest or the least.
LEMMA OfOne ==
    ASSUME NEW n \in Int
    PROVE  Min({n}) = n /\ Max({n}) = n
BY DEF Min, Max

\* An interval from 1 is finite and as large as its end.
LEMMA UpTo == \A n \in Nat : IsFiniteSet(1..n) /\ Cardinality(1..n) = n
<1>1. ASSUME NEW n \in Nat PROVE IsFiniteSet(1..n) /\ Cardinality(1..n) = n
  BY FS_Interval
<1>2. QED
  BY <1>1

\* A sequence of as many names as the set it names has each name once.
LEMMA NamedOnce ==
    ASSUME NEW S, NEW s \in Seq(S), IsFiniteSet(S), Len(s) = Cardinality(S),
           {s[j] : j \in DOMAIN s} = S
    PROVE  \A a, b \in DOMAIN s : s[a] = s[b] => a = b
<1>1. s \in [1..Len(s) -> S] /\ DOMAIN s = 1..Len(s) /\ Len(s) \in Nat
  OBVIOUS
<1>2. s \in Surjection(1..Len(s), S)
  BY <1>1 DEF Surjection
<1>3. IsFiniteSet(1..Len(s)) /\ Cardinality(1..Len(s)) = Len(s)
  BY <1>1, UpTo
<1>4. s \in Injection(1..Len(s), S)
  BY <1>2, <1>3, FS_SurjSameCardinalityImpliesInj
<1>5. QED
  BY <1>1, <1>4 DEF Injection, IsInjective

(***************************************************************************)
(* A request and what is read of it.                                       *)
(***************************************************************************)

\* What is sent for a fixed-size input, or for strings that are as many as
\* they should be.
SentWhole(m, r, i) == ~IsString(m, i) \/ r.strings = "each"

\* What can be sent for input i of payload p.
Parts(p, i) == {<<p, i, k>> : k \in Nat} \cup {Cut}

\* The tokens of the first rows of an input are what a client sends.
LEMMA TokensFacts ==
    ASSUME NEW p, NEW i, NEW n \in Nat
    PROVE  /\ Tokens(p, i, n) \in Seq(Parts(p, i))
           /\ Len(Tokens(p, i, n)) = n
           /\ \A k \in 1..n : Tokens(p, i, n)[k] = <<p, i, k>>
BY DEF Tokens, Parts

\* What was sent as it should be is a row for each row of the batch.
LEMMA SentFacts ==
    ASSUME NEW m, NEW r, NEW p, NEW i, r.batch \in Nat \ {0},
           r.strings \in {"each", "few", "many", "cut"},
           NEW s, s = Sent(m, r, p, i)
    PROVE  /\ Len(s) \in Nat
           /\ s \in Seq(Parts(p, i))
           /\ DOMAIN s = 1..Len(s)
           /\ SentWhole(m, r, i) =>
                 /\ Len(s) = r.batch
                 /\ \A k \in 1..r.batch : s[k] = <<p, i, k>>
           /\ ~SentWhole(m, r, i) =>
                 /\ r.strings = "few" => Len(s) = r.batch - 1
                 /\ r.strings = "many" =>
                       /\ Len(s) = r.batch + 1
                       /\ \A k \in DOMAIN s : s[k] = <<p, i, k>>
                 /\ r.strings = "cut" =>
                       /\ Len(s) = r.batch
                       /\ s[r.batch] = Cut
<1>1. CASE SentWhole(m, r, i)
  <2>1. PICK t : t = Tokens(p, i, r.batch)
    OBVIOUS
  <2>2. Sent(m, r, p, i) = t
    BY <1>1, <2>1 DEF Sent, SentWhole
  <2>3. /\ t \in Seq(Parts(p, i)) /\ Len(t) = r.batch
        /\ \A k \in 1..r.batch : t[k] = <<p, i, k>>
    BY <2>1, TokensFacts
  <2>4. QED
    BY <1>1, <2>2, <2>3
<1>2. CASE ~SentWhole(m, r, i) /\ r.strings = "few"
  <2>1. PICK n \in Nat : n = r.batch - 1
    OBVIOUS
  <2>2. PICK t : t = Tokens(p, i, n)
    OBVIOUS
  <2>3. Sent(m, r, p, i) = t
    BY <1>2, <2>1, <2>2 DEF Sent, SentWhole
  <2>4. t \in Seq(Parts(p, i)) /\ Len(t) = n
    BY <2>1, <2>2, TokensFacts
  <2>5. t \in Seq(Parts(p, i)) /\ DOMAIN t = 1..Len(t) /\ Len(t) \in Nat /\ Len(t) = r.batch - 1
    BY <2>1, <2>4
  <2>7. s = t
    BY <2>3
  <2>8. s \in Seq(Parts(p, i)) /\ DOMAIN s = 1..Len(s) /\ Len(s) \in Nat /\ Len(s) = r.batch - 1
    BY <2>5, <2>7
  <2>9. r.strings # "many" /\ r.strings # "cut" /\ ~SentWhole(m, r, i)
    BY <1>2
  <2>10. QED
    BY <2>8, <2>9
<1>3. CASE ~SentWhole(m, r, i) /\ r.strings = "many"
  <2>1. PICK n \in Nat : n = r.batch + 1
    OBVIOUS
  <2>2. PICK t : t = Tokens(p, i, n)
    OBVIOUS
  <2>3. Sent(m, r, p, i) = t
    BY <1>3, <2>1, <2>2 DEF Sent, SentWhole
  <2>4. /\ t \in Seq(Parts(p, i)) /\ Len(t) = n
        /\ \A k \in 1..n : t[k] = <<p, i, k>>
    BY <2>1, <2>2, TokensFacts
  <2>5. DOMAIN t = 1..Len(t) /\ Len(t) \in Nat /\ Len(t) = r.batch + 1
    BY <2>1, <2>4
  <2>6. r.strings # "few" /\ r.strings # "cut" /\ \A k \in DOMAIN t : t[k] = <<p, i, k>>
    BY <1>3, <2>1, <2>4, <2>5
  <2>7. QED
    BY <1>3, <2>3, <2>4, <2>5, <2>6, Zenon
<1>4. CASE ~SentWhole(m, r, i) /\ r.strings = "cut"
  <2>1. PICK n \in Nat : n = r.batch - 1
    OBVIOUS
  <2>2. PICK t : t = Tokens(p, i, n)
    OBVIOUS
  <2>3. Sent(m, r, p, i) = Append(t, Cut)
    BY <1>4, <2>1, <2>2 DEF Sent, SentWhole
  <2>4. t \in Seq(Parts(p, i)) /\ Len(t) = n
    BY <2>1, <2>2, TokensFacts
  <2>5. /\ Append(t, Cut) \in Seq(Parts(p, i))
        /\ Len(Append(t, Cut)) = n + 1
        /\ Append(t, Cut)[n + 1] = Cut
    <3>1. Cut \in Parts(p, i)
      BY DEF Parts
    <3>2. QED
      BY <2>4, <3>1
  <2>6. n + 1 = r.batch
    BY <2>1
  <2>7. PICK a : a = Append(t, Cut)
    OBVIOUS
  <2>8. /\ a \in Seq(Parts(p, i)) /\ DOMAIN a = 1..Len(a) /\ Len(a) \in Nat /\ Len(a) = r.batch
        /\ a[r.batch] = Cut
    BY <2>5, <2>6, <2>7
  <2>9. r.strings # "few" /\ r.strings # "many" /\ ~SentWhole(m, r, i)
    BY <1>4
  <2>11. s = a
    BY <2>3, <2>7
  <2>12. /\ s \in Seq(Parts(p, i)) /\ DOMAIN s = 1..Len(s) /\ Len(s) \in Nat /\ Len(s) = r.batch
         /\ s[r.batch] = Cut
    BY <2>8, <2>11
  <2>13. s \in Seq(Parts(p, i)) /\ DOMAIN s = 1..Len(s) /\ Len(s) \in Nat
    BY <2>12
  <2>14. QED
    BY <2>9, <2>12, <2>13, Zenon
<1>5. r.strings = "each" => SentWhole(m, r, i)
  BY DEF SentWhole
<1>6. QED
  BY <1>1, <1>2, <1>3, <1>4, <1>5

\* Input i of provider q was not read yet and n bytes were sent of it, in whole
\* blocks.
Unread(q, i, n) ==
  /\ n \in Nat \ {0} /\ q.at[i] = 0 /\ Len(q.buffers[i].data) = n
  /\ q.buffers[i].ends \subseteq 0..n /\ n \in q.buffers[i].ends

\* All of it is copied.
AllCopied(q, i, n, room) ==
  /\ CopyBlocks(q, i, n, room).status = "ok"
  /\ CopyBlocks(q, i, n, room).data = SubSeq(q.buffers[i].data, 1, n)

\* A buffer's data is read whole by who wants all of it and has room for it.
LEMMA CopyWhole ==
    ASSUME NEW q, NEW i, NEW n, NEW room \in Int, n <= room, Unread(q, i, n)
    PROVE  AllCopied(q, i, n, room)
<1>0. /\ n \in Nat \ {0} /\ q.at[i] = 0 /\ Len(q.buffers[i].data) = n
      /\ q.buffers[i].ends \subseteq 0..n /\ n \in q.buffers[i].ends
  BY DEF Unread
<1>1. PICK ends : ends = {e \in q.buffers[i].ends : e > q.at[i]}
  OBVIOUS
<1>2. PICK stops : stops = {e \in ends : e - q.at[i] = n \/ e - q.at[i] > room}
  OBVIOUS
<1>3. stops = {n}
  BY <1>0, <1>1, <1>2
<1>4. Min(stops) = n
  <2>1. n \in Int
    BY <1>0
  <2>2. QED
    BY <1>3, <2>1, OfOne
<1>5. stops # {}
  BY <1>3
<1>6. n - q.at[i] = n /\ ~(n - q.at[i] > room) /\ q.at[i] + 1 = 1
  BY <1>0
<1>7. CopyBlocks(q, i, n, room) =
        [data |-> SubSeq(q.buffers[i].data, 1, n), at |-> [q.at EXCEPT ![i] = n],
         status |-> "ok"]
  BY <1>1, <1>2, <1>4, <1>5, <1>6, Zenon DEF CopyBlocks
<1>8. QED
  <2>1. PICK x : x = [q.at EXCEPT ![i] = n]
    OBVIOUS
  <2>2. PICK d : d = SubSeq(q.buffers[i].data, 1, n)
    OBVIOUS
  <2>3. CopyBlocks(q, i, n, room) = [data |-> d, at |-> x, status |-> "ok"]
    BY <1>7, <2>1, <2>2
  <2>4. CopyBlocks(q, i, n, room).status = "ok" /\ CopyBlocks(q, i, n, room).data = d
    BY <2>3
  <2>5. QED
    BY <2>2, <2>4, Zenon DEF AllCopied

\* A provider of payload p of model m, whose request is r: its buffers hold
\* what was sent.
Supplied(q, m, r, p) ==
  /\ q = [null |-> r.via = "null", buffers |-> q.buffers, at |-> q.at]
  /\ q.at = [i \in Inputs \cup Controls |-> q.at[i]]
  /\ r.via # "null" =>
       /\ DOMAIN q.buffers = {r.names[j] : j \in DOMAIN r.names}
       /\ \A i \in DOMAIN q.buffers :
            /\ q.buffers[i].data = Sent(m, r, p, i)
            /\ q.buffers[i].ends \subseteq 0..Len(Sent(m, r, p, i))
            /\ Len(Sent(m, r, p, i)) # 0 => Len(Sent(m, r, p, i)) \in q.buffers[i].ends

\* A request as it is after it was admitted to model m.
Proper(m, r) ==
  /\ r.via \in {"http", "grpc", "null"} /\ r.batch \in Nat \ {0}
  /\ r.strings \in {"each", "few", "many", "cut"}
  /\ r.names \in Seq(m.inputs) /\ Len(r.names) = Cardinality(m.inputs)
  /\ m.inputs \subseteq Inputs
  /\ m.sequence => r.batch = 1

\* What reading leaves of a provider: only the position of the input read
\* changes.
LEMMA ContentKeeps ==
    ASSUME NEW m, NEW r, NEW p, NEW q, Supplied(q, m, r, p),
           NEW i \in Inputs \cup Controls, NEW want \in Nat, NEW room,
           NEW c, c = Content(q, p, i, want, room)
    PROVE  /\ c.status \in {"ok", "invalid", "internal"}
           /\ c.at = [j \in Inputs \cup Controls |-> c.at[j]]
           /\ \A j \in Inputs \cup Controls : j # i => c.at[j] = q.at[j]
<1>1. c = Content(q, p, i, want, room)
  OBVIOUS
<1>2. CASE c.at = q.at /\ c.status \in {"ok", "invalid", "internal"}
  BY <1>1, <1>2 DEF Supplied
<1>3. ASSUME NEW v, c.at = [q.at EXCEPT ![i] = v], c.status \in {"ok", "invalid", "internal"}
      PROVE  /\ c.at = [j \in Inputs \cup Controls |-> c.at[j]]
             /\ \A j \in Inputs \cup Controls : j # i => c.at[j] = q.at[j]
  BY <1>3 DEF Supplied
<1>4. c = Nothing(q) \/ c = NullContent(q, want) \/ c = [Nothing(q) EXCEPT !.status = "internal"]
         => c.at = q.at /\ c.status \in {"ok", "invalid", "internal"}
  BY DEF Nothing, NullContent
<1>5. c = GetInputOverrideContent(q, p, i, want)
         => c.at = [q.at EXCEPT ![i] = 1] /\ c.status \in {"ok", "invalid", "internal"}
  BY DEF GetInputOverrideContent
<1>6. c = CopyBlocks(q, i, want, room)
         => (\E v : c.at = [q.at EXCEPT ![i] = v]) /\ c.status \in {"ok", "invalid", "internal"}
  <2>1. PICK ends : ends = {e \in q.buffers[i].ends : e > q.at[i]}
    OBVIOUS
  <2>2. PICK stops : stops = {e \in ends : e - q.at[i] = want \/ e - q.at[i] > room}
    OBVIOUS
  <2>3. PICK upto : upto = IF stops = {} THEN Len(q.buffers[i].data) ELSE Min(stops)
    OBVIOUS
  <2>4. /\ CopyBlocks(q, i, want, room).at = [q.at EXCEPT ![i] = upto]
        /\ CopyBlocks(q, i, want, room).status =
             IF upto - q.at[i] > room THEN "invalid"
             ELSE IF upto - q.at[i] # want THEN "internal" ELSE "ok"
    BY <2>1, <2>2, <2>3 DEF CopyBlocks
  <2>5. QED
    BY <2>4
<1>7. \/ c = Nothing(q) \/ c = NullContent(q, want) \/ c = [Nothing(q) EXCEPT !.status = "internal"]
      \/ c = GetInputOverrideContent(q, p, i, want) \/ c = CopyBlocks(q, i, want, room)
  BY <1>1 DEF Content
<1>8. QED
  BY <1>1, <1>2, <1>3, <1>4, <1>5, <1>6, <1>7

\* What reading an input for the first time gives: all that was sent, if the
\* payload has the input and there is room for it.
LEMMA ContentGives ==
    ASSUME NEW m, NEW r, Proper(m, r), NEW p, NEW q, Supplied(q, m, r, p),
           NEW i \in Inputs \cup Controls, q.at[i] = 0,
           NEW want \in Nat, NEW room \in Int, want <= room,
           Inputs \cap Controls = {}
    PROVE  LET c == Content(q, p, i, want, room)
           IN  /\ i \in Controls /\ want = 1 => c.status = "ok" /\ c.data = Tokens(p, i, 1)
               /\ i \in Inputs /\ r.via = "null" => c.status = "ok"
               /\ (i \in Inputs /\ r.via # "null" /\ i \notin DOMAIN q.buffers /\ want # 0)
                    => c.status = "internal"
               /\ (i \in Inputs /\ r.via # "null" /\ i \in DOMAIN q.buffers
                     /\ want = Len(Sent(m, r, p, i)))
                    => c.status = "ok" /\ c.data = Sent(m, r, p, i)
<1>1. PICK c : c = Content(q, p, i, want, room)
  OBVIOUS
<1>2. q.null = (r.via = "null")
  BY DEF Supplied
<1>3. ASSUME i \in Controls, want = 1 PROVE c.status = "ok" /\ c.data = Tokens(p, i, 1)
  <2>1. c = GetInputOverrideContent(q, p, i, want)
    BY <1>1, <1>3 DEF Content
  <2>2. QED
    BY <1>3, <2>1 DEF GetInputOverrideContent
<1>4. ASSUME i \in Inputs, r.via = "null" PROVE c.status = "ok"
  <2>1. c = NullContent(q, want) \/ c = Nothing(q)
    BY <1>1, <1>2, <1>4 DEF Content
  <2>2. QED
    BY <2>1 DEF NullContent, Nothing
<1>5. ASSUME i \in Inputs, r.via # "null", i \notin DOMAIN q.buffers, want # 0
      PROVE  c.status = "internal"
  <2>1. c = [Nothing(q) EXCEPT !.status = "internal"]
    BY <1>1, <1>2, <1>5 DEF Content
  <2>2. QED
    BY <2>1 DEF Nothing
<1>6. ASSUME i \in Inputs, r.via # "null", i \in DOMAIN q.buffers, want = Len(Sent(m, r, p, i))
      PROVE  c.status = "ok" /\ c.data = Sent(m, r, p, i)
  <2>1. PICK s : s = Sent(m, r, p, i)
    OBVIOUS
  <2>2. s \in Seq(Parts(p, i)) /\ Len(s) = want
    BY <1>6, <2>1, SentFacts DEF Proper
  <2>3. CASE want = 0
    <3>1. c = Nothing(q)
      BY <1>1, <2>3 DEF Content
    <3>2. s = << >>
      BY <2>2, <2>3
    <3>3. QED
      BY <2>1, <3>1, <3>2 DEF Nothing
  <2>4. CASE want # 0
    <3>1. c = CopyBlocks(q, i, want, room)
      BY <1>1, <1>2, <1>6, <2>4 DEF Content
    <3>2. /\ q.buffers[i].data = s /\ q.buffers[i].ends \subseteq 0..want
          /\ want \in q.buffers[i].ends
      BY <1>6, <2>1, <2>2, <2>4 DEF Supplied
    <3>3. want \in Nat \ {0} /\ Len(q.buffers[i].data) = want
      BY <2>2, <2>4, <3>2
    <3>4. q.at[i] = 0 /\ want <= room /\ room \in Int
      OBVIOUS
    <3>5. /\ CopyBlocks(q, i, want, room).status = "ok"
          /\ CopyBlocks(q, i, want, room).data = SubSeq(q.buffers[i].data, 1, want)
      <4>1. Unread(q, i, want)
        BY <3>2, <3>3, <3>4 DEF Unread
      <4>2. AllCopied(q, i, want, room)
        BY <3>4, <4>1, CopyWhole
      <4>3. QED
        BY <4>2 DEF AllCopied
    <3>6. c.status = "ok" /\ c.data = SubSeq(s, 1, want)
      <4>1. q.buffers[i].data = s
        BY <3>2
      <4>2. QED
        BY <3>1, <3>5, <4>1, Zenon
    <3>7. SubSeq(s, 1, want) = s
      BY <2>2
    <3>8. QED
      BY <2>1, <3>6, <3>7
  <2>5. QED
    BY <2>3, <2>4
<1>7. QED
  BY <1>1, <1>3, <1>4, <1>5, <1>6

(***************************************************************************)
(* The rows of a batch.                                                    *)
(***************************************************************************)

\* The payloads of a batch are finitely many, and none is empty.
Sized == /\ InBatch \subseteq Payloads
         /\ \A p \in InBatch : SizeOf(p) \in Nat \ {0}

\* There are finitely many payloads.
LEMMA BatchFinite == IsFiniteSet(Payloads) /\ \A p \in Payloads : p \in Nat
BY CountIsPositive, FS_Interval DEF Payloads

\* The rows of some payloads are finitely many.
LEMMA RowsFacts ==
    ASSUME Sized, NEW S \in SUBSET InBatch
    PROVE  IsFiniteSet(RowsOf(S)) /\ Behind(S) \in Nat
<1>1. IsFiniteSet(S)
  BY BatchFinite, FS_Subset DEF Sized
<1>2. PICK T : T = {{p} \X (1..SizeOf(p)) : p \in S}
  OBVIOUS
<1>3. IsFiniteSet(T)
  <2>1. PICK f : f = [p \in S |-> {p} \X (1..SizeOf(p))]
    OBVIOUS
  <2>2. f \in Surjection(S, T)
    BY <1>2, <2>1 DEF Surjection
  <2>3. QED
    BY <1>1, <2>2, FS_Surjection
<1>4. ASSUME NEW t \in T PROVE IsFiniteSet(t)
  <2>1. PICK p \in S : t = {p} \X (1..SizeOf(p))
    BY <1>2
  <2>2. IsFiniteSet({p}) /\ IsFiniteSet(1..SizeOf(p))
    BY FS_Singleton, UpTo DEF Sized
  <2>3. QED
    BY <2>1, <2>2, FS_Product
<1>5. IsFiniteSet(UNION T)
  BY <1>3, <1>4, FS_UNION
<1>6. QED
  BY <1>2, <1>5, FS_CardinalityType DEF RowsOf, Behind

\* Each payload adds as many rows as it has.
LEMMA BehindOneMore ==
    ASSUME Sized, NEW S \in SUBSET InBatch, NEW p \in InBatch, p \notin S
    PROVE  Behind(S \cup {p}) = Behind(S) + SizeOf(p)
<1>1. PICK own : own = {p} \X (1..SizeOf(p))
  OBVIOUS
<1>2. IsFiniteSet(own) /\ Cardinality(own) = SizeOf(p)
  <2>1. IsFiniteSet({p}) /\ Cardinality({p}) = 1
    BY FS_Singleton
  <2>2. PICK n \in Nat : n = SizeOf(p)
    BY DEF Sized
  <2>3. IsFiniteSet(1..n) /\ Cardinality(1..n) = n
    BY UpTo
  <2>4. PICK c : c = {p}
    OBVIOUS
  <2>5. IsFiniteSet(c) /\ Cardinality(c) = 1
    BY <2>1, <2>4
  <2>6. IsFiniteSet(c \X (1..n)) /\ Cardinality(c \X (1..n)) = Cardinality(c) * Cardinality(1..n)
    BY <2>3, <2>5, FS_Product
  <2>7. own = c \X (1..n)
    BY <1>1, <2>2, <2>4
  <2>8. QED
    BY <2>2, <2>3, <2>5, <2>6, <2>7
<1>3. RowsOf(S \cup {p}) = RowsOf(S) \cup own
  BY <1>1 DEF RowsOf
<1>4. RowsOf(S) \cap own = {}
  BY <1>1 DEF RowsOf
<1>5. IsFiniteSet(RowsOf(S))
  BY RowsFacts
<1>6. Cardinality(RowsOf(S) \cup own)
        = Cardinality(RowsOf(S)) + Cardinality(own) - Cardinality(RowsOf(S) \cap own)
  BY <1>2, <1>5, FS_Union
<1>7. Cardinality(RowsOf(S)) \in Nat /\ Cardinality(own) \in Nat
  BY <1>2, <1>5, FS_CardinalityType
<1>8. Cardinality({}) = 0
  BY FS_EmptySet
<1>9. Cardinality(RowsOf(S \cup {p})) = Cardinality(RowsOf(S)) + Cardinality(own)
  <2>1. /\ Cardinality(RowsOf(S \cup {p})) = Cardinality(RowsOf(S) \cup own)
        /\ Cardinality(RowsOf(S) \cap own) = 0
    BY <1>3, <1>4, <1>8, Zenon
  <2>2. QED
    BY <1>6, <1>7, <2>1
<1>10. QED
  BY <1>2, <1>9 DEF Behind

\* More payloads have no fewer rows.
LEMMA BehindMonotone ==
    ASSUME Sized, NEW T \in SUBSET InBatch, NEW S \in SUBSET T
    PROVE  Behind(S) <= Behind(T)
<1>1. IsFiniteSet(RowsOf(T)) /\ RowsOf(S) \subseteq RowsOf(T)
  BY RowsFacts DEF RowsOf
<1>2. QED
  BY <1>1, FS_Subset DEF Behind

\* The payloads lie behind each other, within the batch.
LEMMA Placed ==
    ASSUME Sized, NEW p \in InBatch
    PROVE  /\ Offset(p) \in Nat /\ Total \in Nat /\ SizeOf(p) \in Nat \ {0}
           /\ Offset(p) + SizeOf(p) <= Total
           /\ \A q \in InBatch : p < q => Offset(p) + SizeOf(p) <= Offset(q)
<1>1. Before(p) \in SUBSET InBatch /\ p \notin Before(p)
  BY BatchFinite DEF Before, Sized
<1>2. Behind(Before(p) \cup {p}) = Offset(p) + SizeOf(p)
  BY <1>1, BehindOneMore DEF Offset
<1>3. Offset(p) + SizeOf(p) <= Total
  BY <1>1, <1>2, BehindMonotone DEF Total
<1>4. ASSUME NEW q \in InBatch, p < q PROVE Offset(p) + SizeOf(p) <= Offset(q)
  <2>1. Before(q) \in SUBSET InBatch
    BY DEF Before
  <2>2. Before(p) \cup {p} \in SUBSET Before(q)
    BY <1>4, BatchFinite DEF Before, Sized
  <2>3. QED
    BY <1>2, <2>1, <2>2, BehindMonotone DEF Offset
<1>5. QED
  BY <1>1, <1>3, <1>4, RowsFacts DEF Offset, Total, Sized

\* Each row of a payload is that payload's only.
LEMMA OwnerFacts ==
    ASSUME Sized, NEW p \in InBatch, NEW k \in 1..SizeOf(p)
    PROVE  Offset(p) + k \in 1..Total /\ Owner(Offset(p) + k) = p
<1>1. PICK n : n = Offset(p) + k
  OBVIOUS
<1>2. n \in (Offset(p) + 1)..(Offset(p) + SizeOf(p)) /\ n \in 1..Total
  BY <1>1, Placed
<1>3. ASSUME NEW q \in InBatch, n \in (Offset(q) + 1)..(Offset(q) + SizeOf(q)) PROVE q = p
  <2>1. ~(p < q)
    BY <1>2, <1>3, Placed
  <2>2. ~(q < p)
    BY <1>2, <1>3, Placed
  <2>3. QED
    BY <2>1, <2>2, BatchFinite DEF Sized
<1>4. Owner(n) = p
  BY <1>2, <1>3 DEF Owner
<1>5. QED
  BY <1>1, <1>2, <1>4

\* A row of a tensor that is laid out is that of the payload at its place.
LEMMA LaidRow ==
    ASSUME Sized, NEW p \in InBatch, NEW k \in 1..SizeOf(p), NEW rows
    PROVE  Laid(rows)[Offset(p) + k] = rows[p][k]
<1>1. Offset(p) + k \in 1..Total /\ Owner(Offset(p) + k) = p
  BY OwnerFacts
<1>2. Offset(p) + k - Offset(p) = k
  BY Placed
<1>3. PICK n : n = Offset(p) + k
  OBVIOUS
<1>4. Laid(rows)[n] = rows[Owner(n)][n - Offset(Owner(n))]
  BY <1>1, <1>3 DEF Laid
<1>5. Owner(n) = p
  BY <1>1, <1>3, Zenon
<1>6. n - Offset(p) = k
  BY <1>3, Placed
<1>7. QED
  BY <1>3, <1>4, <1>5, <1>6, Zenon

(***************************************************************************)
(* Gathering one input.                                                    *)
(***************************************************************************)

\* The payloads of a batch, as they were admitted and as they are read.
Ready ==
  /\ Sized
  /\ \A p \in InBatch : /\ Proper(model, request[p])
                        /\ Supplied(provider[p], model, request[p], p)
                        /\ status[p] \in {"ok", "invalid", "internal"}

\* The token of payload p that row k of input i should hold.
OwnToken(p, i, k) == IF i \in Controls THEN <<p, i, 1>> ELSE <<p, i, k>>

OwnTensor(rows, i, p) == \A k \in 1..SizeOf(p) : rows[Offset(p) + k] = OwnToken(p, i, k)

\* What reading an input leaves of a payload.
ReadLeaves(c, i, p) ==
  /\ c.status \in {"ok", "invalid", "internal"}
  /\ c.at = [j \in Inputs \cup Controls |-> c.at[j]]
  /\ \A j \in Inputs \cup Controls : j # i => c.at[j] = provider[p].at[j]

\* Copying an input leaves the others, and does nothing for a payload in error.
LEMMA CopiedLeaves ==
    ASSUME Ready, NEW p \in InBatch, NEW i \in Inputs \cup Controls, NEW want \in Nat, NEW room
    PROVE  /\ ReadLeaves(Copied(i, p, want, room), i, p)
           /\ status[p] # "ok" => Copied(i, p, want, room).status = status[p]
           /\ status[p] = "ok" => Copied(i, p, want, room) = Content(provider[p], p, i, want, room)
<1>1. /\ Supplied(provider[p], model, request[p], p)
      /\ status[p] \in {"ok", "invalid", "internal"}
  BY DEF Ready
<1>2. PICK c : c = Content(provider[p], p, i, want, room)
  OBVIOUS
<1>3. ReadLeaves(c, i, p)
  <2>1. PICK q : q = provider[p]
    OBVIOUS
  <2>4. PICK r : r = request[p]
    OBVIOUS
  <2>5. Supplied(q, model, r, p) /\ c = Content(q, p, i, want, room)
    BY <1>1, <1>2, <2>1, <2>4
  <2>2. /\ c.status \in {"ok", "invalid", "internal"}
        /\ c.at = [j \in Inputs \cup Controls |-> c.at[j]]
        /\ \A j \in Inputs \cup Controls : j # i => c.at[j] = q.at[j]
    BY <2>5, ContentKeeps
  <2>3. QED
    BY <2>1, <2>2 DEF ReadLeaves
<1>4. CASE status[p] = "ok"
  <2>1. Copied(i, p, want, room) = c
    BY <1>2, <1>4 DEF Copied
  <2>2. QED
    BY <1>2, <1>3, <1>4, <2>1
<1>5. CASE status[p] # "ok"
  <2>1. Copied(i, p, want, room) = [data |-> <<>>, at |-> provider[p].at, status |-> status[p]]
    BY <1>5 DEF Copied, Nothing
  <2>2. provider[p].at = [j \in Inputs \cup Controls |-> provider[p].at[j]]
    BY <1>1 DEF Supplied
  <2>3. QED
    BY <1>1, <1>5, <2>1, <2>2 DEF ReadLeaves
<1>6. QED
  BY <1>4, <1>5

\* What is read of a payload for a fixed-size input is the payload's own, and
\* nothing fails but a payload without the input.
LEMMA CopiedFixed ==
    ASSUME Ready, NEW p \in InBatch, NEW i \in Inputs \cup SequenceControls(model),
           ~IsString(model, i), NEW room \in Int, SizeOf(p) <= room,
           status[p] = "ok", provider[p].at[i] = 0
    PROVE  LET c == Copied(i, p, SizeOf(p), room)
           IN  /\ c.status # "ok" => i \in Inputs /\ i \notin Named(p)
               /\ c.status = "ok" /\ request[p].via # "null" =>
                    \A k \in 1..SizeOf(p) : k \in DOMAIN c.data /\ c.data[k] = OwnToken(p, i, k)
<1>1. /\ Proper(model, request[p]) /\ Supplied(provider[p], model, request[p], p)
      /\ i \in Inputs \cup Controls /\ Inputs \cap Controls = {}
      /\ SizeOf(p) \in Nat \ {0} /\ SizeOf(p) = request[p].batch
  BY NamesApart DEF Ready, Sized, SequenceControls, SizeOf
<1>2. PICK want \in Nat \ {0} : want = SizeOf(p)
  BY <1>1
<1>3. PICK c : c = Content(provider[p], p, i, want, room)
  OBVIOUS
<1>4. c = Copied(i, p, SizeOf(p), room)
  BY <1>2, <1>3 DEF Copied
<1>5. /\ i \in Controls /\ want = 1 => c.status = "ok" /\ c.data = Tokens(p, i, 1)
      /\ i \in Inputs /\ request[p].via = "null" => c.status = "ok"
      /\ (i \in Inputs /\ request[p].via # "null" /\ i \notin DOMAIN provider[p].buffers)
           => c.status = "internal"
      /\ (i \in Inputs /\ request[p].via # "null" /\ i \in DOMAIN provider[p].buffers
            /\ want = Len(Sent(model, request[p], p, i)))
           => c.status = "ok" /\ c.data = Sent(model, request[p], p, i)
  BY <1>1, <1>2, <1>3, ContentGives
<1>6. CASE i \in Controls
  <2>1. want = 1
    BY <1>1, <1>2, <1>6 DEF SequenceControls, Proper
  <2>2. c.status = "ok" /\ c.data = Tokens(p, i, 1)
    BY <1>5, <1>6, <2>1
  <2>3. DOMAIN c.data = 1..1 /\ c.data[1] = <<p, i, 1>>
    BY <2>2 DEF Tokens
  <2>4. QED
    BY <1>2, <1>4, <1>6, <2>1, <2>2, <2>3 DEF OwnToken
<1>7. CASE i \in Inputs /\ request[p].via = "null"
  BY <1>4, <1>5, <1>7
<1>8. CASE i \in Inputs /\ request[p].via # "null" /\ i \notin DOMAIN provider[p].buffers
  <2>1. i \notin Named(p)
    BY <1>1, <1>8 DEF Supplied, Named
  <2>2. QED
    BY <1>4, <1>5, <1>8, <2>1
<1>9. CASE i \in Inputs /\ request[p].via # "null" /\ i \in DOMAIN provider[p].buffers
  <2>1. PICK s : s = Sent(model, request[p], p, i)
    OBVIOUS
  <2>2. SentWhole(model, request[p], i)
    BY DEF SentWhole
  <2>3. DOMAIN s = 1..Len(s) /\ Len(s) = want /\ \A k \in 1..want : s[k] = <<p, i, k>>
    BY <1>1, <1>2, <2>1, <2>2, SentFacts DEF Proper
  <2>4. c.status = "ok" /\ c.data = s
    BY <1>5, <1>9, <2>1, <2>3
  <2>5. QED
    BY <1>1, <1>2, <1>4, <1>9, <2>3, <2>4 DEF OwnToken
<1>10. QED
  BY <1>1, <1>6, <1>7, <1>8, <1>9

(***************************************************************************)
(* Strings.                                                                *)
(***************************************************************************)

\* As many whole strings as are wanted are parsed as they are.
LEMMA ParsedClean ==
    ASSUME NEW S, NEW data \in Seq(S), NEW want \in Nat, Len(data) = want,
           \A k \in DOMAIN data : data[k] # Cut
    PROVE  Parsed(data, want).status = "ok" /\ Parsed(data, want).strings = data
<1>1. ~ \E k \in DOMAIN data : data[k] = Cut
  OBVIOUS
<1>2. SubSeq(data, 1, want) = data
  OBVIOUS
<1>3. Parsed(data, want) = [strings |-> SubSeq(data, 1, want), status |-> "ok"]
  BY <1>1 DEF Parsed
<1>4. QED
  BY <1>2, <1>3

\* Of strings that are not as they should be, too few are parsed, or it fails.
LEMMA ParsedWrong ==
    ASSUME NEW m, NEW r, NEW p \in Payloads, NEW i, r.batch \in Nat \ {0},
           r.strings \in {"each", "few", "many", "cut"}, ~SentWhole(m, r, i),
           NEW s, s = Sent(m, r, p, i)
    PROVE  /\ Parsed(s, r.batch).status = "ok" => Len(Parsed(s, r.batch).strings) # r.batch
           /\ r.strings # "few" => Parsed(s, r.batch).status # "ok"
<1>1. PICK want \in Nat \ {0} : want = r.batch
  OBVIOUS
<1>2. s \in Seq(Parts(p, i)) /\ DOMAIN s = 1..Len(s) /\ Len(s) \in Nat
  BY SentFacts
<1>3. PICK whole : whole = IF \E k \in DOMAIN s : s[k] = Cut THEN Len(s) - 1 ELSE Len(s)
  OBVIOUS
<1>4. Parsed(s, want) = [strings |-> SubSeq(s, 1, IF whole < want THEN whole ELSE want),
                         status |-> IF whole > want \/ whole < Len(s) THEN "invalid" ELSE "ok"]
  BY <1>3 DEF Parsed
<1>5. CASE r.strings = "few"
  <2>1. Len(s) = want - 1
    BY <1>1, <1>5, SentFacts
  <2>2. whole = want - 1 \/ whole < Len(s)
    BY <1>2, <1>3, <2>1
  <2>3. CASE whole = want - 1
    <3>1. Len(SubSeq(s, 1, whole)) = whole
      BY <1>2, <2>1, <2>3
    <3>2. QED
      BY <1>1, <1>4, <1>5, <2>3, <3>1
  <2>4. CASE whole < Len(s)
    BY <1>1, <1>4, <1>5, <2>4
  <2>5. QED
    BY <2>2, <2>3, <2>4
<1>6. CASE r.strings = "many"
  <2>1. Len(s) = want + 1 /\ \A k \in DOMAIN s : s[k] = <<p, i, k>>
    BY <1>1, <1>6, SentFacts
  <2>2. p # 0
    BY BatchFinite DEF Payloads
  <2>3. \A k \in DOMAIN s : s[k] # Cut
    BY <2>1, <2>2 DEF Cut
  <2>4. whole > want
    BY <1>3, <2>1, <2>3
  <2>5. Parsed(s, want).status # "ok"
    BY <1>4, <2>4
  <2>6. QED
    BY <1>1, <2>5
<1>7. CASE r.strings = "cut"
  <2>1. Len(s) = want /\ s[want] = Cut
    BY <1>1, <1>7, SentFacts
  <2>2. whole < Len(s)
    BY <1>2, <1>3, <2>1
  <2>3. Parsed(s, want).status # "ok"
    BY <1>4, <2>2
  <2>4. QED
    BY <1>1, <2>3
<1>8. QED
  BY <1>5, <1>6, <1>7 DEF SentWhole

\* The content of an input that was sent as it should be.
CleanContent(s, r, p, i) ==
  /\ Len(s) = r.batch /\ DOMAIN s = 1..r.batch
  /\ \A k \in 1..r.batch : s[k] = <<p, i, k>>
  /\ Parsed(s, r.batch).status = "ok" /\ Parsed(s, r.batch).strings = s

\* A string that was sent is not the mark of a truncated one.
LEMMA SentClean ==
    ASSUME NEW m, NEW r, NEW p \in Payloads, NEW i, r.batch \in Nat \ {0},
           r.strings \in {"each", "few", "many", "cut"}, SentWhole(m, r, i),
           NEW s, s = Sent(m, r, p, i)
    PROVE  CleanContent(s, r, p, i)
<1>1. PICK want \in Nat \ {0} : want = r.batch
  OBVIOUS
<1>2. /\ s \in Seq(Parts(p, i)) /\ Len(s) = want /\ DOMAIN s = 1..want
      /\ \A k \in 1..want : s[k] = <<p, i, k>>
  BY <1>1, SentFacts
<1>3. p # 0
  BY BatchFinite DEF Payloads
<1>4. \A k \in DOMAIN s : s[k] # Cut
  BY <1>2, <1>3 DEF Cut
<1>5. Parsed(s, want).status = "ok" /\ Parsed(s, want).strings = s
  BY <1>2, <1>4, ParsedClean
<1>6. QED
  BY <1>1, <1>2, <1>5 DEF CleanContent

\* The zeros of an idle slot are as many empty strings.
LEMMA NullClean ==
    ASSUME NEW q, NEW want \in Nat
    PROVE  LET data == NullContent(q, want).data
           IN  /\ data \in Seq({Zero}) /\ Len(data) = want
               /\ Parsed(data, want).status = "ok" /\ Parsed(data, want).strings = data
<1>1. PICK data : data = NullContent(q, want).data
  OBVIOUS
<1>2. data \in Seq({Zero}) /\ Len(data) = want
  BY <1>1 DEF NullContent
<1>3. Zero # Cut
  BY DEF Zero, Cut
<1>4. \A k \in DOMAIN data : data[k] # Cut
  BY <1>2, <1>3
<1>5. Parsed(data, want).status = "ok" /\ Parsed(data, want).strings = data
  BY <1>2, <1>4, ParsedClean
<1>6. QED
  BY <1>1, <1>2, <1>5

\* What a backend gets that reads an input in one block.
WholeContent(c, q, m, r, p, i, want) ==
  /\ c.status \in {"ok", "invalid", "internal"}
  /\ c.at = [j \in Inputs \cup Controls |-> c.at[j]]
  /\ \A j \in Inputs \cup Controls : j # i => c.at[j] = q.at[j]
  /\ r.via = "null" => c = NullContent(q, want)
  /\ r.via # "null" /\ i \notin DOMAIN q.buffers => c.status = "internal"
  /\ r.via # "null" /\ i \in DOMAIN q.buffers => c.status = "ok"
  /\ r.via # "null" /\ i \in DOMAIN q.buffers /\ q.at[i] = 0 => c.data = Sent(m, r, p, i)

\* What TensorFlow and a custom library read of a payload that reads an input
\* for the first time.
LEMMA ContiguousGives ==
    ASSUME NEW m, NEW r, Proper(m, r), NEW p, NEW q, Supplied(q, m, r, p),
           NEW i \in Inputs \cup Controls, NEW want \in Nat, NEW c, c = ContiguousContent(q, i, want)
    PROVE  WholeContent(c, q, m, r, p, i, want)
<1>1. q.null = (r.via = "null") /\ q.at = [j \in Inputs \cup Controls |-> q.at[j]]
  BY DEF Supplied
<1>2. CASE r.via = "null"
  <2>1. c = NullContent(q, want)
    BY <1>1, <1>2 DEF ContiguousContent
  <2>2. c.status = "ok" /\ c.at = q.at
    BY <2>1 DEF NullContent
  <2>3. QED
    BY <1>1, <1>2, <2>1, <2>2 DEF WholeContent
<1>3. CASE r.via # "null" /\ i \notin DOMAIN q.buffers
  <2>1. c = [Nothing(q) EXCEPT !.status = "internal"]
    BY <1>1, <1>3 DEF ContiguousContent
  <2>2. c.status = "internal" /\ c.at = q.at
    BY <2>1 DEF Nothing
  <2>3. QED
    BY <1>1, <1>3, <2>2 DEF WholeContent
<1>4. CASE r.via # "null" /\ i \in DOMAIN q.buffers
  <2>1. PICK s : s = Sent(m, r, p, i)
    OBVIOUS
  <2>2. q.buffers[i].data = s /\ s \in Seq(Parts(p, i))
    BY <1>4, <2>1, SentFacts DEF Supplied, Proper
  <2>3. c = [data |-> SubSeq(s, q.at[i] + 1, Len(s)),
             at |-> [q.at EXCEPT ![i] = Len(s)], status |-> "ok"]
    BY <1>1, <1>4, <2>2 DEF ContiguousContent
  <2>4. q.at[i] = 0 => c.data = s
    <3>1. SubSeq(s, 1, Len(s)) = s
      BY <2>2
    <3>2. QED
      BY <2>3, <3>1
  <2>5. /\ c.status = "ok" /\ c.at = [j \in Inputs \cup Controls |-> c.at[j]]
        /\ \A j \in Inputs \cup Controls : j # i => c.at[j] = q.at[j]
    <3>1. PICK v : v = Len(s)
      OBVIOUS
    <3>2. c.at = [q.at EXCEPT ![i] = v] /\ c.status = "ok"
      BY <2>3, <3>1
    <3>3. QED
      BY <3>2 DEF Supplied
  <2>6. QED
    BY <1>4, <2>1, <2>4, <2>5 DEF WholeContent
<1>5. QED
  BY <1>2, <1>3, <1>4

(***************************************************************************)
(* The string tensors.                                                     *)
(***************************************************************************)

\* The parts of TfSetStringInputTensor.
TfRead(i) == [p \in InBatch |-> ContiguousContent(provider[p], i, SizeOf(p))]
TfPresent(i) == {p \in InBatch : TfRead(i)[p].status = "ok"}
TfParsed(i) == [p \in InBatch |-> Parsed(TfRead(i)[p].data, SizeOf(p))]
TfStart(i) == [p \in InBatch |-> Behind(Before(p) \cap TfPresent(i))]

\* What SetStringInputTensor reads and writes of each payload.
LEMMA TfParts ==
    ASSUME Sized, NEW i, NEW g, g = TfSetStringInputTensor(i)
    PROVE  /\ \A p \in InBatch :
                /\ g.copy[p].at = TfRead(i)[p].at
                /\ g.copy[p].status =
                     IF p \notin TfPresent(i) THEN "internal"
                     ELSE IF TfParsed(i)[p].status # "ok" THEN TfParsed(i)[p].status
                     ELSE IF Len(TfParsed(i)[p].strings) # SizeOf(p) THEN "internal" ELSE "ok"
           /\ \A n \in 1..Total, p \in TfPresent(i) :
                {q \in InBatch : n \in (TfStart(i)[q] + 1)..(TfStart(i)[q] + SizeOf(q))} = {p}
                  => g.rows[n] = Padded(TfParsed(i)[p].strings, SizeOf(p), Empty)[n - TfStart(i)[p]]
<1>1. PICK read : read = TfRead(i)
  OBVIOUS
<1>2. PICK parsed : parsed = TfParsed(i)
  OBVIOUS
<1>3. PICK present : present = TfPresent(i)
  OBVIOUS
<1>4. PICK start : start = TfStart(i)
  OBVIOUS
<1>5. /\ read = [p \in InBatch |-> ContiguousContent(provider[p], i, SizeOf(p))]
      /\ parsed = [p \in InBatch |-> Parsed(read[p].data, SizeOf(p))]
      /\ present = {p \in InBatch : read[p].status = "ok"}
      /\ start = [p \in InBatch |-> Behind(Before(p) \cap present)]
  BY <1>1, <1>2, <1>3, <1>4 DEF TfRead, TfParsed, TfPresent, TfStart
<1>6. ASSUME NEW p \in InBatch
      PROVE  /\ g.copy[p].at = read[p].at
             /\ g.copy[p].status =
                  IF p \notin present THEN "internal"
                  ELSE IF parsed[p].status # "ok" THEN parsed[p].status
                  ELSE IF Len(parsed[p].strings) # SizeOf(p) THEN "internal" ELSE "ok"
  BY <1>5 DEF TfSetStringInputTensor
<1>7. ASSUME NEW n \in 1..Total, NEW p \in present,
             {q \in InBatch : n \in (start[q] + 1)..(start[q] + SizeOf(q))} = {p}
      PROVE  g.rows[n] = Padded(parsed[p].strings, SizeOf(p), Empty)[n - start[p]]
  <2>1. {q \in InBatch : n \in (Behind(Before(q) \cap present) + 1)
                                 ..(Behind(Before(q) \cap present) + SizeOf(q))} = {p}
    BY <1>5, <1>7
  <2>2. Max({p}) = p
    BY <1>5, BatchFinite DEF Max, Sized
  <2>3. QED
    BY <1>5, <2>1, <2>2 DEF TfSetStringInputTensor
<1>8. QED
  BY <1>1, <1>2, <1>3, <1>4, <1>6, <1>7

\* A payload's strings fail by themselves, or because it has no such input.
LEMMA TfStringStatus ==
    ASSUME Ready, NEW i \in Inputs, IsString(model, i),
           NEW g, g = TfSetStringInputTensor(i), NEW p \in InBatch
    PROVE  /\ ReadLeaves(g.copy[p], i, p)
           /\ request[p].via = "null" => p \in TfPresent(i) /\ g.copy[p].status = "ok"
           /\ request[p].via # "null" =>
                /\ p \in TfPresent(i) <=> i \in Named(p)
                /\ i \notin Named(p) => g.copy[p].status # "ok"
                /\ (i \in Named(p) /\ provider[p].at[i] = 0) =>
                     /\ g.copy[p].status = "ok" <=> request[p].strings = "each"
                     /\ g.copy[p].status = "ok" =>
                          \A k \in 1..SizeOf(p) : /\ k \in DOMAIN TfParsed(i)[p].strings
                                                  /\ TfParsed(i)[p].strings[k] = <<p, i, k>>
<1>1. /\ Sized /\ p \in Payloads
      /\ Proper(model, request[p]) /\ Supplied(provider[p], model, request[p], p)
      /\ SizeOf(p) \in Nat \ {0} /\ SizeOf(p) = request[p].batch
  BY DEF Ready, Sized, SizeOf
<1>2. PICK c : c = TfRead(i)[p]
  OBVIOUS
<1>3. PICK q : q = provider[p]
  OBVIOUS
<1>4. PICK r : r = request[p]
  OBVIOUS
<1>5. PICK d : d = TfParsed(i)[p]
  OBVIOUS
<1>6. PICK w \in Nat \ {0} : w = SizeOf(p)
  BY <1>1
<1>7. c = ContiguousContent(q, i, w) /\ d = Parsed(c.data, w)
  BY <1>2, <1>3, <1>5, <1>6 DEF TfRead, TfParsed
<1>8. /\ c.status \in {"ok", "invalid", "internal"}
      /\ c.at = [j \in Inputs \cup Controls |-> c.at[j]]
      /\ \A j \in Inputs \cup Controls : j # i => c.at[j] = q.at[j]
      /\ r.via = "null" => c = NullContent(q, w)
      /\ r.via # "null" /\ i \notin DOMAIN q.buffers => c.status = "internal"
      /\ r.via # "null" /\ i \in DOMAIN q.buffers => c.status = "ok"
      /\ r.via # "null" /\ i \in DOMAIN q.buffers /\ q.at[i] = 0 => c.data = Sent(model, r, p, i)
  <2>5. PICK m : m = model
    OBVIOUS
  <2>1. Proper(m, r) /\ Supplied(q, m, r, p) /\ i \in Inputs \cup Controls
    BY <1>1, <1>3, <1>4, <2>5
  <2>2. c = ContiguousContent(q, i, w)
    BY <1>7
  <2>4. w \in Nat
    OBVIOUS
  <2>6. WholeContent(c, q, m, r, p, i, w)
    BY <2>1, <2>2, <2>4, ContiguousGives
  <2>3. QED
    BY <2>5, <2>6 DEF WholeContent
<1>9. /\ g.copy[p].at = c.at
      /\ g.copy[p].status = IF p \notin TfPresent(i) THEN "internal"
                            ELSE IF d.status # "ok" THEN d.status
                            ELSE IF Len(d.strings) # w THEN "internal" ELSE "ok"
  BY <1>1, <1>2, <1>5, <1>6, TfParts
<1>10. p \in TfPresent(i) <=> c.status = "ok"
  BY <1>2 DEF TfPresent
<1>11. d.status \in {"ok", "invalid"}
  BY <1>7 DEF Parsed
<1>12. ReadLeaves(g.copy[p], i, p)
  <2>1. g.copy[p].status \in {"ok", "invalid", "internal"}
    BY <1>9, <1>11
  <2>2. QED
    BY <1>3, <1>8, <1>9, <2>1 DEF ReadLeaves
<1>13. ASSUME r.via = "null" PROVE p \in TfPresent(i) /\ g.copy[p].status = "ok"
  <2>1. c = NullContent(q, w)
    BY <1>8, <1>13
  <2>2. c.status = "ok"
    BY <2>1 DEF NullContent
  <2>3. d.status = "ok" /\ Len(d.strings) = w
    BY <1>6, <1>7, <2>1, NullClean
  <2>4. QED
    BY <1>9, <1>10, <2>2, <2>3
<1>14. ASSUME r.via # "null"
       PROVE  /\ p \in TfPresent(i) <=> i \in Named(p)
              /\ i \notin Named(p) => g.copy[p].status # "ok"
  <2>1. DOMAIN q.buffers = Named(p)
    BY <1>1, <1>3, <1>4, <1>14 DEF Supplied, Named
  <2>2. QED
    BY <1>8, <1>9, <1>10, <1>14, <2>1
<1>15. ASSUME r.via # "null", i \in Named(p), q.at[i] = 0
       PROVE  /\ g.copy[p].status = "ok" <=> r.strings = "each"
              /\ g.copy[p].status = "ok" =>
                   \A k \in 1..w : k \in DOMAIN d.strings /\ d.strings[k] = <<p, i, k>>
  <2>1. PICK s : s = Sent(model, r, p, i)
    OBVIOUS
  <2>2. DOMAIN q.buffers = Named(p)
    BY <1>1, <1>3, <1>4, <1>15 DEF Supplied, Named
  <2>3. d = Parsed(s, w) /\ p \in TfPresent(i)
    BY <1>7, <1>8, <1>10, <1>15, <2>1, <2>2
  <2>4. w = r.batch /\ r.batch \in Nat \ {0} /\ r.strings \in {"each", "few", "many", "cut"}
    BY <1>1, <1>4, <1>6 DEF Proper
  <2>5. CASE r.strings = "each"
    <3>1. SentWhole(model, r, i)
      BY <2>5 DEF SentWhole
    <3>2. /\ Len(s) = r.batch /\ DOMAIN s = 1..r.batch
          /\ \A k \in 1..r.batch : s[k] = <<p, i, k>>
          /\ Parsed(s, r.batch).status = "ok" /\ Parsed(s, r.batch).strings = s
      <4>1. p \in Payloads
        BY <1>1
      <4>2. PICK m : m = model
        OBVIOUS
      <4>3. s = Sent(m, r, p, i) /\ SentWhole(m, r, i)
        BY <2>1, <3>1, <4>2
      <4>5. CleanContent(s, r, p, i)
        BY <2>4, <4>1, <4>3, SentClean
      <4>4. QED
        BY <4>5 DEF CleanContent
    <3>3. d.status = "ok" /\ d.strings = s
      BY <2>3, <2>4, <3>2
    <3>4. QED
      BY <1>9, <2>3, <2>4, <2>5, <3>2, <3>3
  <2>6. CASE r.strings # "each"
    <3>1. ~SentWhole(model, r, i)
      BY <2>6 DEF SentWhole
    <3>2. Parsed(s, r.batch).status = "ok" => Len(Parsed(s, r.batch).strings) # r.batch
      BY <1>1, <2>1, <2>4, <3>1, ParsedWrong
    <3>3. g.copy[p].status # "ok"
      BY <1>9, <2>3, <2>4, <3>2
    <3>4. QED
      BY <2>6, <3>3
  <2>7. QED
    BY <2>5, <2>6
<1>16. QED
  BY <1>3, <1>4, <1>5, <1>6, <1>12, <1>13, <1>14, <1>15

\* A payload's strings are its own when all payloads before it have the input.
LEMMA TfStringRows ==
    ASSUME Ready, NEW i \in Inputs, IsString(model, i),
           NEW g, g = TfSetStringInputTensor(i), NEW p \in InBatch,
           request[p].via # "null", provider[p].at[i] = 0, g.copy[p].status = "ok",
           \A q \in Before(p) : request[q].via = "null" \/ i \in Named(q)
    PROVE  OwnTensor(g.rows, i, p)
<1>1. Sized
  BY DEF Ready
<1>2. PICK present : present = TfPresent(i)
  OBVIOUS
<1>3. PICK start : start = TfStart(i)
  OBVIOUS
<1>4. /\ present \subseteq InBatch
      /\ start = [q \in InBatch |-> Behind(Before(q) \cap present)]
  BY <1>2, <1>3 DEF TfPresent, TfStart
<1>5. Before(p) \subseteq InBatch /\ Before(p) \subseteq present
  <2>1. Before(p) \subseteq InBatch
    BY DEF Before
  <2>2. ASSUME NEW q \in Before(p) PROVE q \in present
    <3>1. q \in InBatch
      BY <2>1
    <3>2. request[q].via = "null" => q \in TfPresent(i)
      BY <3>1, TfStringStatus
    <3>3. request[q].via # "null" => (q \in TfPresent(i) <=> i \in Named(q))
      BY <3>1, TfStringStatus
    <3>4. QED
      BY <1>2, <3>2, <3>3
  <2>3. QED
    BY <2>1, <2>2
<1>6. p \in present
  BY <1>2, TfStringStatus, TfParts, <1>1
<1>7. start[p] = Offset(p)
  <2>1. Before(p) \cap present = Before(p)
    BY <1>5
  <2>2. QED
    BY <1>4, <2>1 DEF Offset
<1>8. ASSUME NEW q \in InBatch, q < p PROVE start[q] = Offset(q) /\ Offset(q) + SizeOf(q) <= Offset(p)
  <2>1. Before(q) \subseteq Before(p)
    BY <1>1, <1>8, BatchFinite DEF Before, Sized
  <2>2. Before(q) \cap present = Before(q)
    BY <1>5, <2>1
  <2>3. start[q] = Offset(q)
    BY <1>4, <2>2 DEF Offset
  <2>4. QED
    BY <1>1, <1>8, <2>3, Placed
<1>9. ASSUME NEW q \in InBatch, p < q PROVE start[q] >= Offset(p) + SizeOf(p) /\ start[q] \in Nat
  <2>1. Before(q) \subseteq InBatch
    BY DEF Before
  <2>2. Before(p) \cup {p} \subseteq Before(q) \cap present
    BY <1>1, <1>5, <1>6, <1>9, BatchFinite DEF Before, Sized
  <2>3. PICK T \in SUBSET InBatch : T = Before(q) \cap present
    BY <2>1
  <2>4. PICK S \in SUBSET T : S = Before(p) \cup {p}
    BY <2>2, <2>3
  <2>5. Behind(S) <= Behind(T)
    BY <1>1, BehindMonotone
  <2>6. Behind(S) = Offset(p) + SizeOf(p)
    <3>1. p \notin Before(p) /\ Before(p) \in SUBSET InBatch
      BY <1>1, <1>5, BatchFinite DEF Before, Sized
    <3>2. QED
      BY <1>1, <2>4, <3>1, BehindOneMore DEF Offset
  <2>7. Behind(T) \in Nat /\ start[q] = Behind(T)
    BY <1>1, <1>4, <2>3, RowsFacts
  <2>8. QED
    BY <1>1, <2>5, <2>6, <2>7, Placed
<1>10. ASSUME NEW k \in 1..SizeOf(p) PROVE g.rows[Offset(p) + k] = OwnToken(p, i, k)
  <2>1. PICK n : n = Offset(p) + k
    OBVIOUS
  <2>2. n \in 1..Total /\ n \in (start[p] + 1)..(start[p] + SizeOf(p)) /\ n - start[p] = k
    BY <1>1, <1>7, <2>1, Placed
  <2>3. ASSUME NEW q \in InBatch, n \in (start[q] + 1)..(start[q] + SizeOf(q)) PROVE q = p
    <3>0. p \in Nat /\ q \in Nat /\ SizeOf(q) \in Nat
      BY <1>1, BatchFinite DEF Sized
    <3>3. Offset(p) \in Nat /\ Offset(q) \in Nat /\ SizeOf(p) \in Nat
      BY <1>1, Placed
    <3>1. ~(q < p)
      BY <1>8, <2>1, <2>3, <3>0, <3>3
    <3>2. ~(p < q)
      BY <1>9, <2>1, <2>3, <3>0, <3>3
    <3>4. QED
      BY <3>0, <3>1, <3>2
  <2>4. {q \in InBatch : n \in (start[q] + 1)..(start[q] + SizeOf(q))} = {p}
    BY <2>2, <2>3
  <2>5. PICK d : d = TfParsed(i)[p].strings
    OBVIOUS
  <2>6. g.rows[n] = Padded(d, SizeOf(p), Empty)[n - start[p]]
    BY <1>1, <1>2, <1>3, <1>6, <2>2, <2>4, <2>5, TfParts
  <2>7. k \in DOMAIN d /\ d[k] = <<p, i, k>>
    <3>1. i \in Named(p)
      BY TfStringStatus
    <3>2. QED
      BY <2>5, <3>1, TfStringStatus
  <2>8. Padded(d, SizeOf(p), Empty)[k] = d[k]
    BY <2>7 DEF Padded
  <2>9. i \notin Controls
    BY NamesApart
  <2>10. QED
    BY <2>1, <2>2, <2>6, <2>7, <2>8, <2>9 DEF OwnToken
<1>11. QED
  BY <1>10 DEF OwnTensor

\* The parts of OnnxSetStringInputBuffer.
OnnxSize(i, p) == ByteSize(model, request[p], p, i)
OnnxCopy(i) == [p \in InBatch |-> Copied(i, p, OnnxSize(i, p), OnnxSize(i, p))]
OnnxParsed(i) == [p \in InBatch |-> IF OnnxCopy(i)[p].status = "ok"
                    THEN Parsed(OnnxCopy(i)[p].data, SizeOf(p))
                    ELSE [strings |-> <<>>, status |-> OnnxCopy(i)[p].status]]
OnnxNext(i, p) == {q \in InBatch : q > p /\ OnnxSize(i, q) > 0}
OnnxEnded(i) == [p \in InBatch |-> OnnxNext(i, p) = {} \/ OnnxCopy(i)[Min(OnnxNext(i, p))].status = "ok"]

\* What SetStringInputBuffer reads and writes of each payload.
LEMMA OnnxParts ==
    ASSUME Sized, NEW i, NEW g, g = OnnxSetStringInputBuffer(i)
    PROVE  /\ \A p \in InBatch : /\ g.copy[p].at = OnnxCopy(i)[p].at
                                 /\ g.copy[p].status = OnnxParsed(i)[p].status
           /\ \A p \in InBatch : \A k \in 1..SizeOf(p) :
                k \in DOMAIN OnnxParsed(i)[p].strings /\ OnnxEnded(i)[p]
                  => g.rows[Offset(p) + k] = OnnxParsed(i)[p].strings[k]
<1>1. PICK copy : copy = OnnxCopy(i)
  OBVIOUS
<1>2. PICK parsed : parsed = OnnxParsed(i)
  OBVIOUS
<1>3. PICK ended : ended = OnnxEnded(i)
  OBVIOUS
<1>4. PICK strings : strings = [p \in InBatch |->
        [k \in DOMAIN parsed[p].strings |->
           IF k = OnnxSize(i, p) /\ ~ended[p] THEN Junk ELSE parsed[p].strings[k]]]
  OBVIOUS
<1>5. PICK rows : rows = [p \in InBatch |-> Padded(strings[p], SizeOf(p), Empty)]
  OBVIOUS
<1>6. g = [rows |-> Laid(rows),
           copy |-> [p \in InBatch |-> [at |-> copy[p].at, status |-> parsed[p].status]]]
  <2>1. copy = [p \in InBatch |-> Copied(i, p, ByteSize(model, request[p], p, i), ByteSize(model, request[p], p, i))]
    BY <1>1 DEF OnnxCopy, OnnxSize
  <2>2. parsed = [p \in InBatch |-> IF copy[p].status = "ok" THEN Parsed(copy[p].data, SizeOf(p))
                                    ELSE [strings |-> <<>>, status |-> copy[p].status]]
    BY <1>1, <1>2 DEF OnnxParsed
  <2>3. ended = [p \in InBatch |->
                   \/ {q \in InBatch : q > p /\ ByteSize(model, request[q], q, i) > 0} = {}
                   \/ copy[Min({q \in InBatch : q > p /\ ByteSize(model, request[q], q, i) > 0})].status = "ok"]
    BY <1>1, <1>3 DEF OnnxEnded, OnnxNext, OnnxSize
  <2>4. \A p \in InBatch : strings[p] =
          [k \in DOMAIN parsed[p].strings |->
             IF k = ByteSize(model, request[p], p, i)
                /\ ~(\/ {q \in InBatch : q > p /\ ByteSize(model, request[q], q, i) > 0} = {}
                     \/ copy[Min({q \in InBatch : q > p /\ ByteSize(model, request[q], q, i) > 0})].status = "ok")
             THEN Junk ELSE parsed[p].strings[k]]
    BY <1>4, <2>3 DEF OnnxSize
  <2>5. rows = [p \in InBatch |-> Padded(
          [k \in DOMAIN parsed[p].strings |->
             IF k = ByteSize(model, request[p], p, i)
                /\ ~(\/ {q \in InBatch : q > p /\ ByteSize(model, request[q], q, i) > 0} = {}
                     \/ copy[Min({q \in InBatch : q > p /\ ByteSize(model, request[q], q, i) > 0})].status = "ok")
             THEN Junk ELSE parsed[p].strings[k]], SizeOf(p), Empty)]
    BY <1>5, <2>4
  <2>6. QED
    BY <2>1, <2>2, <2>5, ZenonT(30) DEF OnnxSetStringInputBuffer
<1>7. ASSUME NEW p \in InBatch
      PROVE  g.copy[p].at = copy[p].at /\ g.copy[p].status = parsed[p].status
  BY <1>6
<1>8. ASSUME NEW p \in InBatch, NEW k \in 1..SizeOf(p), k \in DOMAIN parsed[p].strings, ended[p]
      PROVE  g.rows[Offset(p) + k] = parsed[p].strings[k]
  <2>1. g.rows[Offset(p) + k] = rows[p][k]
    BY <1>6, LaidRow
  <2>2. strings[p] = [n \in DOMAIN parsed[p].strings |->
           IF n = OnnxSize(i, p) /\ ~ended[p] THEN Junk ELSE parsed[p].strings[n]]
    BY <1>4
  <2>3. k \in DOMAIN strings[p] /\ strings[p][k] = parsed[p].strings[k]
    BY <1>8, <2>2
  <2>4. rows[p] = Padded(strings[p], SizeOf(p), Empty)
    BY <1>5
  <2>5. rows[p][k] = strings[p][k]
    BY <2>3, <2>4 DEF Padded
  <2>6. QED
    BY <2>1, <2>3, <2>5
<1>9. QED
  BY <1>1, <1>2, <1>3, <1>7, <1>8

\* What the strings of a payload that names the input become.
OnnxOutcome(g, i, p) ==
  /\ ReadLeaves(g.copy[p], i, p)
  /\ g.copy[p].status = "ok" => status[p] = "ok" /\ OnnxCopy(i)[p].status = "ok"
  /\ provider[p].at[i] = 0 =>
       /\ g.copy[p].status # "ok" => status[p] # "ok" \/ request[p].strings # "each"
       /\ (g.copy[p].status = "ok" /\ request[p].via # "null" /\ request[p].strings # "few") =>
            \A k \in 1..SizeOf(p) : /\ k \in DOMAIN OnnxParsed(i)[p].strings
                                    /\ OnnxParsed(i)[p].strings[k] = <<p, i, k>>

\* What a payload's status is after its strings were read for ONNX Runtime.
LEMMA OnnxStringStatus ==
    ASSUME Ready, NEW i \in Inputs, IsString(model, i),
           NEW g, g = OnnxSetStringInputBuffer(i), NEW p \in InBatch, i \in Named(p)
    PROVE  OnnxOutcome(g, i, p)
<1>1. /\ Sized /\ p \in Payloads
      /\ Proper(model, request[p]) /\ Supplied(provider[p], model, request[p], p)
      /\ SizeOf(p) \in Nat \ {0} /\ SizeOf(p) = request[p].batch
      /\ status[p] \in {"ok", "invalid", "internal"}
  BY DEF Ready, Sized, SizeOf
<1>2. PICK c : c = OnnxCopy(i)[p]
  OBVIOUS
<1>3. PICK d : d = OnnxParsed(i)[p]
  OBVIOUS
<1>4. PICK w \in Nat \ {0} : w = SizeOf(p)
  BY <1>1
<1>5. PICK s : s = Sent(model, request[p], p, i)
  OBVIOUS
<1>6. s \in Seq(Parts(p, i)) /\ Len(s) \in Nat
  BY <1>1, <1>5, SentFacts DEF Proper
<1>7. PICK size \in Nat : size = Len(s)
  BY <1>6
<1>8. c = Copied(i, p, size, size)
  BY <1>2, <1>5, <1>7 DEF OnnxCopy, OnnxSize, ByteSize
<1>9. d = IF c.status = "ok" THEN Parsed(c.data, w) ELSE [strings |-> <<>>, status |-> c.status]
  BY <1>2, <1>3, <1>4 DEF OnnxParsed
<1>10. /\ ReadLeaves(c, i, p)
       /\ status[p] # "ok" => c.status = status[p]
       /\ status[p] = "ok" => c = Content(provider[p], p, i, size, size)
  BY <1>8, CopiedLeaves
<1>11. g.copy[p].at = c.at /\ g.copy[p].status = d.status
  BY <1>1, <1>2, <1>3, OnnxParts
<1>12. d.status \in {"ok", "invalid", "internal"} /\ (d.status = "ok" => c.status = "ok")
  <2>1. CASE c.status = "ok"
    <3>1. d = Parsed(c.data, w)
      BY <1>9, <2>1
    <3>2. d.status \in {"ok", "invalid"}
      BY <3>1 DEF Parsed
    <3>3. QED
      BY <2>1, <3>2
  <2>2. CASE c.status # "ok"
    BY <1>9, <1>10, <2>2 DEF ReadLeaves
  <2>3. QED
    BY <2>1, <2>2
<1>13. ReadLeaves(g.copy[p], i, p)
  BY <1>10, <1>11, <1>12 DEF ReadLeaves
<1>14. g.copy[p].status = "ok" => status[p] = "ok" /\ c.status = "ok"
  BY <1>10, <1>11, <1>12
<1>15. ASSUME provider[p].at[i] = 0, status[p] = "ok", request[p].via = "null"
       PROVE  d.status # "ok" => request[p].strings # "each"
  <2>1. SUFFICES ASSUME request[p].strings = "each" PROVE d.status = "ok"
    OBVIOUS
  <2>2. SentWhole(model, request[p], i)
    BY <2>1 DEF SentWhole
  <2>3. size = w
    BY <1>1, <1>4, <1>5, <1>7, <2>2, SentFacts DEF Proper
  <2>4. provider[p].null /\ i \notin Controls
    <3>1. PICK q : q = provider[p]
      OBVIOUS
    <3>2. PICK r : r = request[p]
      OBVIOUS
    <3>3. Supplied(q, model, r, p) /\ r.via = "null"
      BY <1>1, <1>15, <3>1, <3>2
    <3>4. q.null = (r.via = "null")
      BY <3>3 DEF Supplied
    <3>5. QED
      BY <3>1, <3>3, <3>4, NamesApart
  <2>5. c = NullContent(provider[p], w)
    BY <1>10, <1>15, <2>3, <2>4 DEF Content
  <2>6. c.status = "ok"
    BY <2>5 DEF NullContent
  <2>7. Parsed(c.data, w).status = "ok"
    BY <2>5, NullClean
  <2>8. QED
    BY <1>9, <2>6, <2>7
<1>16. ASSUME provider[p].at[i] = 0, status[p] = "ok", request[p].via # "null"
       PROVE  c.status = "ok" /\ c.data = s
  <2>1. i \in DOMAIN provider[p].buffers
    BY <1>1, <1>16 DEF Supplied, Named
  <2>2. i \in Inputs \cup Controls /\ Inputs \cap Controls = {}
    BY NamesApart
  <2>3. c = Content(provider[p], p, i, size, size)
    BY <1>10, <1>16
  <2>4. PICK q : q = provider[p]
    OBVIOUS
  <2>5. PICK r : r = request[p]
    OBVIOUS
  <2>6. /\ Proper(model, r) /\ Supplied(q, model, r, p) /\ q.at[i] = 0 /\ r.via # "null"
        /\ i \in DOMAIN q.buffers /\ size = Len(Sent(model, r, p, i)) /\ s = Sent(model, r, p, i)
        /\ c = Content(q, p, i, size, size)
    BY <1>1, <1>5, <1>7, <1>16, <2>1, <2>3, <2>4, <2>5
  <2>7. size \in Nat /\ size \in Int /\ size <= size
    OBVIOUS
  <2>8. QED
    BY <2>2, <2>6, <2>7, ContentGives
<1>17. ASSUME provider[p].at[i] = 0, status[p] = "ok", request[p].via # "null",
              request[p].strings = "each"
       PROVE  /\ d.status = "ok"
              /\ \A k \in 1..w : k \in DOMAIN d.strings /\ d.strings[k] = <<p, i, k>>
  <2>1. SentWhole(model, request[p], i)
    BY <1>17 DEF SentWhole
  <2>2. PICK r : r = request[p]
    OBVIOUS
  <2>3. /\ r.batch \in Nat \ {0} /\ r.strings \in {"each", "few", "many", "cut"}
        /\ SentWhole(model, r, i) /\ s = Sent(model, r, p, i) /\ w = r.batch
    BY <1>1, <1>4, <1>5, <2>1, <2>2 DEF Proper
  <2>4. CleanContent(s, r, p, i)
    BY <1>1, <2>3, SentClean
  <2>5. d = Parsed(s, w)
    BY <1>9, <1>16, <1>17
  <2>6. QED
    BY <2>3, <2>4, <2>5 DEF CleanContent
<1>18. ASSUME provider[p].at[i] = 0, status[p] = "ok", request[p].via # "null",
              request[p].strings \notin {"each", "few"}
       PROVE  d.status # "ok"
  <2>1. ~SentWhole(model, request[p], i)
    BY <1>18 DEF SentWhole
  <2>2. PICK r : r = request[p]
    OBVIOUS
  <2>3. /\ r.batch \in Nat \ {0} /\ r.strings \in {"each", "few", "many", "cut"} /\ r.strings # "few"
        /\ ~SentWhole(model, r, i) /\ s = Sent(model, r, p, i) /\ w = r.batch
    BY <1>1, <1>4, <1>5, <1>18, <2>1, <2>2 DEF Proper
  <2>4. Parsed(s, r.batch).status # "ok"
    BY <1>1, <2>3, ParsedWrong
  <2>5. d = Parsed(s, w)
    BY <1>9, <1>16, <1>18
  <2>6. QED
    BY <2>3, <2>4, <2>5
<1>19. provider[p].at[i] = 0 /\ g.copy[p].status # "ok" => status[p] # "ok" \/ request[p].strings # "each"
  BY <1>11, <1>15, <1>17
<1>20. ASSUME provider[p].at[i] = 0, g.copy[p].status = "ok", request[p].via # "null",
              request[p].strings # "few"
       PROVE  \A k \in 1..w : k \in DOMAIN d.strings /\ d.strings[k] = <<p, i, k>>
  BY <1>11, <1>14, <1>17, <1>18, <1>20
<1>21. QED
  BY <1>2, <1>3, <1>4, <1>13, <1>14, <1>19, <1>20 DEF OnnxOutcome

\* The strings of a payload are its own when no payload is in error.
LEMMA OnnxStringRows ==
    ASSUME Ready, NEW i \in Inputs, IsString(model, i),
           NEW g, g = OnnxSetStringInputBuffer(i), NEW p \in InBatch,
           \A q \in InBatch : i \in Named(q) /\ g.copy[q].status = "ok",
           request[p].via # "null", provider[p].at[i] = 0, request[p].strings # "few"
    PROVE  OwnTensor(g.rows, i, p)
<1>1. Sized
  BY DEF Ready
<1>2. \A q \in InBatch : OnnxCopy(i)[q].status = "ok"
  BY OnnxStringStatus DEF OnnxOutcome
<1>3. OnnxEnded(i)[p]
  <2>1. PICK T : T = OnnxNext(i, p)
    OBVIOUS
  <2>2. T \subseteq InBatch /\ T \in SUBSET Nat
    BY <1>1, <2>1, BatchFinite DEF OnnxNext, Sized
  <2>3. T # {} => Min(T) \in T
    BY <2>2, LeastNumber
  <2>4. T = {} \/ OnnxCopy(i)[Min(T)].status = "ok"
    BY <1>2, <2>2, <2>3
  <2>5. OnnxEnded(i)[p] = (T = {} \/ OnnxCopy(i)[Min(T)].status = "ok")
    BY <2>1 DEF OnnxEnded
  <2>6. QED
    BY <2>4, <2>5
<1>4. OnnxOutcome(g, i, p)
  BY OnnxStringStatus
<1>5. \A k \in 1..SizeOf(p) : /\ k \in DOMAIN OnnxParsed(i)[p].strings
                              /\ OnnxParsed(i)[p].strings[k] = <<p, i, k>>
  BY <1>4 DEF OnnxOutcome
<1>6. \A k \in 1..SizeOf(p) : g.rows[Offset(p) + k] = OnnxParsed(i)[p].strings[k]
  BY <1>1, <1>3, <1>5, OnnxParts
<1>7. i \notin Controls
  BY NamesApart
<1>8. QED
  BY <1>5, <1>6, <1>7 DEF OwnTensor, OwnToken

\* What an input becomes that every payload reads at its own place.
FixedOutcome(g, i, p) ==
  /\ ReadLeaves(g.copy[p], i, p)
  /\ status[p] # "ok" => g.copy[p].status = status[p]
  /\ g.copy[p].status # "ok" => status[p] # "ok" \/ (i \in Inputs /\ i \notin Named(p))
  /\ g.copy[p].status = "ok" /\ request[p].via # "null" => OwnTensor(g.rows, i, p)

\* A fixed-size input that is read first is copied whole to its payload's place.
LEMMA CopyFixedFacts ==
    ASSUME Ready, NEW i \in Inputs \cup SequenceControls(model), ~IsString(model, i),
           NEW room, \A p \in InBatch : room[p] \in Int /\ SizeOf(p) <= room[p],
           NEW g, g = CopyFixed(i, room), NEW p \in InBatch, provider[p].at[i] = 0
    PROVE  FixedOutcome(g, i, p)
<1>1. Sized /\ i \in Inputs \cup Controls /\ SizeOf(p) \in Nat
  BY DEF Ready, Sized, SequenceControls
<1>2. PICK copy : copy = [q \in InBatch |-> Copied(i, q, SizeOf(q), room[q])]
  OBVIOUS
<1>3. PICK rows : rows = [q \in InBatch |-> Padded(copy[q].data, SizeOf(q), Junk)]
  OBVIOUS
<1>4. g = [rows |-> Laid(rows), copy |-> copy]
  BY <1>2, <1>3 DEF CopyFixed
<1>5. PICK c : c = Copied(i, p, SizeOf(p), room[p])
  OBVIOUS
<1>6. g.copy[p] = c
  BY <1>2, <1>4, <1>5
<1>7. ReadLeaves(c, i, p) /\ (status[p] # "ok" => c.status = status[p])
  BY <1>1, <1>5, CopiedLeaves
<1>8. ASSUME status[p] = "ok"
      PROVE  /\ c.status # "ok" => i \in Inputs /\ i \notin Named(p)
             /\ c.status = "ok" /\ request[p].via # "null" =>
                  \A k \in 1..SizeOf(p) : k \in DOMAIN c.data /\ c.data[k] = OwnToken(p, i, k)
  <2>1. PICK space \in Int : space = room[p]
    OBVIOUS
  <2>2. SizeOf(p) <= space /\ c = Copied(i, p, SizeOf(p), space)
    BY <1>5, <2>1
  <2>3. QED
    BY <1>8, <2>2, CopiedFixed
<1>9. ASSUME c.status = "ok", request[p].via # "null" PROVE OwnTensor(g.rows, i, p)
  <2>1. \A k \in 1..SizeOf(p) : k \in DOMAIN c.data /\ c.data[k] = OwnToken(p, i, k)
    BY <1>7, <1>8, <1>9
  <2>2. rows[p] = Padded(c.data, SizeOf(p), Junk)
    BY <1>2, <1>3, <1>5
  <2>3. ASSUME NEW k \in 1..SizeOf(p) PROVE g.rows[Offset(p) + k] = OwnToken(p, i, k)
    <3>1. g.rows[Offset(p) + k] = rows[p][k]
      BY <1>1, <1>4, LaidRow
    <3>2. rows[p][k] = c.data[k]
      BY <2>1, <2>2 DEF Padded
    <3>3. QED
      BY <2>1, <3>1, <3>2
  <2>4. QED
    BY <2>3 DEF OwnTensor
<1>10. QED
  BY <1>6, <1>7, <1>8, <1>9 DEF FixedOutcome

\* Every backend has room for the payloads of a batch that Run accepted.
LEMMA RoomEnough ==
    ASSUME Sized, model.max \in Nat, Total = 1 \/ Total <= model.max, NEW p \in InBatch
    PROVE  /\ Share[p] \in Int /\ SizeOf(p) <= Share[p]
           /\ Rest[p] \in Int /\ SizeOf(p) <= Rest[p]
           /\ Binding[p] \in Int /\ SizeOf(p) <= Binding[p]
<1>1. /\ Offset(p) \in Nat /\ Total \in Nat /\ SizeOf(p) \in Nat \ {0}
      /\ Offset(p) + SizeOf(p) <= Total
  BY Placed
<1>2. Share[p] = SizeOf(p) /\ Rest[p] = Total - Offset(p)
  BY DEF Share, Rest
<1>3. Binding[p] = (IF model.max = 0 THEN 1 ELSE model.max) - Offset(p)
  BY DEF Binding
<1>4. PICK most \in Nat : most = IF model.max = 0 THEN 1 ELSE model.max
  OBVIOUS
<1>5. Total <= most
  BY <1>1, <1>4
<1>6. Binding[p] = most - Offset(p)
  BY <1>3, <1>4
<1>7. QED
  BY <1>1, <1>2, <1>5, <1>6

\* What gathering an input makes of a payload's status.
GatherOutcome(g, i, p) ==
  /\ ReadLeaves(g.copy[p], i, p)
  /\ g.copy[p].status # "ok" =>
       status[p] # "ok" \/ ~Regular(p) \/ (model.string /\ request[p].strings # "each")
  /\ ~IsTf(model) /\ g.copy[p].status = "ok" => status[p] = "ok"
  /\ request[p].via # "null" /\ g.copy[p].status = "ok" =>
       status[p] = "ok" \/ (IsTf(model) /\ model.string /\ request[p].strings = "each")

\* When the tensor gathered has a payload's own rows.
GatherRows(g, i, p) ==
  (/\ g.copy[p].status = "ok" /\ request[p].via # "null"
   /\ IsTf(model) /\ model.string => \A q \in Before(p) : Regular(q)
   /\ model.platform = "onnx" /\ model.string =>
        request[p].strings # "few" /\ \A q \in InBatch : g.copy[q].status = "ok")
    => OwnTensor(g.rows, i, p)

\* What can be gathered for the model that is loaded.
Gatherable ==
  /\ Ready
  /\ model.platform \in {"onnx", "plan", "graphdef", "savedmodel", "libtorch", "netdef"}
  /\ model.inputs \subseteq Inputs /\ model.max \in Nat
  /\ model.platform \in {"plan", "libtorch", "netdef"} => ~model.string
  /\ Total = 1 \/ Total <= model.max

\* An input that is read first is gathered at its payload's place, whatever
\* the backend, unless the payload is in error or excused.
LEMMA GatherFacts ==
    ASSUME Gatherable, NEW i \in model.inputs \cup SequenceControls(model), ~SizesMissing(i),
           \A p \in InBatch : provider[p].at[i] = 0,
           NEW g, g = Gather(i), NEW p \in InBatch
    PROVE  GatherOutcome(g, i, p) /\ GatherRows(g, i, p)
<1>1. /\ Ready /\ Sized /\ i \in Inputs \cup SequenceControls(model)
      /\ provider[p].at[i] = 0 /\ i \in Inputs \cup Controls
  BY DEF Gatherable, Ready, SequenceControls
<1>2. i \in Inputs => i \in model.inputs
  BY NamesApart DEF SequenceControls
<1>3. CASE ~IsString(model, i)
  <2>1. g = CopyFixed(i, Share) \/ g = CopyFixed(i, Rest) \/ g = CopyFixed(i, Binding)
    BY <1>3 DEF Gatherable, Gather, PlanCopyInput, OnnxSetInputTensor, OnnxSetInputBuffer,
                LibTorchSetFixedSizedInputTensor, NetDefSetFixedSizedInputTensor, TfSetInput,
                TfSetFixedSizedInputTensor, IsTf
  <2>2. FixedOutcome(g, i, p)
    <3>1. CASE g = CopyFixed(i, Share)
      <4>1. PICK room : room = Share
        OBVIOUS
      <4>2. \A q \in InBatch : room[q] \in Int /\ SizeOf(q) <= room[q]
        BY <1>1, <4>1, RoomEnough DEF Gatherable
      <4>3. g = CopyFixed(i, room)
        BY <3>1, <4>1
      <4>4. QED
        BY <1>1, <1>3, <4>2, <4>3, CopyFixedFacts
    <3>2. CASE g = CopyFixed(i, Rest)
      <4>1. PICK room : room = Rest
        OBVIOUS
      <4>2. \A q \in InBatch : room[q] \in Int /\ SizeOf(q) <= room[q]
        BY <1>1, <4>1, RoomEnough DEF Gatherable
      <4>3. g = CopyFixed(i, room)
        BY <3>2, <4>1
      <4>4. QED
        BY <1>1, <1>3, <4>2, <4>3, CopyFixedFacts
    <3>3. CASE g = CopyFixed(i, Binding)
      <4>1. PICK room : room = Binding
        OBVIOUS
      <4>2. \A q \in InBatch : room[q] \in Int /\ SizeOf(q) <= room[q]
        BY <1>1, <4>1, RoomEnough DEF Gatherable
      <4>3. g = CopyFixed(i, room)
        BY <3>3, <4>1
      <4>4. QED
        BY <1>1, <1>3, <4>2, <4>3, CopyFixedFacts
    <3>4. QED
      BY <2>1, <3>1, <3>2, <3>3
  <2>3. i \in Inputs /\ i \notin Named(p) => ~Regular(p)
    BY <1>2 DEF Regular
  <2>4. GatherOutcome(g, i, p)
    BY <2>2, <2>3 DEF FixedOutcome, GatherOutcome
  <2>5. GatherRows(g, i, p)
    BY <2>2 DEF FixedOutcome, GatherRows
  <2>6. QED
    BY <2>4, <2>5
<1>4. CASE IsString(model, i)
  <2>1. i \in Inputs /\ model.string
    BY <1>1, <1>4, NamesApart DEF IsString, SequenceControls
  <2>2. CASE IsTf(model)
    <3>1. g = TfSetStringInputTensor(i)
      BY <1>4, <2>2 DEF Gather, IsTf, TfSetInput
    <3>2. /\ ReadLeaves(g.copy[p], i, p)
          /\ request[p].via = "null" => g.copy[p].status = "ok"
          /\ request[p].via # "null" =>
               /\ i \notin Named(p) => g.copy[p].status # "ok"
               /\ i \in Named(p) => (g.copy[p].status = "ok" <=> request[p].strings = "each")
      BY <1>1, <1>4, <2>1, <3>1, TfStringStatus
    <3>3. i \notin Named(p) => ~Regular(p)
      BY <1>2, <2>1 DEF Regular
    <3>4. GatherOutcome(g, i, p)
      BY <2>1, <2>2, <3>2, <3>3 DEF GatherOutcome
    <3>5. GatherRows(g, i, p)
      <4>1. SUFFICES ASSUME g.copy[p].status = "ok", request[p].via # "null",
                            \A q \in Before(p) : Regular(q)
                     PROVE  OwnTensor(g.rows, i, p)
        BY <2>1, <2>2 DEF GatherRows
      <4>2. \A q \in Before(p) : i \in Named(q)
        BY <1>2, <2>1, <4>1 DEF Regular
      <4>3. QED
        BY <1>1, <1>4, <2>1, <3>1, <4>1, <4>2, TfStringRows
    <3>6. QED
      BY <3>4, <3>5
  <2>3. CASE ~IsTf(model)
    <3>1. model.platform = "onnx"
      BY <2>1, <2>3 DEF Gatherable, IsTf
    <3>2. g = OnnxSetStringInputBuffer(i)
      <4>1. Gather(i) = OnnxSetInputTensor(i)
        BY <3>1 DEF Gather, IsTf
      <4>2. QED
        BY <1>4, <4>1 DEF OnnxSetInputTensor
    <3>3. \A q \in InBatch : i \in Named(q)
      BY <1>4, <3>1 DEF SizesMissing
    <3>4. OnnxOutcome(g, i, p)
      BY <1>1, <1>4, <2>1, <3>2, <3>3, OnnxStringStatus
    <3>5. GatherOutcome(g, i, p)
      BY <1>1, <2>1, <2>3, <3>4 DEF OnnxOutcome, GatherOutcome
    <3>6. GatherRows(g, i, p)
      <4>1. SUFFICES ASSUME request[p].via # "null", request[p].strings # "few",
                            \A q \in InBatch : g.copy[q].status = "ok"
                     PROVE  OwnTensor(g.rows, i, p)
        BY <2>1, <3>1 DEF GatherRows
      <4>2. QED
        BY <1>1, <1>4, <2>1, <3>2, <3>3, <4>1, OnnxStringRows
    <3>7. QED
      BY <3>5, <3>6
  <2>4. QED
    BY <2>2, <2>3
<1>5. QED
  BY <1>3, <1>4

(***************************************************************************)
(* The invariant.                                                          *)
(***************************************************************************)

TypeInv ==
  /\ model \in Models /\ request \in [Payloads -> Kinds] /\ batch \in Seq(Payloads)
  /\ phase \in {"loading", "admitting", "starting", "gathering", "reading", "finishing", "done"}
  /\ status \in [Payloads -> {"new", "ok", "rejected", "invalid", "internal"}]
  /\ verdict \in {"ok", "internal"}
  /\ provider = [p \in Payloads |-> provider[p]]
  /\ result = [p \in Payloads |-> result[p]]
  /\ produced = [outcome |-> produced.outcome, rows |-> produced.rows]
  /\ tensors \in Seq({tensors[t] : t \in DOMAIN tensors})
  /\ todo \in Seq(Inputs \cup Controls \cup Outputs \cup {Unknown})

\* A context exists only for a configuration that was checked, and a payload
\* is in the batch only with a header that was.
AdmissionInv ==
  /\ contexts # <<>> => CreateExecutionContext(model)
  /\ \A p \in InBatch : Proper(model, request[p]) /\ Supplied(provider[p], model, request[p], p)

\* Before an input is read nothing was handed out and nobody is in error.
FreshInv ==
  /\ (\/ phase \in {"loading", "admitting", "starting"}
      \/ phase = "gathering" /\ model.platform = "custom") =>
       /\ tensors = <<>>
       /\ \A p \in InBatch : /\ status[p] = "ok"
                             /\ \A i \in Inputs \cup Controls : provider[p].at[i] = 0
  /\ phase = "loading" => batch = <<>>
  /\ phase \in {"loading", "admitting", "starting"} => verdict = "ok"
  /\ phase \in {"loading", "admitting", "starting", "gathering"} =>
       \A p \in Payloads : result[p] = <<>>

StartedInv ==
  /\ phase \in {"gathering", "reading"} =>
       /\ batch # <<>> /\ contexts # <<>> /\ verdict = "ok"
       /\ Total = 1 \/ Total <= model.max
  /\ phase \in {"gathering", "reading", "finishing"} =>
       \A p \in InBatch : status[p] \in {"ok", "invalid", "internal"}
  /\ phase = "reading" => model.platform # "custom"

Distinct(s) == \A a, b \in DOMAIN s : s[a] = s[b] => a = b
InputOrder == ContextRun.inputs

\* Caffe2 runs whatever it was fed, but a payload that was to give an input
\* twice is in error.
Spent ==
  model.platform = "netdef" =>
    \A p \in InBatch : status[p] = "ok" /\ request[p].via # "null" =>
      /\ \A i \in Inputs \cup Controls :
           provider[p].at[i] \in Nat /\ (i \in Fed => provider[p].at[i] # 0)
      /\ \A a, b \in DOMAIN tensors : tensors[a].input = tensors[b].input => a = b

\* The inputs are set in their order.
OrderInv ==
  phase = "gathering" =>
    /\ Len(tensors) + Len(todo) = Len(InputOrder)
    /\ \A k \in 1..Len(todo) : todo[k] = InputOrder[Len(tensors) + k]
    /\ \A t \in DOMAIN tensors : t \in DOMAIN InputOrder /\ tensors[t].input = InputOrder[t]
    /\ Spent

\* An error is a payload's own, and what was gathered of a payload without one
\* is at its place, when each input is set once.
GatherInv ==
  phase \in {"gathering", "reading"} /\ Distinct(InputOrder) =>
    \A p \in InBatch :
      /\ status[p] # "ok" => ~Regular(p) \/ (model.string /\ request[p].strings # "each")
      /\ phase = "gathering" =>
           /\ \A i \in Inputs \cup Controls : i \notin Fed => provider[p].at[i] = 0
           /\ status[p] = "ok" /\ ~Excused(p) /\ request[p].via # "null" =>
                \A t \in DOMAIN tensors : OwnTensor(tensors[t].rows, tensors[t].input, p)

OwnProduced(o, p) == \A k \in 1..SizeOf(p) : produced.rows[o][Offset(p) + k] = OwnRow(o, p, k)

\* What the framework returned at a payload's place is of the payload's own
\* inputs, and what a payload has not been given yet is still to be read.
ReadInv ==
  phase = "reading" =>
    \A p \in InBatch : status[p] = "ok" =>
      /\ ~Excused(p) /\ request[p].via # "null" =>
           \A o \in Outputs : (model.platform = "libtorch" => o = FirstOut) => OwnProduced(o, p)
      /\ \A o \in Asked(p) \cap Outputs :
           \/ \E k \in DOMAIN todo : todo[k] = o
           \/ o \in DOMAIN result[p] /\ result[p][o] = Read(o, p)

ResultInv ==
  phase \in {"reading", "finishing"} => \A p \in InBatch : DOMAIN result[p] \subseteq Asked(p)

OwnResult(p) ==
  \A o \in Asked(p) \cap Outputs :
    \/ o \in DOMAIN result[p] /\ result[p][o] = OwnRows(o, p)
    \/ model.platform = "libtorch" /\ o # FirstOut

FinishInv ==
  phase = "finishing" =>
    /\ verdict # "ok" => BatchFault
    /\ \A p \in InBatch : status[p] # "ok" => OwnFault(p) \/ BatchFault
    /\ verdict = "ok" => \A p \in InBatch : status[p] = "ok" /\ ~Excused(p) => OwnResult(p)

IInv ==
  /\ TypeInv /\ AdmissionInv /\ FreshInv /\ StartedInv /\ OrderInv /\ GatherInv
  /\ ReadInv /\ ResultInv /\ FinishInv /\ OwnResults /\ ErrorsStayLocal

(***************************************************************************)
(* What the constants and the checks of a load say of the model.           *)
(***************************************************************************)

\* What is known of every model.
Modelled(m) ==
  /\ m.platform \in {"onnx", "plan", "graphdef", "savedmodel", "libtorch", "netdef", "custom"}
  /\ m.inputs \subseteq Inputs /\ m.given \subseteq Inputs \cup Controls /\ m.max \in Nat
  /\ m.string \in BOOLEAN /\ m.sequence \in BOOLEAN
  /\ IsFiniteSet(m.inputs) /\ IsFiniteSet(m.given) /\ IsFiniteSet(SequenceControls(m))
  /\ m.inputs \cap SequenceControls(m) = {}
  /\ m.platform = "libtorch" => m.given = m.inputs \cup SequenceControls(m)
  /\ m.platform = "custom" => \A o \in Outputs : Paired[o] \in m.inputs

\* What the constants say of a model.
LEMMA ModelFacts ==
    ASSUME NEW m \in Models
    PROVE  Modelled(m)
<1>1. /\ m.platform \in {"onnx", "plan", "graphdef", "savedmodel", "libtorch", "netdef", "custom"}
      /\ m.inputs \subseteq Inputs /\ m.given \subseteq Inputs \cup Controls /\ m.max \in Nat
      /\ m.string \in BOOLEAN /\ m.sequence \in BOOLEAN
      /\ m.platform = "libtorch" => m.given = m.inputs \cup SequenceControls(m)
      /\ m.platform = "custom" => \A o \in Outputs : Paired[o] \in m.inputs
  BY ModelsAreModels
<1>2. IsFiniteSet(Inputs) /\ IsFiniteSet(Controls) /\ Inputs \cap Controls = {}
  BY NamesApart
<1>3. IsFiniteSet(Inputs \cup Controls)
  BY <1>2, FS_Union
<1>4. SequenceControls(m) \subseteq Controls
  BY DEF SequenceControls
<1>5. IsFiniteSet(m.inputs) /\ IsFiniteSet(m.given) /\ IsFiniteSet(SequenceControls(m))
  BY <1>1, <1>2, <1>3, <1>4, FS_Subset
<1>6. m.inputs \cap SequenceControls(m) = {}
  BY <1>1, <1>2, <1>4
<1>7. QED
  BY <1>1, <1>5, <1>6, Zenon DEF Modelled

\* What is known of a model whose context was created.
Checked(m) ==
  /\ m.platform \in {"plan", "libtorch", "netdef", "custom"} => ~m.string
  /\ m.platform \in {"onnx", "plan", "savedmodel"} => m.given = m.inputs \cup SequenceControls(m)

\* Two disjoint sets within a set that is no larger than both make it up.
LEMMA SameNames ==
    ASSUME NEW A, NEW B, NEW G, IsFiniteSet(A), IsFiniteSet(B), IsFiniteSet(G), A \cap B = {},
           A \subseteq G, B \subseteq G, Cardinality(G) = Cardinality(A) + Cardinality(B)
    PROVE  G = A \cup B
<1>1. /\ IsFiniteSet(A \cup B)
      /\ Cardinality(A \cup B) = Cardinality(A) + Cardinality(B) - Cardinality(A \cap B)
  BY FS_Union
<1>2. Cardinality(A \cap B) = 0 /\ Cardinality(A) \in Nat /\ Cardinality(B) \in Nat
  BY FS_EmptySet, FS_CardinalityType, Zenon
<1>3. Cardinality(A \cup B) = Cardinality(G)
  BY <1>1, <1>2
<1>4. A \cup B \subseteq G
  OBVIOUS
<1>5. QED
  BY <1>3, <1>4, FS_Subset

\* What the checks of CreateExecutionContext say of a model.
LEMMA CheckedFacts ==
    ASSUME NEW m, Modelled(m), CreateExecutionContext(m)
    PROVE  Checked(m)
<1>1. CASE m.platform \in {"onnx", "savedmodel"}
  <2>1. /\ SequenceControls(m) \subseteq m.given /\ m.inputs \subseteq m.given
        /\ Cardinality(m.given) = Cardinality(m.inputs) + Cardinality(SequenceControls(m))
    <3>1. CASE m.platform = "onnx"
      BY <3>1 DEF CreateExecutionContext, IsTf, OnnxCreateExecutionContext, OnnxValidates
    <3>2. CASE m.platform = "savedmodel"
      <4>1. TfCreateExecutionContext(m)
        BY <3>2 DEF CreateExecutionContext, IsTf
      <4>2. SavedModelValidates(m)
        BY <3>2, <4>1 DEF TfCreateExecutionContext
      <4>3. QED
        BY <4>2 DEF SavedModelValidates
    <3>3. QED
      BY <1>1, <3>1, <3>2
  <2>2. m.given = m.inputs \cup SequenceControls(m)
    BY <2>1, SameNames DEF Modelled
  <2>3. QED
    BY <1>1, <2>2 DEF Checked
<1>2. CASE m.platform = "plan"
  <2>1. PlanValidates(m)
    BY <1>2 DEF CreateExecutionContext, IsTf, PlanCreateExecutionContext
  <2>2. ~m.string /\ m.given = m.inputs \cup SequenceControls(m)
    BY <2>1 DEF PlanValidates, PlanBindsInputs
  <2>3. QED
    BY <2>2 DEF Checked
<1>3. CASE m.platform \in {"libtorch", "netdef", "custom"}
  <2>1. ~m.string
    BY <1>3 DEF CreateExecutionContext, IsTf, LibTorchCreateExecutionContext, LibTorchValidates,
                NetDefCreateExecutionContext, NetDefValidates, CustomCreateExecutionContext,
                IdentityValidates
  <2>2. QED
    BY <1>3, <2>1 DEF Checked
<1>4. CASE m.platform = "graphdef"
  BY <1>4 DEF Checked
<1>5. QED
  BY <1>1, <1>2, <1>3, <1>4 DEF Modelled

\* What is known of every request.
Asking(r) ==
  /\ r.via \in {"http", "grpc", "null"} /\ r.batch \in Nat
  /\ r.names \in Seq(Inputs \cup {Unknown})
  /\ r.strings \in {"each", "few", "many", "cut"}
  /\ DOMAIN r.asks \subseteq Outputs \cup {Unknown}

\* What the constants say of a request.
LEMMA RequestFacts ==
    ASSUME TypeInv, NEW p \in Payloads
    PROVE  Asking(request[p]) /\ Asked(p) \subseteq Outputs \cup {Unknown}
<1>1. PICK r : r = request[p]
  OBVIOUS
<1>2. r \in Requests
  BY <1>1, KindsAreRequests DEF TypeInv
<1>3. /\ r.via \in {"http", "grpc", "null"} /\ r.batch \in Nat
      /\ r.names \in Seq(Inputs \cup {Unknown})
      /\ r.strings \in {"each", "few", "many", "cut"}
      /\ r.asks \in UNION {[S -> {"raw", "class"}] : S \in SUBSET (Outputs \cup {Unknown})}
  BY <1>2 DEF Requests
<1>4. DOMAIN r.asks \subseteq Outputs \cup {Unknown}
  BY <1>3
<1>5. QED
  BY <1>1, <1>3, <1>4 DEF Asking, Asked

(***************************************************************************)
(* What a backend's Run does.                                              *)
(***************************************************************************)

\* The length of a concatenation.
LEMMA Joined ==
    ASSUME NEW U, NEW x \in Seq(U), NEW s \in Seq(U)
    PROVE  x \o s \in Seq(U) /\ Len(x \o s) = Len(x) + Len(s)
<1>1. x \o s \in Seq(U)
  OBVIOUS
<1>2. Len(x \o s) = Len(x) + Len(s)
  OBVIOUS
<1>3. QED
  BY <1>1, <1>2

\* What is in a batch is a payload, with a size that is not zero.
LEMMA BatchFacts ==
    ASSUME TypeInv, AdmissionInv
    PROVE  /\ Sized /\ InBatch \subseteq Payloads
           /\ \A p \in InBatch : SizeOf(p) = request[p].batch
           /\ batch # <<>> => Representative \in InBatch /\ batch[1] \in InBatch
<1>1. batch \in Seq(Payloads)
  BY DEF TypeInv
<1>2. InBatch \subseteq Payloads
  BY <1>1 DEF InBatch
<1>3. \A p \in InBatch : SizeOf(p) = request[p].batch /\ SizeOf(p) \in Nat \ {0}
  BY DEF SizeOf, AdmissionInv, Proper
<1>4. ASSUME batch # <<>> PROVE Representative \in InBatch /\ batch[1] \in InBatch
  <2>1. Len(batch) \in DOMAIN batch /\ 1 \in DOMAIN batch
    BY <1>1, <1>4
  <2>2. QED
    BY <2>1 DEF Representative, InBatch
<1>5. QED
  BY <1>2, <1>3, <1>4 DEF Sized

\* The inputs that each backend's Run sets, in their order.
LEMMA RunInputs ==
    ASSUME Modelled(model)
    PROVE  /\ model.platform = "plan" => InputOrder = SetToSeq(model.given)
           /\ model.platform = "custom" => InputOrder = <<>>
           /\ model.platform \notin {"plan", "custom"} => InputOrder = RepresentativeInputs
BY DEF Modelled, InputOrder, ContextRun, IsTf, OnnxRun, PlanRun, TfRun, LibTorchRun, NetDefRun

\* When each framework accepts what it was fed.
LEMMA RunAccepts ==
    ASSUME Modelled(model)
    PROVE  /\ model.platform = "onnx" => (ContextRun.accepts <=> Fed = model.given /\ FedOnce)
           /\ IsTf(model) => (ContextRun.accepts <=> Fed = model.given /\ FedOnce
                                                     /\ RequiredOutputs \subseteq Outputs)
           /\ model.platform \in {"plan", "libtorch", "netdef"} => ContextRun.accepts
<1>1. CASE model.platform = "onnx"
  BY <1>1 DEF ContextRun, IsTf, OnnxRun
<1>2. CASE IsTf(model)
  <2>1. ContextRun = TfRun
    BY <1>2 DEF ContextRun, IsTf
  <2>2. QED
    BY <1>2, <2>1 DEF IsTf, TfRun
<1>3. CASE model.platform \in {"plan", "libtorch", "netdef"}
  BY <1>3 DEF ContextRun, IsTf, PlanRun, LibTorchRun, NetDefRun
<1>4. CASE model.platform = "custom"
  BY <1>4 DEF IsTf
<1>5. QED
  BY <1>1, <1>2, <1>3, <1>4 DEF Modelled, IsTf

\* Only TorchScript throws, at what is not one tensor.
LEMMA RunThrows ==
    ASSUME Modelled(model)
    PROVE  /\ model.platform = "libtorch" =>
                (ContextRun.throws <=> \/ Len(request[Representative].names) # 1
                                       \/ Cardinality(model.given) # 1)
           /\ model.platform # "libtorch" => ~ContextRun.throws
BY DEF Modelled, ContextRun, IsTf, OnnxRun, PlanRun, TfRun, LibTorchRun, NetDefRun

\* The outputs that each backend's Run reads.
LEMMA RunOutputs ==
    ASSUME Modelled(model)
    PROVE  /\ IsTf(model) => ContextRun.outputs = SetToSeq(RequiredOutputs)
           /\ ~IsTf(model) => ContextRun.outputs = SetToSeq(Outputs)
           /\ ContextRun.skips <=> model.platform = "plan"
BY DEF Modelled, ContextRun, IsTf, OnnxRun, PlanRun, TfRun, LibTorchRun, NetDefRun

\* Where the batch and the model stay, so does the order of the inputs.
LEMMA OrderStays ==
    ASSUME Modelled(model), model' = model, request' = request, batch' = batch
    PROVE  InputOrder' = InputOrder
<1>1. Modelled(model)'
  BY DEF Modelled, SequenceControls
<1>2. RepresentativeInputs' = RepresentativeInputs
  BY DEF RepresentativeInputs, Representative, SequenceControls
<1>3. /\ model.platform = "plan" => InputOrder' = SetToSeq(model.given)
      /\ model.platform = "custom" => InputOrder' = <<>>
      /\ model.platform \notin {"plan", "custom"} => InputOrder' = RepresentativeInputs'
  BY DEF Modelled, InputOrder, ContextRun, IsTf, OnnxRun, PlanRun, TfRun, LibTorchRun, NetDefRun
<1>4. QED
  BY <1>2, <1>3, RunInputs, Zenon

\* The inputs that are gathered.
LEMMA OrderFacts ==
    ASSUME TypeInv, AdmissionInv, batch # <<>>, model.platform # "custom", contexts # <<>>
    PROVE  /\ InputOrder \in Seq(model.inputs \cup SequenceControls(model))
           /\ model.platform = "plan" =>
                {InputOrder[t] : t \in DOMAIN InputOrder} = model.given
           /\ model.platform # "plan" =>
                {InputOrder[t] : t \in DOMAIN InputOrder}
                   = Named(Representative) \cup SequenceControls(model)
           /\ (model.platform = "plan" \/ Regular(Representative)) => Distinct(InputOrder)
<1>1. model \in Models /\ Modelled(model) /\ Checked(model)
  BY ModelFacts, CheckedFacts DEF TypeInv, AdmissionInv
<1>2. Representative \in InBatch
  BY BatchFacts
<1>3. PICK r : r = request[Representative]
  OBVIOUS
<1>4. r.names \in Seq(model.inputs) /\ Len(r.names) = Cardinality(model.inputs)
  BY <1>2, <1>3 DEF AdmissionInv, Proper
<1>5. CASE model.platform = "plan"
  <2>1. PICK s : s = SetToSeq(model.given)
    OBVIOUS
  <2>2. IsFiniteSet(model.given) /\ model.given = model.inputs \cup SequenceControls(model)
    BY <1>1, <1>5 DEF Modelled, Checked
  <2>3. PICK n \in Nat : n = Cardinality(model.given)
    BY <2>2, FS_CardinalityType
  <2>4. /\ s \in Seq(model.given) /\ DOMAIN s = 1..n
        /\ \A a, b \in 1..n : s[a] = s[b] => a = b
        /\ \A x \in model.given : \E a \in 1..n : s[a] = x
    BY <2>1, <2>2, <2>3, SetToSeqFacts
  <2>5. InputOrder = s
    BY <1>1, <1>5, <2>1, RunInputs
  <2>6. {s[t] : t \in DOMAIN s} = model.given
    BY <2>4
  <2>7. QED
    BY <1>5, <2>2, <2>4, <2>5, <2>6 DEF Distinct
<1>6. CASE model.platform # "plan"
  <2>1. PICK s : s = SetToSeq(SequenceControls(model))
    OBVIOUS
  <2>2. IsFiniteSet(SequenceControls(model))
    BY <1>1 DEF Modelled
  <2>3. PICK n \in Nat : n = Cardinality(SequenceControls(model))
    BY <2>2, FS_CardinalityType
  <2>4. /\ s \in Seq(SequenceControls(model)) /\ DOMAIN s = 1..n /\ Len(s) = n
        /\ \A a, b \in 1..n : s[a] = s[b] => a = b
        /\ \A x \in SequenceControls(model) : \E a \in 1..n : s[a] = x
    BY <2>1, <2>2, <2>3, SetToSeqFacts
  <2>5. InputOrder = r.names \o s
    BY <1>1, <1>3, <1>6, <2>1, RunInputs DEF RepresentativeInputs
  <2>6. PICK l \in Nat : l = Len(r.names)
    BY <1>4
  <2>7. PICK both : both = r.names \o s
    OBVIOUS
  <2>8. /\ both \in Seq(model.inputs \cup SequenceControls(model))
        /\ DOMAIN both = 1..(l + n)
        /\ \A t \in 1..l : both[t] = r.names[t] /\ t \in DOMAIN r.names
        /\ \A t \in 1..n : both[l + t] = s[t]
    <3>1. r.names \in Seq(model.inputs \cup SequenceControls(model))
      BY <1>4
    <3>2. s \in Seq(model.inputs \cup SequenceControls(model))
      BY <2>4
    <3>3. both \in Seq(model.inputs \cup SequenceControls(model)) /\ Len(both) = l + n
      <4>1. PICK U : U = model.inputs \cup SequenceControls(model)
        OBVIOUS
      <4>2. PICK x : x = r.names
        OBVIOUS
      <4>3. x \in Seq(U) /\ s \in Seq(U) /\ Len(x) = l /\ Len(s) = n /\ both = x \o s
        BY <2>4, <2>6, <2>7, <3>1, <3>2, <4>1, <4>2
      <4>4. x \o s \in Seq(U) /\ Len(x \o s) = Len(x) + Len(s)
        BY <4>3, Joined
      <4>5. QED
        BY <4>1, <4>3, <4>4
    <3>4. \A t \in 1..l : both[t] = r.names[t] /\ t \in DOMAIN r.names
      BY <2>6, <2>7, <3>1, <3>2
    <3>5. \A t \in 1..n : both[l + t] = s[t]
      BY <2>4, <2>6, <2>7, <3>1, <3>2
    <3>6. QED
      BY <3>3, <3>4, <3>5
  <2>9. \A t \in DOMAIN both : (t \in 1..l /\ both[t] = r.names[t] /\ t \in DOMAIN r.names)
                               \/ (\E a \in 1..n : t = l + a /\ both[t] = s[a])
    <3>1. ASSUME NEW t \in 1..(l + n) PROVE t \in 1..l \/ \E a \in 1..n : t = l + a
      <4>1. CASE t > l
        <5>1. t - l \in 1..n /\ t = l + (t - l)
          BY <4>1
        <5>2. QED
          BY <5>1
      <4>2. QED
        BY <4>1
    <3>2. QED
      BY <2>8, <3>1
  <2>10. {both[t] : t \in DOMAIN both} = Named(Representative) \cup SequenceControls(model)
    <3>1. Named(Representative) = {r.names[j] : j \in DOMAIN r.names}
      BY <1>3 DEF Named
    <3>2. DOMAIN r.names = 1..l
      BY <1>4, <2>6
    <3>3. \A t \in DOMAIN both : both[t] \in Named(Representative) \cup SequenceControls(model)
      BY <2>4, <2>9, <3>1
    <3>4. \A x \in Named(Representative) : \E t \in DOMAIN both : both[t] = x
      <4>1. SUFFICES ASSUME NEW j \in 1..l PROVE \E t \in DOMAIN both : both[t] = r.names[j]
        BY <3>1, <3>2
      <4>2. j \in DOMAIN both
        BY <2>8
      <4>3. QED
        BY <2>8, <4>2
    <3>5. \A x \in SequenceControls(model) : \E t \in DOMAIN both : both[t] = x
      <4>1. SUFFICES ASSUME NEW a \in 1..n PROVE \E t \in DOMAIN both : both[t] = s[a]
        BY <2>4
      <4>2. l + a \in DOMAIN both
        BY <2>8
      <4>3. QED
        BY <2>8, <4>2
    <3>6. QED
      BY <3>3, <3>4, <3>5
  <2>11. ASSUME Regular(Representative) PROVE Distinct(both)
    <3>1. Named(Representative) = model.inputs
      BY <2>11 DEF Regular
    <3>2. {r.names[j] : j \in DOMAIN r.names} = model.inputs
      BY <1>3, <3>1 DEF Named
    <3>3. \A a, b \in DOMAIN r.names : r.names[a] = r.names[b] => a = b
      BY <1>1, <1>4, <3>2, NamedOnce DEF Modelled
    <3>4. \A t \in DOMAIN r.names : r.names[t] \in model.inputs
      BY <1>4
    <3>5. \A t \in 1..n : s[t] \in SequenceControls(model)
      BY <2>4
    <3>6. model.inputs \cap SequenceControls(model) = {}
      BY <1>1 DEF Modelled
    <3>7. ASSUME NEW a \in DOMAIN both, NEW b \in DOMAIN both, both[a] = both[b] PROVE a = b
      <4>1. CASE a \in 1..l /\ b \in 1..l
        BY <2>8, <3>3, <3>7, <4>1
      <4>2. CASE a \in 1..l /\ b \notin 1..l
        BY <2>9, <3>4, <3>5, <3>6, <3>7, <4>2
      <4>3. CASE a \notin 1..l /\ b \in 1..l
        BY <2>9, <3>4, <3>5, <3>6, <3>7, <4>3
      <4>4. CASE a \notin 1..l /\ b \notin 1..l
        <5>1. PICK x \in 1..n : a = l + x /\ both[a] = s[x]
          BY <2>9, <4>4
        <5>2. PICK y \in 1..n : b = l + y /\ both[b] = s[y]
          BY <2>9, <4>4
        <5>3. x = y
          BY <2>4, <3>7, <5>1, <5>2
        <5>4. QED
          BY <5>1, <5>2, <5>3
      <4>5. QED
        BY <4>1, <4>2, <4>3, <4>4
    <3>8. QED
      BY <3>7 DEF Distinct
  <2>12. QED
    BY <1>6, <2>5, <2>7, <2>8, <2>10, <2>11
<1>7. QED
  BY <1>5, <1>6

(***************************************************************************)
(* Admission.                                                              *)
(***************************************************************************)

\* The blocks made of a body: each input's own data, whose last block ends
\* where it does.
Cutting(s, b) ==
  /\ b.data = s /\ b.ends \subseteq 0..Len(s)
  /\ Len(s) # 0 => Len(s) \in b.ends

\* Every body that EVBufferToInputMap accepts is cut into blocks that add up
\* to what was sent.
LEMMA HttpBlocks ==
    ASSUME NEW m, NEW r, NEW p, NEW a, a = EVBufferToInputMap(m, r, p), a.status = "ok",
           NEW j \in DOMAIN r.names, NEW s, s = Sent(m, r, p, r.names[j]), Len(s) \in Nat
    PROVE  Cutting(s, a.blocks[j])
<1>1. r.body = "exact"
  BY DEF EVBufferToInputMap
<1>2. PICK b : b = a.blocks[j]
  OBVIOUS
<1>3. /\ b.data = s
      /\ \A n \in b.ends : n \in 1..Len(s)
      /\ \A n \in 1..Len(s) : n = Len(s) => n \in b.ends
  BY <1>1, <1>2 DEF EVBufferToInputMap, ByteSize
<1>4. QED
  BY <1>2, <1>3 DEF Cutting

\* Every request that GRPCInferRequestToInputMap accepts has one block per
\* input.
LEMMA GrpcBlocks ==
    ASSUME NEW m, NEW r, NEW p, NEW a, a = GRPCInferRequestToInputMap(m, r, p), a.status = "ok",
           NEW j \in DOMAIN r.names, NEW s, s = Sent(m, r, p, r.names[j]), Len(s) \in Nat
    PROVE  Cutting(s, a.blocks[j])
<1>1. a.blocks[j] = [data |-> s, ends |-> {Len(s)}]
  BY DEF GRPCInferRequestToInputMap, ByteSize
<1>2. QED
  BY <1>1 DEF Cutting

\* What a provider is made of when a request is admitted.
LEMMA AdmittedFacts ==
    ASSUME NEW m, NEW r, NEW p, NEW a, a = Admitted(m, r, p), a.status = "ok",
           Modelled(m), Asking(r), m.sequence => r.batch = 1
    PROVE  Proper(m, r) /\ Supplied(Provider(r, a.buffers), m, r, p)
<1>1. /\ r.batch \in Nat /\ r.names \in Seq(Inputs \cup {Unknown})
      /\ r.strings \in {"each", "few", "many", "cut"}
  BY DEF Asking
<1>2. NormalizeRequestHeader(m, r) = "ok"
  BY DEF Admitted
<1>3. /\ ~(r.batch < 1) /\ Len(r.names) = Cardinality(m.inputs)
      /\ \A j \in DOMAIN r.names : r.names[j] \in m.inputs
  BY <1>2 DEF NormalizeRequestHeader
<1>4. Proper(m, r)
  <2>1. r.names \in Seq(m.inputs)
    BY <1>1, <1>3
  <2>2. QED
    BY <1>1, <1>3, <2>1 DEF Proper, Asking, Modelled
<1>5. PICK q : q = Provider(r, a.buffers)
  OBVIOUS
<1>6. /\ q = [null |-> r.via = "null", buffers |-> q.buffers, at |-> q.at]
      /\ q.at = [i \in Inputs \cup Controls |-> q.at[i]]
      /\ q.buffers = a.buffers
  BY <1>5 DEF Provider
<1>7. ASSUME r.via # "null"
      PROVE  /\ DOMAIN a.buffers = {r.names[j] : j \in DOMAIN r.names}
             /\ \A i \in DOMAIN a.buffers : Cutting(Sent(m, r, p, i), a.buffers[i])
  <2>1. PICK map : map = IF r.via = "grpc" THEN GRPCInferRequestToInputMap(m, r, p)
                         ELSE EVBufferToInputMap(m, r, p)
    OBVIOUS
  <2>2. map.status = "ok" /\ a = Create(m, r, p, map.blocks)
    BY <1>2, <1>7, <2>1 DEF Admitted
  <2>3. ASSUME NEW j \in DOMAIN r.names
        PROVE  Cutting(Sent(m, r, p, r.names[j]), map.blocks[j])
    <3>1. PICK s : s = Sent(m, r, p, r.names[j])
      OBVIOUS
    <3>2. Len(s) \in Nat
      <4>1. r.batch \in Nat \ {0}
        BY <1>1, <1>3
      <4>2. QED
        BY <1>1, <3>1, <4>1, SentFacts
    <3>3. CASE r.via = "grpc"
      BY <2>1, <2>2, <3>1, <3>2, <3>3, GrpcBlocks
    <3>4. CASE r.via # "grpc"
      BY <2>1, <2>2, <3>1, <3>2, <3>4, HttpBlocks
    <3>5. QED
      BY <3>1, <3>3, <3>4
  <2>4. PICK blocks : blocks = map.blocks
    OBVIOUS
  <2>5. a.buffers = [i \in {r.names[j] : j \in DOMAIN r.names} |->
                       blocks[Min({j \in DOMAIN r.names : r.names[j] = i})]]
    BY <2>2, <2>4, SMTT(30) DEF Create
  <2>6. ASSUME NEW i \in {r.names[j] : j \in DOMAIN r.names}
        PROVE  Cutting(Sent(m, r, p, i), a.buffers[i])
    <3>1. PICK T : T = {j \in DOMAIN r.names : r.names[j] = i}
      OBVIOUS
    <3>2. T \in SUBSET Nat /\ T # {}
      BY <1>1, <2>6, <3>1
    <3>3. Min(T) \in T
      BY <3>2, LeastNumber
    <3>4. PICK n : n = Min(T)
      OBVIOUS
    <3>5. n \in DOMAIN r.names /\ r.names[n] = i /\ a.buffers[i] = blocks[n]
      BY <2>5, <2>6, <3>1, <3>3, <3>4
    <3>6. QED
      BY <2>3, <2>4, <3>5
  <2>7. QED
    BY <2>5, <2>6
<1>8. Supplied(q, m, r, p)
  BY <1>6, <1>7 DEF Supplied, Cutting
<1>9. QED
  BY <1>4, <1>5, <1>8

(***************************************************************************)
(* Where the batch and its requests stay.                                  *)
(***************************************************************************)

\* What is said of the batch and its requests stays when they do.
LEMMA SameBatch ==
    ASSUME model' = model, request' = request, batch' = batch
    PROVE  /\ InBatch' = InBatch /\ Total' = Total /\ Representative' = Representative
           /\ RequiredOutputs' = RequiredOutputs
           /\ \A p : SizeOf(p)' = SizeOf(p) /\ Before(p)' = Before(p) /\ Offset(p)' = Offset(p)
           /\ \A p : Named(p)' = Named(p) /\ Regular(p)' = Regular(p) /\ Asked(p)' = Asked(p)
           /\ \A p : OwnFault(p)' = OwnFault(p)
<1>1. InBatch' = InBatch /\ Representative' = Representative
  BY DEF InBatch, Representative
<1>2. \A p : SizeOf(p)' = SizeOf(p) /\ Named(p)' = Named(p) /\ Asked(p)' = Asked(p)
  BY DEF SizeOf, Named, Asked
<1>3. \A p : Before(p)' = Before(p) /\ Regular(p)' = Regular(p)
  BY <1>1, <1>2 DEF Before, Regular
<1>4. \A S : Behind(S)' = Behind(S)
  BY <1>2 DEF Behind, RowsOf
<1>5. Total' = Total /\ \A p : Offset(p)' = Offset(p)
  BY <1>1, <1>3, <1>4 DEF Total, Offset
<1>6. RequiredOutputs' = RequiredOutputs
  BY <1>1, <1>2 DEF RequiredOutputs
<1>7. \A p : OwnFault(p)' = OwnFault(p)
  BY <1>2, <1>3 DEF OwnFault
<1>8. QED
  BY <1>1, <1>2, <1>3, <1>5, <1>6, <1>7

\* What a payload's own rows are stays with the batch and its requests.
LEMMA SameRows ==
    ASSUME model' = model, request' = request, batch' = batch
    PROVE  /\ \A o, p : OwnRows(o, p)' = OwnRows(o, p)
           /\ \A o, p, k : OwnRow(o, p, k)' = OwnRow(o, p, k)
           /\ \A rows, i, p : OwnTensor(rows, i, p)' = OwnTensor(rows, i, p)
<1>1. \A o, p, k : OwnRow(o, p, k)' = OwnRow(o, p, k)
  BY DEF OwnRow, Computed
<1>2. \A p : SizeOf(p)' = SizeOf(p) /\ Offset(p)' = Offset(p)
  BY SameBatch
<1>3. \A o, p : OwnRows(o, p)' = OwnRows(o, p)
  BY <1>1, <1>2 DEF OwnRows
<1>4. \A rows, i, p : OwnTensor(rows, i, p)' = OwnTensor(rows, i, p)
  BY <1>2 DEF OwnTensor, OwnToken
<1>5. QED
  BY <1>1, <1>3, <1>4

\* What was admitted stays admitted, when what was handed out stays valid.
LEMMA SameAdmission ==
    ASSUME AdmissionInv, model' = model, request' = request, batch' = batch,
           contexts' = contexts,
           \A p \in InBatch : Supplied(provider'[p], model, request[p], p)
    PROVE  AdmissionInv'
<1>1. InBatch' = InBatch
  BY SameBatch
<1>2. contexts' # <<>> => CreateExecutionContext(model')
  BY DEF AdmissionInv
<1>3. \A p \in InBatch' : Proper(model', request'[p]) /\ Supplied(provider'[p], model', request'[p], p)
  BY <1>1 DEF AdmissionInv
<1>4. QED
  BY <1>2, <1>3 DEF AdmissionInv

(***************************************************************************)
(* The first steps.                                                        *)
(***************************************************************************)

\* The invariant holds before the model is loaded.
LEMMA InitialState == Init => IInv
<1>1. SUFFICES ASSUME Init PROVE IInv
  OBVIOUS
<1>2. /\ model \in Models /\ request \in [Payloads -> Kinds] /\ contexts = <<>>
      /\ phase = "loading" /\ batch = <<>> /\ status = [p \in Payloads |-> "new"]
      /\ provider = [p \in Payloads |-> Provider(request[p], <<>>)]
      /\ todo = <<>> /\ tensors = <<>> /\ produced = [outcome |-> "good", rows |-> <<>>]
      /\ result = [p \in Payloads |-> <<>>] /\ verdict = "ok" /\ fault = "none"
  BY <1>1 DEF Init
<1>3. InBatch = {}
  BY <1>2 DEF InBatch
<1>4. TypeInv
  <2>1. tensors \in Seq({tensors[t] : t \in DOMAIN tensors})
    BY <1>2
  <2>2. provider = [p \in Payloads |-> provider[p]] /\ result = [p \in Payloads |-> result[p]]
    BY <1>2
  <2>3. batch \in Seq(Payloads) /\ todo \in Seq(Inputs \cup Controls \cup Outputs \cup {Unknown})
    BY <1>2
  <2>4. status \in [Payloads -> {"new", "ok", "rejected", "invalid", "internal"}]
    BY <1>2
  <2>5. produced = [outcome |-> produced.outcome, rows |-> produced.rows]
    BY <1>2
  <2>6. QED
    BY <1>2, <2>1, <2>2, <2>3, <2>4, <2>5 DEF TypeInv
<1>5. AdmissionInv /\ FreshInv
  BY <1>2, <1>3 DEF AdmissionInv, FreshInv
<1>6. StartedInv /\ OrderInv /\ GatherInv /\ ReadInv /\ ResultInv /\ FinishInv
  BY <1>2 DEF StartedInv, OrderInv, GatherInv, ReadInv, ResultInv, FinishInv
<1>7. OwnResults /\ ErrorsStayLocal
  BY <1>2 DEF OwnResults, ErrorsStayLocal
<1>8. QED
  BY <1>4, <1>5, <1>6, <1>7 DEF IInv

\* Loading keeps the invariant.
LEMMA LoadStep ==
    ASSUME IInv, CreateExecutionContexts
    PROVE  IInv'
<1>1. /\ phase = "loading"
      /\ \/ (Instances(model.groups) = <<>> \/ CreateExecutionContext(model))
              /\ contexts' = Instances(model.groups) /\ phase' = "admitting"
         \/ contexts' = <<>> /\ phase' = "done"
      /\ model' = model /\ request' = request /\ batch' = batch /\ provider' = provider
      /\ status' = status /\ todo' = todo /\ tensors' = tensors /\ produced' = produced
      /\ result' = result /\ verdict' = verdict /\ fault' = fault
  BY DEF CreateExecutionContexts
<1>2. TypeInv /\ AdmissionInv /\ FreshInv
  BY DEF IInv
<1>3. batch = <<>>
  BY <1>1, <1>2 DEF FreshInv
<1>4. InBatch' = {} /\ InBatch = {}
  BY <1>1, <1>3 DEF InBatch
<1>5. TypeInv'
  BY <1>1, <1>2 DEF TypeInv
<1>6. AdmissionInv'
  <2>1. contexts' # <<>> => CreateExecutionContext(model')
    BY <1>1
  <2>2. QED
    BY <1>4, <2>1 DEF AdmissionInv
<1>7. FreshInv'
  BY <1>1, <1>2, <1>4 DEF FreshInv
<1>8. StartedInv' /\ OrderInv' /\ GatherInv' /\ ReadInv' /\ ResultInv' /\ FinishInv'
  BY <1>1 DEF StartedInv, OrderInv, GatherInv, ReadInv, ResultInv, FinishInv
<1>9. OwnResults' /\ ErrorsStayLocal'
  BY <1>4 DEF OwnResults, ErrorsStayLocal
<1>10. QED
  BY <1>5, <1>6, <1>7, <1>8, <1>9 DEF IInv

\* Admitting a payload keeps the invariant: what is taken was normalized, and
\* its blocks are what was sent.
LEMMA AdmitStep ==
    ASSUME IInv, NEW p \in Payloads, Admit(p)
    PROVE  IInv'
<1>1. PICK r : r = request[p]
  OBVIOUS
<1>2. PICK a : a = Admitted(model, r, p)
  OBVIOUS
<1>3. PICK taken \in BOOLEAN : taken <=> (a.status = "ok" /\ (model.sequence => r.batch = 1))
  OBVIOUS
<1>4. /\ phase = "admitting" /\ status[p] = "new"
      /\ status' = [status EXCEPT ![p] = IF taken THEN "ok" ELSE "rejected"]
      /\ provider' = [provider EXCEPT ![p] = Provider(r, a.buffers)]
      /\ batch' = IF taken THEN Append(batch, p) ELSE batch
      /\ phase' \in {"starting", "admitting"}
      /\ model' = model /\ contexts' = contexts /\ request' = request
      /\ todo' = todo /\ tensors' = tensors /\ produced' = produced
      /\ result' = result /\ verdict' = verdict /\ fault' = fault
  BY <1>1, <1>2, <1>3 DEF Admit
<1>5. TypeInv /\ AdmissionInv /\ FreshInv
  BY DEF IInv
<1>6. batch \in Seq(Payloads)
  BY <1>5 DEF TypeInv
<1>7. batch' \in Seq(Payloads)
  BY <1>4, <1>6
<1>8. \A q \in InBatch' : q \in InBatch \/ (taken /\ q = p)
  <2>1. CASE taken
    <3>1. \A n \in DOMAIN batch' : batch'[n] = p \/ (n \in DOMAIN batch /\ batch'[n] = batch[n])
      BY <1>4, <1>6, <2>1
    <3>2. QED
      BY <2>1, <3>1 DEF InBatch
  <2>2. CASE ~taken
    BY <1>4, <2>2 DEF InBatch
  <2>3. QED
    BY <2>1, <2>2
<1>9. p \notin InBatch
  BY <1>4, <1>5 DEF FreshInv
<1>10. TypeInv'
  <2>1. status' \in [Payloads -> {"new", "ok", "rejected", "invalid", "internal"}]
    BY <1>4, <1>5 DEF TypeInv
  <2>2. provider' = [q \in Payloads |-> provider'[q]]
    <3>1. PICK v : v = Provider(r, a.buffers)
      OBVIOUS
    <3>2. provider' = [provider EXCEPT ![p] = v] /\ provider = [q \in Payloads |-> provider[q]]
      BY <1>4, <1>5, <3>1 DEF TypeInv
    <3>3. QED
      BY <3>2
  <2>3. phase' \in {"loading", "admitting", "starting", "gathering", "reading", "finishing", "done"}
    BY <1>4
  <2>4. QED
    BY <1>4, <1>5, <1>7, <2>1, <2>2, <2>3 DEF TypeInv
<1>11. ASSUME NEW q \in InBatch' PROVE Proper(model, request[q]) /\ Supplied(provider'[q], model, request[q], q)
  <2>1. CASE q \in InBatch
    <3>1. q # p /\ provider'[q] = provider[q]
      <4>1. PICK v : v = Provider(r, a.buffers)
        OBVIOUS
      <4>2. provider' = [provider EXCEPT ![p] = v] /\ provider = [x \in Payloads |-> provider[x]]
        BY <1>4, <1>5, <4>1 DEF TypeInv
      <4>3. q # p /\ q \in Payloads
        BY <1>5, <1>9, <2>1, BatchFacts
      <4>4. QED
        BY <4>2, <4>3
    <3>2. QED
      BY <1>5, <2>1, <3>1 DEF AdmissionInv
  <2>2. CASE taken /\ q = p
    <3>1. provider'[p] = Provider(r, a.buffers)
      <4>1. PICK v : v = Provider(r, a.buffers)
        OBVIOUS
      <4>2. provider' = [provider EXCEPT ![p] = v] /\ provider = [x \in Payloads |-> provider[x]]
        BY <1>4, <1>5, <4>1 DEF TypeInv
      <4>3. QED
        BY <4>1, <4>2
    <3>2. Modelled(model) /\ Asking(r)
      BY <1>1, <1>5, ModelFacts, RequestFacts DEF TypeInv
    <3>3. a.status = "ok" /\ (model.sequence => r.batch = 1)
      BY <1>3, <2>2
    <3>4. PICK m : m = model
      OBVIOUS
    <3>5. Proper(m, r) /\ Supplied(Provider(r, a.buffers), m, r, p)
      <4>1. a = Admitted(m, r, p) /\ Modelled(m) /\ Asking(r) /\ (m.sequence => r.batch = 1)
        BY <1>2, <3>2, <3>3, <3>4
      <4>2. QED
        BY <3>3, <4>1, AdmittedFacts
    <3>6. QED
      BY <1>1, <2>2, <3>1, <3>4, <3>5
  <2>3. QED
    BY <1>8, <2>1, <2>2
<1>12. AdmissionInv'
  <2>1. contexts' # <<>> => CreateExecutionContext(model')
    BY <1>4, <1>5 DEF AdmissionInv
  <2>2. QED
    BY <1>4, <1>11, <2>1 DEF AdmissionInv
<1>13. FreshInv'
  <2>1. ASSUME NEW q \in InBatch'
        PROVE  status'[q] = "ok" /\ \A i \in Inputs \cup Controls : provider'[q].at[i] = 0
    <3>1. status \in [Payloads -> {"new", "ok", "rejected", "invalid", "internal"}]
      BY <1>5 DEF TypeInv
    <3>2. PICK v : v = Provider(r, a.buffers)
      OBVIOUS
    <3>3. provider' = [provider EXCEPT ![p] = v] /\ provider = [x \in Payloads |-> provider[x]]
      BY <1>4, <1>5, <3>2 DEF TypeInv
    <3>4. CASE q \in InBatch
      <4>1. q # p /\ q \in Payloads
        BY <1>5, <1>9, <3>4, BatchFacts
      <4>2. status'[q] = status[q] /\ provider'[q] = provider[q]
        BY <1>4, <3>1, <3>3, <4>1
      <4>3. QED
        BY <1>4, <1>5, <3>4, <4>2 DEF FreshInv
    <3>5. CASE taken /\ q = p
      <4>1. status'[q] = "ok" /\ provider'[q] = v
        BY <1>4, <3>1, <3>3, <3>5
      <4>2. \A i \in Inputs \cup Controls : v.at[i] = 0
        BY <3>2 DEF Provider
      <4>3. QED
        BY <4>1, <4>2
    <3>6. QED
      BY <1>8, <3>4, <3>5
  <2>2. tensors' = <<>> /\ verdict' = "ok" /\ \A q \in Payloads : result'[q] = <<>>
    BY <1>4, <1>5 DEF FreshInv
  <2>3. phase' # "loading"
    BY <1>4
  <2>4. QED
    BY <2>1, <2>2, <2>3 DEF FreshInv
<1>14. StartedInv' /\ OrderInv' /\ GatherInv' /\ ReadInv' /\ ResultInv' /\ FinishInv'
  BY <1>4 DEF StartedInv, OrderInv, GatherInv, ReadInv, ResultInv, FinishInv
<1>15. OwnResults' /\ ErrorsStayLocal'
  BY <1>4 DEF OwnResults, ErrorsStayLocal
<1>16. QED
  BY <1>10, <1>12, <1>13, <1>14, <1>15 DEF IInv

\* An input that is set twice is the fault of the header that stands for all.
LEMMA BadOrder ==
    ASSUME TypeInv, AdmissionInv, batch # <<>>, contexts # <<>>, ~Distinct(InputOrder)
    PROVE  /\ BatchFault /\ model.platform # "custom" /\ model.platform # "plan"
           /\ ~Regular(Representative)
<1>1. Modelled(model)
  BY ModelFacts DEF TypeInv
<1>2. model.platform # "custom"
  <2>1. SUFFICES ASSUME model.platform = "custom" PROVE FALSE
    OBVIOUS
  <2>2. InputOrder = <<>>
    BY <1>1, <2>1, RunInputs
  <2>3. Distinct(InputOrder)
    BY <2>2 DEF Distinct
  <2>4. QED
    BY <2>3
<1>3. model.platform # "plan" /\ ~Regular(Representative)
  BY <1>2, OrderFacts
<1>4. BatchFault
  BY <1>2, <1>3 DEF BatchFault
<1>5. QED
  BY <1>2, <1>3, <1>4

\* What fails a batch goes on failing it.
LEMMA FaultStays ==
    ASSUME model' = model, request' = request, batch' = batch,
           produced.outcome # "good" => produced'.outcome # "good"
    PROVE  BatchFault => BatchFault'
<1>1. /\ InBatch' = InBatch /\ Total' = Total /\ Representative' = Representative
      /\ RequiredOutputs' = RequiredOutputs
  BY SameBatch
<1>2. \A p : Regular(p)' = Regular(p)
  BY SameBatch
<1>3. Regular(Representative)' = Regular(Representative)
  BY SameBatch DEF Regular, Named
<1>4. Regular(batch[1])' = Regular(batch[1])
  BY DEF Regular, Named
<1>5. SequenceControls(model)' = SequenceControls(model) /\ IsTf(model)' = IsTf(model)
  BY DEF SequenceControls, IsTf
<1>6. QED
  BY <1>1, <1>2, <1>3, <1>4, <1>5 DEF BatchFault

\* The start of Run keeps the invariant: a batch too large fails as a whole.
LEMMA StartStep ==
    ASSUME IInv, Start
    PROVE  IInv'
<1>1. /\ phase = "starting" /\ contexts # <<>>
      /\ model' = model /\ contexts' = contexts /\ request' = request /\ batch' = batch
      /\ provider' = provider /\ status' = status /\ tensors' = tensors
      /\ produced' = produced /\ result' = result /\ fault' = fault
  BY DEF Start
<1>2. \/ batch = <<>> /\ phase' = "finishing" /\ todo' = todo /\ verdict' = verdict
      \/ /\ batch # <<>> /\ Total # 1 /\ Total > model.max
         /\ phase' = "finishing" /\ verdict' = "internal" /\ todo' = todo
      \/ /\ batch # <<>> /\ ~(Total # 1 /\ Total > model.max)
         /\ phase' = "gathering" /\ todo' = InputOrder /\ verdict' = verdict
  BY DEF Start, InputOrder
<1>3. TypeInv /\ AdmissionInv /\ FreshInv
  BY DEF IInv
<1>4. Modelled(model)
  BY <1>3, ModelFacts DEF TypeInv
<1>5. /\ tensors = <<>> /\ verdict = "ok"
      /\ \A p \in InBatch : status[p] = "ok" /\ \A i \in Inputs \cup Controls : provider[p].at[i] = 0
      /\ \A p \in Payloads : result[p] = <<>>
  BY <1>1, <1>3 DEF FreshInv
<1>6. InBatch' = InBatch /\ Total' = Total /\ InBatch \subseteq Payloads
  BY <1>1, <1>3, SameBatch, BatchFacts
<1>7. AdmissionInv'
  BY <1>1, <1>3, SameAdmission DEF AdmissionInv
<1>8. FreshInv'
  BY <1>1, <1>2, <1>5, <1>6 DEF FreshInv
<1>9. OwnResults' /\ ErrorsStayLocal' /\ ReadInv'
  BY <1>2 DEF OwnResults, ErrorsStayLocal, ReadInv
<1>10. CASE phase' = "finishing"
  <2>1. TypeInv'
    BY <1>1, <1>2, <1>3, <1>10 DEF TypeInv
  <2>2. StartedInv' /\ OrderInv' /\ GatherInv'
    BY <1>1, <1>5, <1>6, <1>10 DEF StartedInv, OrderInv, GatherInv
  <2>3. ResultInv'
    BY <1>1, <1>5, <1>6 DEF ResultInv
  <2>4. verdict' # "ok" => BatchFault'
    BY <1>2, <1>5, <1>6, <1>1 DEF BatchFault
  <2>5. verdict' = "ok" => InBatch' = {}
    BY <1>1, <1>2, <1>10 DEF InBatch
  <2>6. FinishInv'
    BY <1>1, <1>5, <1>6, <2>4, <2>5 DEF FinishInv
  <2>7. QED
    BY <1>7, <1>8, <1>9, <2>1, <2>2, <2>3, <2>6 DEF IInv
<1>11. CASE phase' = "gathering"
  <2>1. batch # <<>> /\ ~(Total # 1 /\ Total > model.max) /\ todo' = InputOrder /\ verdict' = "ok"
    BY <1>2, <1>5, <1>11
  <2>2. InputOrder' = InputOrder
    BY <1>1, <1>4, OrderStays
  <2>3. InputOrder \in Seq(Inputs \cup Controls \cup Outputs \cup {Unknown})
    <3>1. CASE model.platform = "custom"
      BY <1>4, <3>1, RunInputs
    <3>2. CASE model.platform # "custom"
      <4>1. InputOrder \in Seq(model.inputs \cup SequenceControls(model))
        BY <1>1, <1>3, <2>1, <3>2, OrderFacts
      <4>2. model.inputs \cup SequenceControls(model) \subseteq Inputs \cup Controls
        BY <1>4 DEF Modelled, SequenceControls
      <4>3. QED
        BY <4>1, <4>2
    <3>3. QED
      BY <3>1, <3>2
  <2>4. TypeInv'
    BY <1>1, <1>3, <1>11, <2>1, <2>3 DEF TypeInv
  <2>5. Total = 1 \/ Total <= model.max
    <3>1. Total \in Nat
      BY <1>3, BatchFacts, RowsFacts DEF Total
    <3>2. model.max \in Nat
      BY <1>4 DEF Modelled
    <3>3. QED
      BY <2>1, <3>1, <3>2
  <2>6. StartedInv'
    BY <1>1, <1>5, <1>6, <1>11, <2>1, <2>5 DEF StartedInv
  <2>7. OrderInv'
    <3>1. Spent'
      <4>1. tensors' = <<>> /\ DOMAIN tensors' = {}
        BY <1>1, <1>5
      <4>2. Fed' = {}
        BY <4>1 DEF Fed
      <4>3. \A p \in InBatch : \A i \in Inputs \cup Controls : provider'[p].at[i] = 0
        BY <1>1, <1>5
      <4>4. QED
        BY <1>6, <4>1, <4>2, <4>3 DEF Spent
    <3>2. QED
      BY <1>1, <1>5, <2>1, <2>2, <2>3, <3>1 DEF OrderInv
  <2>8. GatherInv'
    BY <1>1, <1>5, <1>6 DEF GatherInv
  <2>9. ResultInv' /\ FinishInv'
    BY <1>11 DEF ResultInv, FinishInv
  <2>10. QED
    BY <1>7, <1>8, <1>9, <2>4, <2>6, <2>7, <2>8, <2>9 DEF IInv
<1>12. QED
  BY <1>2, <1>10, <1>11

(***************************************************************************)
(* Setting an input.                                                       *)
(***************************************************************************)

\* What is known when an input is to be set.
LEMMA HeadFacts ==
    ASSUME IInv, phase = "gathering", todo # <<>>
    PROVE  /\ TypeInv /\ AdmissionInv /\ Modelled(model) /\ Checked(model)
           /\ Head(todo) \in model.inputs \cup SequenceControls(model)
           /\ Gatherable
           /\ Len(tensors) + 1 \in DOMAIN InputOrder /\ Head(todo) = InputOrder[Len(tensors) + 1]
           /\ \A t \in DOMAIN tensors : t \in DOMAIN InputOrder /\ tensors[t].input = InputOrder[t]
<1>1. TypeInv /\ AdmissionInv /\ StartedInv /\ OrderInv
  BY DEF IInv
<1>2. Modelled(model)
  BY <1>1, ModelFacts DEF TypeInv
<1>3. /\ batch # <<>> /\ contexts # <<>> /\ (Total = 1 \/ Total <= model.max)
      /\ \A p \in InBatch : status[p] \in {"ok", "invalid", "internal"}
  BY <1>1 DEF StartedInv
<1>4. Checked(model)
  BY <1>1, <1>2, <1>3, CheckedFacts DEF AdmissionInv
<1>5. PICK order : order = InputOrder
  OBVIOUS
<1>6. /\ Len(tensors) + Len(todo) = Len(order)
      /\ \A k \in 1..Len(todo) : todo[k] = order[Len(tensors) + k]
      /\ \A t \in DOMAIN tensors : t \in DOMAIN order /\ tensors[t].input = order[t]
  BY <1>1, <1>5 DEF OrderInv
<1>7. todo \in Seq(Inputs \cup Controls \cup Outputs \cup {Unknown})
  BY <1>1 DEF TypeInv
<1>8. Len(todo) \in Nat \ {0} /\ Head(todo) = todo[1]
  BY <1>7
<1>9. Len(tensors) \in Nat
  BY <1>1 DEF TypeInv
<1>10. model.platform # "custom"
  <2>1. SUFFICES ASSUME model.platform = "custom" PROVE FALSE
    OBVIOUS
  <2>2. order = <<>>
    BY <1>2, <1>5, <2>1, RunInputs
  <2>3. QED
    BY <1>6, <1>8, <1>9, <2>2
<1>11. order \in Seq(model.inputs \cup SequenceControls(model))
  BY <1>1, <1>3, <1>5, <1>10, OrderFacts
<1>12. Len(tensors) + 1 \in DOMAIN order /\ Head(todo) = order[Len(tensors) + 1]
  BY <1>6, <1>8, <1>9, <1>11
<1>13. Head(todo) \in model.inputs \cup SequenceControls(model)
  BY <1>11, <1>12
<1>14. Gatherable
  <2>1. Ready
    BY <1>1, <1>3, BatchFacts DEF Ready, AdmissionInv
  <2>2. QED
    BY <1>2, <1>3, <1>4, <1>10, <2>1 DEF Gatherable, Modelled, Checked
<1>15. QED
  BY <1>1, <1>2, <1>4, <1>5, <1>6, <1>12, <1>13, <1>14

\* An input whose size no payload tells fails nobody that is not excused.
LEMMA SetInputUnsizedStep ==
    ASSUME IInv, SetInputUnsized
    PROVE  IInv'
<1>1. /\ phase = "gathering" /\ todo # <<>> /\ SizesMissing(Head(todo))
      /\ \/ fault' # "none" /\ phase' = "done" /\ verdict' = verdict
         \/ verdict' = "internal" /\ phase' = "finishing" /\ fault' = fault
      /\ model' = model /\ contexts' = contexts /\ request' = request /\ batch' = batch
      /\ provider' = provider /\ status' = status /\ tensors' = tensors /\ todo' = todo
      /\ produced' = produced /\ result' = result
  BY DEF SetInputUnsized
<1>2. /\ TypeInv /\ AdmissionInv /\ FreshInv /\ StartedInv /\ GatherInv /\ ResultInv
      /\ Modelled(model)
  BY <1>1, HeadFacts DEF IInv
<1>3. InBatch' = InBatch /\ InBatch \subseteq Payloads
  BY <1>1, <1>2, SameBatch, BatchFacts
<1>4. BatchFault
  <2>1. PICK i : i = Head(todo)
    OBVIOUS
  <2>2. i \in model.inputs \cup SequenceControls(model)
    BY <1>1, <2>1, HeadFacts
  <2>3. model.platform = "onnx" /\ IsString(model, i) /\ \E p \in InBatch : i \notin Named(p)
    BY <1>1, <2>1 DEF SizesMissing
  <2>4. i \in model.inputs /\ model.string
    BY <2>2, <2>3, NamesApart DEF IsString, SequenceControls
  <2>5. \E p \in InBatch : ~Regular(p)
    BY <2>3, <2>4 DEF Regular
  <2>6. QED
    BY <2>3, <2>4, <2>5 DEF BatchFault
<1>5. BatchFault'
  BY <1>1, <1>4, FaultStays
<1>6. TypeInv' /\ AdmissionInv'
  <2>1. TypeInv'
    BY <1>1, <1>2 DEF TypeInv
  <2>2. AdmissionInv'
    BY <1>1, <1>2, SameAdmission DEF AdmissionInv
  <2>3. QED
    BY <2>1, <2>2
<1>7. FreshInv' /\ OrderInv' /\ GatherInv' /\ ReadInv'
  BY <1>1 DEF FreshInv, OrderInv, GatherInv, ReadInv
<1>8. StartedInv'
  BY <1>1, <1>2, <1>3 DEF StartedInv
<1>9. ResultInv'
  BY <1>1, <1>2, <1>3 DEF ResultInv, FreshInv
<1>10. FinishInv'
  BY <1>1, <1>5 DEF FinishInv
<1>11. OwnResults' /\ ErrorsStayLocal'
  BY <1>1 DEF OwnResults, ErrorsStayLocal
<1>12. QED
  BY <1>6, <1>7, <1>8, <1>9, <1>10, <1>11 DEF IInv

\* What gathering an input leaves of a payload, read before or not.
LEMMA GatherLeaves ==
    ASSUME Gatherable, NEW i \in model.inputs \cup SequenceControls(model), ~SizesMissing(i),
           NEW g, g = Gather(i), NEW p \in InBatch
    PROVE  ReadLeaves(g.copy[p], i, p)
<1>1. /\ Ready /\ Sized /\ i \in Inputs \cup Controls /\ SizeOf(p) \in Nat
  BY DEF Gatherable, Ready, Sized, SequenceControls
<1>2. CASE ~IsString(model, i)
  <2>1. \E room : g = CopyFixed(i, room)
    BY <1>2 DEF Gatherable, Gather, PlanCopyInput, OnnxSetInputTensor, OnnxSetInputBuffer,
                LibTorchSetFixedSizedInputTensor, NetDefSetFixedSizedInputTensor, TfSetInput,
                TfSetFixedSizedInputTensor, IsTf
  <2>2. PICK room : g = CopyFixed(i, room)
    BY <2>1
  <2>3. g.copy[p] = Copied(i, p, SizeOf(p), room[p])
    BY <2>2 DEF CopyFixed
  <2>4. QED
    BY <1>1, <2>3, CopiedLeaves
<1>3. CASE IsString(model, i)
  <2>1. i \in Inputs /\ model.string
    BY <1>1, <1>3, NamesApart DEF IsString
  <2>2. CASE IsTf(model)
    <3>1. g = TfSetStringInputTensor(i)
      BY <1>3, <2>2 DEF Gather, IsTf, TfSetInput
    <3>2. QED
      BY <1>1, <1>3, <2>1, <3>1, TfStringStatus
  <2>3. CASE ~IsTf(model)
    <3>1. model.platform = "onnx"
      BY <2>1, <2>3 DEF Gatherable, IsTf
    <3>2. g = OnnxSetStringInputBuffer(i)
      <4>1. Gather(i) = OnnxSetInputTensor(i)
        BY <3>1 DEF Gather, IsTf
      <4>2. QED
        BY <1>3, <4>1 DEF OnnxSetInputTensor
    <3>3. \A q \in InBatch : i \in Named(q)
      BY <1>3, <3>1 DEF SizesMissing
    <3>4. OnnxOutcome(g, i, p)
      BY <1>1, <1>3, <2>1, <3>2, <3>3, OnnxStringStatus
    <3>5. QED
      BY <3>4 DEF OnnxOutcome
  <2>4. QED
    BY <2>2, <2>3
<1>4. QED
  BY <1>2, <1>3

\* Where errors stay, so do the excuses.
LEMMA ExcusedStays ==
    ASSUME model' = model, request' = request, batch' = batch,
           ~IsTf(model) => \A q \in InBatch : InError(q) => InError(q)',
           NEW p \in InBatch, Excused(p)
    PROVE  Excused(p)'
<1>1. /\ InBatch' = InBatch /\ Before(p)' = Before(p) /\ Before(p) \subseteq InBatch
      /\ \A q : Regular(q)' = Regular(q)
  BY SameBatch DEF Before
<1>2. Regular(Representative)' = Regular(Representative)
  BY SameBatch DEF Regular, Named
<1>3. SequenceControls(model)' = SequenceControls(model) /\ IsTf(model)' = IsTf(model)
  BY DEF SequenceControls, IsTf
<1>4. CASE model.platform = "plan"
  <2>1. ~IsTf(model)
    BY <1>4 DEF IsTf
  <2>2. \E q \in Before(p) : InError(q)
    BY <1>4 DEF Excused, IsTf
  <2>3. \E q \in Before(p)' : InError(q)'
    BY <1>1, <2>1, <2>2
  <2>4. QED
    BY <1>4, <2>3 DEF Excused, IsTf
<1>5. CASE IsTf(model)
  BY <1>1, <1>3, <1>5 DEF Excused, IsTf
<1>6. CASE model.platform = "onnx"
  <2>1. ~IsTf(model)
    BY <1>6 DEF IsTf
  <2>2. model.string /\ (request[p].strings = "few" \/ \E q \in InBatch : InError(q))
    BY <1>6, <2>1 DEF Excused
  <2>3. model'.string /\ (request'[p].strings = "few" \/ \E q \in InBatch' : InError(q)')
    BY <1>1, <2>1, <2>2
  <2>4. QED
    BY <1>3, <1>6, <2>1, <2>3 DEF Excused
<1>7. CASE model.platform = "netdef"
  BY <1>2, <1>3, <1>7 DEF Excused, IsTf
<1>8. CASE model.platform \notin {"plan", "onnx", "netdef"} /\ ~IsTf(model)
  BY <1>8 DEF Excused
<1>9. QED
  BY <1>4, <1>5, <1>6, <1>7, <1>8

\* Caffe2 copies an input once: what is left of it the next time is not enough.
LEMMA CopiedOnce ==
    ASSUME Gatherable, model.platform = "netdef", NEW p \in InBatch, request[p].via # "null",
           NEW i \in model.inputs \cup SequenceControls(model), provider[p].at[i] \in Nat,
           NEW c, c = Gather(i).copy[p], c.status = "ok"
    PROVE  status[p] = "ok" /\ provider[p].at[i] = 0 /\ c.at[i] \in Nat \ {0}
<1>1. /\ Ready /\ Sized /\ i \in Inputs \cup Controls /\ SizeOf(p) \in Nat \ {0}
      /\ ~IsString(model, i)
  BY DEF Gatherable, Ready, Sized, SequenceControls, IsString
<1>2. PICK q : q = provider[p]
  OBVIOUS
<1>3. PICK r : r = request[p]
  OBVIOUS
<1>4. PICK want \in Nat \ {0} : want = SizeOf(p)
  BY <1>1
<1>5. PICK room : room = Rest[p]
  OBVIOUS
<1>6. c = Copied(i, p, want, room)
  <2>1. Gather(i) = CopyFixed(i, Rest)
    BY DEF Gather, IsTf, NetDefSetFixedSizedInputTensor
  <2>2. PICK rooms : rooms = Rest
    OBVIOUS
  <2>3. CopyFixed(i, rooms).copy[p] = Copied(i, p, SizeOf(p), rooms[p])
    BY DEF CopyFixed
  <2>4. QED
    BY <1>4, <1>5, <2>1, <2>2, <2>3
<1>7. status[p] = "ok"
  BY <1>1, <1>4, <1>6, CopiedLeaves
<1>8. c = Content(q, p, i, want, room)
  BY <1>2, <1>6, <1>7 DEF Copied
<1>9. /\ Supplied(q, model, r, p) /\ Proper(model, r) /\ r.via # "null" /\ r.batch = want
      /\ q.at[i] \in Nat
  BY <1>1, <1>2, <1>3, <1>4 DEF Ready, SizeOf
<1>10. q.at = [j \in Inputs \cup Controls |-> q.at[j]] /\ ~q.null
  <2>1. q.null = (r.via = "null") /\ q.at = [j \in Inputs \cup Controls |-> q.at[j]]
    BY <1>9 DEF Supplied
  <2>2. QED
    BY <1>9, <2>1
<1>11. CASE i \in Controls
  <2>1. c = GetInputOverrideContent(q, p, i, want)
    BY <1>4, <1>8, <1>11 DEF Content
  <2>2. q.at[i] = 0 /\ c.at = [q.at EXCEPT ![i] = 1]
    BY <2>1 DEF GetInputOverrideContent
  <2>3. c.at[i] = 1
    BY <1>1, <1>10, <2>2
  <2>4. QED
    BY <1>2, <1>7, <2>2, <2>3
<1>12. CASE i \notin Controls
  <2>1. i \in DOMAIN q.buffers
    <3>1. SUFFICES ASSUME i \notin DOMAIN q.buffers PROVE FALSE
      OBVIOUS
    <3>2. c = [Nothing(q) EXCEPT !.status = "internal"]
      BY <1>4, <1>8, <1>10, <1>12, <3>1 DEF Content
    <3>3. QED
      BY <3>2 DEF Nothing
  <2>2. c = CopyBlocks(q, i, want, room)
    BY <1>4, <1>8, <1>10, <1>12, <2>1 DEF Content
  <2>3. PICK s : s = Sent(model, r, p, i)
    OBVIOUS
  <2>4. Len(s) = want
    <3>1. r.batch \in Nat \ {0} /\ r.strings \in {"each", "few", "many", "cut"}
      BY <1>9 DEF Proper
    <3>2. SentWhole(model, r, i)
      BY <1>1 DEF SentWhole
    <3>3. QED
      BY <1>9, <2>3, <3>1, <3>2, SentFacts
  <2>5. q.buffers[i].data = s /\ q.buffers[i].ends \subseteq 0..want
    BY <1>9, <2>1, <2>3, <2>4 DEF Supplied
  <2>6. PICK from \in Nat : from = q.at[i]
    BY <1>9
  <2>7. PICK stops : stops = {e \in {e \in q.buffers[i].ends : e > from} : e - from = want \/ e - from > room}
    OBVIOUS
  <2>9. PICK upto : upto = IF stops = {} THEN Len(q.buffers[i].data) ELSE Min(stops)
    OBVIOUS
  <2>10. upto \in 0..want
    <3>1. CASE stops = {}
      BY <1>4, <2>4, <2>5, <2>9, <3>1
    <3>2. CASE stops # {}
      <4>1. stops \in SUBSET (0..want) /\ stops \in SUBSET Nat
        BY <2>5, <2>7
      <4>2. Min(stops) \in stops
        BY <3>2, <4>1, LeastNumber
      <4>3. QED
        BY <2>9, <3>2, <4>1, <4>2
    <3>3. QED
      BY <3>1, <3>2
  <2>11. /\ c.at = [q.at EXCEPT ![i] = upto]
         /\ c.status = IF upto - from > room THEN "invalid"
                       ELSE IF upto - from # want THEN "internal" ELSE "ok"
    <3>1. /\ CopyBlocks(q, i, want, room).at = [q.at EXCEPT ![i] = upto]
          /\ CopyBlocks(q, i, want, room).status =
               IF upto - from > room THEN "invalid"
               ELSE IF upto - from # want THEN "internal" ELSE "ok"
      BY <2>6, <2>7, <2>9 DEF CopyBlocks
    <3>2. QED
      BY <2>2, <3>1
  <2>12. upto - from = want
    BY <2>11
  <2>13. from = 0 /\ upto = want
    BY <2>10, <2>12
  <2>14. c.at[i] = upto
    BY <1>1, <1>10, <2>11
  <2>15. QED
    BY <1>2, <1>4, <1>7, <2>6, <2>13, <2>14
<1>13. QED
  BY <1>11, <1>12

\* Setting an input keeps the invariant: a payload without an error has its
\* rows of the input at its place.
LEMMA SetInputStep ==
    ASSUME IInv, SetInput
    PROVE  IInv'
<1>1. PICK i : i = Head(todo)
  OBVIOUS
<1>2. PICK g : g = Gather(i)
  OBVIOUS
<1>3. PICK x : x = [input |-> i, rows |-> g.rows]
  OBVIOUS
<1>4. /\ phase = "gathering" /\ todo # <<>> /\ ~SizesMissing(i)
      /\ tensors' = Append(tensors, x)
      /\ provider' = [p \in Payloads |-> IF p \in InBatch
                        THEN [provider[p] EXCEPT !.at = g.copy[p].at] ELSE provider[p]]
      /\ status' = [p \in Payloads |-> IF p \in InBatch THEN g.copy[p].status ELSE status[p]]
      /\ todo' = Tail(todo)
      /\ model' = model /\ contexts' = contexts /\ phase' = phase /\ request' = request
      /\ batch' = batch /\ produced' = produced /\ result' = result /\ verdict' = verdict
      /\ fault' = fault
  BY <1>1, <1>2, <1>3 DEF SetInput, Gathered
<1>5. /\ TypeInv /\ AdmissionInv /\ FreshInv /\ StartedInv /\ OrderInv /\ GatherInv
      /\ Modelled(model) /\ Gatherable /\ Ready
      /\ i \in model.inputs \cup SequenceControls(model)
      /\ Len(tensors) + 1 \in DOMAIN InputOrder /\ i = InputOrder[Len(tensors) + 1]
      /\ \A t \in DOMAIN tensors : t \in DOMAIN InputOrder /\ tensors[t].input = InputOrder[t]
  BY <1>1, <1>4, HeadFacts DEF IInv, Gatherable
<1>6. /\ InBatch' = InBatch /\ InBatch \subseteq Payloads
      /\ \A p \in InBatch : ReadLeaves(g.copy[p], i, p)
  BY <1>1, <1>2, <1>4, <1>5, SameBatch, BatchFacts, GatherLeaves
<1>7. \A p \in InBatch : /\ status'[p] = g.copy[p].status
                         /\ provider'[p] = [provider[p] EXCEPT !.at = g.copy[p].at]
  BY <1>4, <1>6
<1>8. PICK n \in Nat : n = Len(tensors)
  <2>1. tensors \in Seq({tensors[t] : t \in DOMAIN tensors})
    BY <1>5 DEF TypeInv
  <2>2. QED
    BY <2>1
<1>9. /\ tensors' \in Seq({tensors'[t] : t \in DOMAIN tensors'})
      /\ Len(tensors') = n + 1 /\ tensors'[n + 1] = x
      /\ DOMAIN tensors' = 1..(n + 1) /\ DOMAIN tensors = 1..n
      /\ \A t \in 1..n : tensors'[t] = tensors[t]
  <2>1. PICK S : S = {tensors[t] : t \in DOMAIN tensors} \cup {x}
    OBVIOUS
  <2>2. tensors \in Seq({tensors[t] : t \in DOMAIN tensors})
    BY <1>5 DEF TypeInv
  <2>3. tensors \in Seq(S) /\ x \in S
    BY <2>1, <2>2
  <2>4. PICK a : a = Append(tensors, x)
    OBVIOUS
  <2>5. a \in Seq(S) /\ Len(a) = n + 1 /\ a[n + 1] = x /\ \A t \in 1..n : a[t] = tensors[t]
    BY <1>8, <2>3, <2>4
  <2>6. DOMAIN a = 1..(n + 1) /\ DOMAIN tensors = 1..n
    BY <1>8, <2>3, <2>5
  <2>7. a \in Seq({a[t] : t \in DOMAIN a})
    BY <2>5
  <2>8. tensors' = a
    BY <1>4, <2>4
  <2>9. QED
    BY <2>5, <2>6, <2>7, <2>8
<1>10. todo \in Seq(Inputs \cup Controls \cup Outputs \cup {Unknown})
  BY <1>5 DEF TypeInv
<1>11. PICK l \in Nat : Len(todo) = l + 1
  <2>1. Len(todo) \in Nat \ {0}
    BY <1>4, <1>10
  <2>2. Len(todo) - 1 \in Nat /\ Len(todo) = (Len(todo) - 1) + 1
    BY <2>1
  <2>3. QED
    BY <2>2
<1>12. /\ todo' \in Seq(Inputs \cup Controls \cup Outputs \cup {Unknown})
       /\ Len(todo') = l /\ \A k \in 1..l : todo'[k] = todo[k + 1]
  BY <1>4, <1>10, <1>11
<1>13. TypeInv'
  <2>1. status' \in [Payloads -> {"new", "ok", "rejected", "invalid", "internal"}]
    <3>1. \A p \in InBatch : g.copy[p].status \in {"ok", "invalid", "internal"}
      BY <1>6 DEF ReadLeaves
    <3>2. status \in [Payloads -> {"new", "ok", "rejected", "invalid", "internal"}]
      BY <1>5 DEF TypeInv
    <3>3. QED
      BY <1>4, <3>1, <3>2
  <2>2. provider' = [p \in Payloads |-> provider'[p]]
    BY <1>4
  <2>3. QED
    BY <1>4, <1>5, <1>9, <1>12, <2>1, <2>2 DEF TypeInv
<1>14. ASSUME NEW p \in InBatch
       PROVE  /\ Supplied(provider'[p], model, request[p], p)
              /\ \A j \in Inputs \cup Controls : j # i => provider'[p].at[j] = provider[p].at[j]
  <2>1. PICK q : q = provider[p]
    OBVIOUS
  <2>2. PICK r : r = request[p]
    OBVIOUS
  <2>3. PICK at : at = g.copy[p].at
    OBVIOUS
  <2>4. PICK qq : qq = provider'[p]
    OBVIOUS
  <2>5. Supplied(q, model, r, p) /\ qq = [q EXCEPT !.at = at]
    BY <1>5, <1>7, <2>1, <2>2, <2>3, <2>4 DEF AdmissionInv
  <2>6. /\ at = [j \in Inputs \cup Controls |-> at[j]]
        /\ \A j \in Inputs \cup Controls : j # i => at[j] = q.at[j]
    BY <1>6, <2>1, <2>3 DEF ReadLeaves
  <2>7. q = [null |-> r.via = "null", buffers |-> q.buffers, at |-> q.at]
    BY <2>5 DEF Supplied
  <2>8. qq = [null |-> r.via = "null", buffers |-> q.buffers, at |-> at]
    BY <2>5, <2>7
  <2>9. qq.at = at /\ qq.buffers = q.buffers /\ qq = [null |-> r.via = "null", buffers |-> qq.buffers, at |-> qq.at]
    BY <2>8
  <2>10. Supplied(qq, model, r, p)
    BY <2>5, <2>6, <2>9 DEF Supplied
  <2>11. QED
    BY <2>1, <2>2, <2>4, <2>6, <2>9, <2>10
<1>15. AdmissionInv'
  BY <1>4, <1>5, <1>14, SameAdmission
<1>16. FreshInv'
  BY <1>4, <1>5 DEF FreshInv, Gatherable
<1>17. StartedInv'
  <2>1. Total' = Total
    BY <1>4, SameBatch
  <2>2. \A p \in InBatch : status'[p] \in {"ok", "invalid", "internal"}
    BY <1>6, <1>7 DEF ReadLeaves
  <2>3. QED
    BY <1>4, <1>5, <1>6, <2>1, <2>2 DEF StartedInv
<1>18. InputOrder' = InputOrder
  BY <1>4, <1>5, OrderStays
<1>19. PICK order : order = InputOrder
  OBVIOUS
<1>20. OrderInv'
  <2>1. /\ n + Len(todo) = Len(order)
        /\ \A k \in 1..Len(todo) : todo[k] = order[n + k]
    BY <1>4, <1>5, <1>8, <1>19 DEF OrderInv
  <2>2. Len(tensors') + Len(todo') = Len(order)
    BY <1>9, <1>11, <1>12, <2>1
  <2>3. ASSUME NEW k \in 1..Len(todo') PROVE todo'[k] = order[Len(tensors') + k]
    <3>1. k \in 1..l /\ k + 1 \in 1..Len(todo)
      BY <1>11, <1>12
    <3>2. todo'[k] = todo[k + 1]
      BY <1>12, <3>1
    <3>3. todo[k + 1] = order[n + (k + 1)]
      BY <2>1, <3>1
    <3>4. n + (k + 1) = Len(tensors') + k
      BY <1>9, <3>1
    <3>5. QED
      BY <3>2, <3>3, <3>4
  <2>4. ASSUME NEW t \in DOMAIN tensors' PROVE t \in DOMAIN order /\ tensors'[t].input = order[t]
    <3>1. CASE t = n + 1
      BY <1>3, <1>5, <1>8, <1>9, <1>19, <3>1
    <3>2. CASE t \in 1..n
      <4>1. t \in DOMAIN tensors /\ tensors'[t] = tensors[t]
        BY <1>9, <3>2
      <4>2. QED
        BY <1>5, <1>19, <4>1
    <3>3. QED
      BY <1>9, <3>1, <3>2
  <2>5. Spent'
    <3>1. SUFFICES ASSUME model.platform = "netdef", NEW p \in InBatch, status'[p] = "ok",
                          request[p].via # "null"
                   PROVE  /\ \A j \in Inputs \cup Controls :
                               provider'[p].at[j] \in Nat /\ (j \in Fed' => provider'[p].at[j] # 0)
                          /\ \A a, b \in DOMAIN tensors' :
                               tensors'[a].input = tensors'[b].input => a = b
      BY <1>4, <1>6 DEF Spent
    <3>2. PICK c : c = g.copy[p]
      OBVIOUS
    <3>3. c.status = "ok" /\ c = Gather(i).copy[p]
      BY <1>2, <1>7, <3>1, <3>2
    <3>4. i \in Inputs \cup Controls
      BY <1>5 DEF Gatherable, SequenceControls
    <3>5. Spent
      BY <1>4, <1>5 DEF OrderInv
    <3>6. status[p] = "ok"
      <4>1. g.copy[p].status = "ok" /\ g = CopyFixed(i, Rest) /\ SizeOf(p) \in Nat
        <5>1. ~IsString(model, i)
          BY <1>5, <3>1 DEF Gatherable, IsString
        <5>2. g = CopyFixed(i, Rest)
          BY <1>2, <3>1, <5>1 DEF Gather, IsTf, NetDefSetFixedSizedInputTensor
        <5>3. SizeOf(p) \in Nat
          BY <1>5 DEF Ready, Sized
        <5>4. QED
          BY <3>2, <3>3, <5>2, <5>3
      <4>2. PICK rooms : rooms = Rest
        OBVIOUS
      <4>3. g.copy[p] = Copied(i, p, SizeOf(p), rooms[p])
        BY <4>1, <4>2 DEF CopyFixed
      <4>4. QED
        BY <1>5, <3>4, <4>1, <4>3, CopiedLeaves
    <3>7. /\ \A j \in Inputs \cup Controls :
               provider[p].at[j] \in Nat /\ (j \in Fed => provider[p].at[j] # 0)
          /\ \A a, b \in DOMAIN tensors : tensors[a].input = tensors[b].input => a = b
      BY <3>1, <3>5, <3>6 DEF Spent
    <3>8. provider[p].at[i] = 0 /\ c.at[i] \in Nat \ {0}
      BY <1>5, <3>1, <3>3, <3>4, <3>7, CopiedOnce
    <3>9. i \notin Fed
      BY <3>4, <3>7, <3>8
    <3>10. provider'[p].at = c.at
      <4>1. PICK q : q = provider[p]
        OBVIOUS
      <4>2. q = [null |-> request[p].via = "null", buffers |-> q.buffers, at |-> q.at]
        BY <1>5, <4>1 DEF AdmissionInv, Supplied
      <4>3. provider'[p] = [q EXCEPT !.at = c.at]
        BY <1>7, <3>2, <4>1
      <4>4. QED
        BY <4>2, <4>3
    <3>11. ASSUME NEW j \in Inputs \cup Controls
           PROVE  provider'[p].at[j] \in Nat /\ (j \in Fed' => provider'[p].at[j] # 0)
      <4>1. CASE j = i
        BY <3>8, <3>10, <4>1
      <4>2. CASE j # i
        <5>1. provider'[p].at[j] = provider[p].at[j]
          BY <1>14, <4>2
        <5>2. ASSUME j \in Fed' PROVE j \in Fed
          <6>1. PICK t \in DOMAIN tensors' : tensors'[t].input = j
            BY <5>2 DEF Fed
          <6>2. t # n + 1
            BY <1>3, <1>9, <4>2, <6>1
          <6>3. t \in DOMAIN tensors /\ tensors'[t] = tensors[t]
            BY <1>9, <6>2
          <6>4. QED
            BY <6>1, <6>3 DEF Fed
        <5>3. QED
          BY <3>7, <5>1, <5>2
      <4>3. QED
        BY <4>1, <4>2
    <3>12. ASSUME NEW a \in DOMAIN tensors', NEW b \in DOMAIN tensors',
                  tensors'[a].input = tensors'[b].input
           PROVE  a = b
      <4>1. \A t \in 1..n : tensors'[t].input # i
        BY <1>9, <3>9 DEF Fed
      <4>2. tensors'[n + 1].input = i
        BY <1>3, <1>9
      <4>3. CASE a \in 1..n /\ b \in 1..n
        BY <1>9, <3>7, <3>12, <4>3
      <4>4. QED
        BY <1>9, <3>12, <4>1, <4>2, <4>3
    <3>13. QED
      BY <3>11, <3>12
  <2>6. QED
    BY <1>18, <1>19, <2>2, <2>3, <2>4, <2>5 DEF OrderInv
<1>21. GatherInv'
  <2>1. SUFFICES ASSUME Distinct(InputOrder) PROVE
          \A p \in InBatch :
            /\ status'[p] # "ok" => ~Regular(p) \/ (model.string /\ request[p].strings # "each")
            /\ \A j \in Inputs \cup Controls : j \notin Fed' => provider'[p].at[j] = 0
            /\ status'[p] = "ok" /\ ~Excused(p)' /\ request[p].via # "null" =>
                 \A t \in DOMAIN tensors' : OwnTensor(tensors'[t].rows, tensors'[t].input, p)
    <3>1. /\ \A p : Regular(p)' = Regular(p)
          /\ \A rows, j, p : OwnTensor(rows, j, p)' = OwnTensor(rows, j, p)
      BY <1>4, SameBatch, SameRows
    <3>2. Distinct(InputOrder)' = Distinct(InputOrder)
      BY <1>18 DEF Distinct
    <3>3. QED
      BY <1>4, <1>6, <2>1, <3>1, <3>2 DEF GatherInv
  <2>2. \A p \in InBatch :
          /\ status[p] # "ok" => ~Regular(p) \/ (model.string /\ request[p].strings # "each")
          /\ \A j \in Inputs \cup Controls : j \notin Fed => provider[p].at[j] = 0
          /\ status[p] = "ok" /\ ~Excused(p) /\ request[p].via # "null" =>
               \A t \in DOMAIN tensors : OwnTensor(tensors[t].rows, tensors[t].input, p)
    BY <1>4, <1>5, <2>1 DEF GatherInv
  <2>3. i \notin Fed
    <3>1. ASSUME NEW t \in DOMAIN tensors PROVE tensors[t].input # i
      <4>1. t \in DOMAIN InputOrder /\ tensors[t].input = InputOrder[t] /\ t # n + 1
        BY <1>5, <1>9
      <4>2. QED
        BY <1>5, <1>8, <2>1, <4>1 DEF Distinct
    <3>2. QED
      BY <3>1 DEF Fed
  <2>4. i \in Inputs \cup Controls
    BY <1>5 DEF Gatherable, SequenceControls
  <2>5. \A p \in InBatch : provider[p].at[i] = 0
    BY <2>2, <2>3, <2>4
  <2>6. \A p \in InBatch : GatherOutcome(g, i, p) /\ GatherRows(g, i, p)
    BY <1>2, <1>4, <1>5, <2>5, GatherFacts
  <2>7. \A p \in InBatch :
          status'[p] # "ok" => ~Regular(p) \/ (model.string /\ request[p].strings # "each")
    BY <1>7, <2>2, <2>6 DEF GatherOutcome
  <2>8. ASSUME NEW p \in InBatch, NEW j \in Inputs \cup Controls, j \notin Fed'
        PROVE  provider'[p].at[j] = 0
    <3>1. ASSUME NEW t \in DOMAIN tensors PROVE tensors[t].input # j
      <4>1. t \in DOMAIN tensors' /\ tensors'[t] = tensors[t]
        BY <1>9
      <4>2. QED
        BY <2>8, <4>1 DEF Fed
    <3>2. j \notin Fed
      BY <3>1 DEF Fed
    <3>3. j # i
      <4>1. n + 1 \in DOMAIN tensors' /\ tensors'[n + 1].input = i
        BY <1>3, <1>9
      <4>2. QED
        BY <2>8, <4>1 DEF Fed
    <3>4. QED
      BY <1>14, <2>2, <3>2, <3>3
  <2>9. ASSUME NEW p \in InBatch, status'[p] = "ok", ~Excused(p)', request[p].via # "null",
               NEW t \in DOMAIN tensors'
        PROVE  OwnTensor(tensors'[t].rows, tensors'[t].input, p)
    <3>1. ~IsTf(model) => \A q \in InBatch : InError(q) => InError(q)'
      <4>1. SUFFICES ASSUME ~IsTf(model), NEW q \in InBatch, InError(q) PROVE InError(q)'
        OBVIOUS
      <4>2. g.copy[q].status # "ok"
        BY <2>6, <4>1 DEF GatherOutcome, InError
      <4>3. status'[q] \in {"invalid", "internal"}
        BY <1>6, <1>7, <4>2 DEF ReadLeaves
      <4>4. QED
        BY <4>3 DEF InError
    <3>2. ~Excused(p)
      BY <1>4, <2>9, <3>1, ExcusedStays
    <3>3. status[p] = "ok"
      <4>1. g.copy[p].status = "ok"
        BY <1>7, <2>9
      <4>2. status[p] = "ok" \/ (IsTf(model) /\ model.string /\ request[p].strings = "each")
        BY <2>6, <2>9, <4>1 DEF GatherOutcome
      <4>3. IsTf(model) /\ model.string => Regular(p)
        BY <3>2 DEF Excused, IsTf
      <4>4. QED
        BY <2>2, <4>2, <4>3
    <3>4. CASE t \in 1..n
      <4>1. t \in DOMAIN tensors /\ tensors'[t] = tensors[t]
        BY <1>9, <3>4
      <4>2. OwnTensor(tensors[t].rows, tensors[t].input, p)
        BY <2>2, <2>9, <3>2, <3>3, <4>1
      <4>3. QED
        BY <4>1, <4>2
    <3>5. CASE t = n + 1
      <4>1. tensors'[t].rows = g.rows /\ tensors'[t].input = i
        BY <1>3, <1>9, <3>5
      <4>2. IsTf(model) /\ model.string => \A q \in Before(p) : Regular(q)
        BY <3>2 DEF Excused, IsTf
      <4>3. ASSUME model.platform = "onnx", model.string
            PROVE  request[p].strings # "few" /\ \A q \in InBatch : g.copy[q].status = "ok"
        <5>1. ~(model'.string /\ (request'[p].strings = "few" \/ \E q \in InBatch' : InError(q)'))
          BY <1>4, <2>9, <4>3 DEF Excused, IsTf
        <5>2. \A q \in InBatch : ~InError(q)'
          BY <1>4, <1>6, <4>3, <5>1
        <5>3. \A q \in InBatch : status'[q] \notin {"invalid", "internal"}
          BY <5>2 DEF InError
        <5>4. ASSUME NEW q \in InBatch PROVE g.copy[q].status = "ok"
          <6>1. status'[q] = g.copy[q].status
            BY <1>7
          <6>2. g.copy[q].status \in {"ok", "invalid", "internal"}
            BY <1>6 DEF ReadLeaves
          <6>3. QED
            BY <5>3, <6>1, <6>2
        <5>5. QED
          BY <1>4, <4>3, <5>1, <5>4
      <4>4. g.copy[p].status = "ok"
        BY <1>7, <2>9
      <4>5. OwnTensor(g.rows, i, p)
        BY <2>6, <2>9, <4>2, <4>3, <4>4 DEF GatherRows
      <4>6. QED
        BY <4>1, <4>5
    <3>6. QED
      BY <1>9, <3>4, <3>5
  <2>10. QED
    BY <2>7, <2>8, <2>9
<1>22. ReadInv' /\ ResultInv' /\ FinishInv' /\ OwnResults' /\ ErrorsStayLocal'
  BY <1>4 DEF ReadInv, ResultInv, FinishInv, OwnResults, ErrorsStayLocal
<1>23. QED
  BY <1>13, <1>15, <1>16, <1>17, <1>20, <1>21, <1>22 DEF IInv

(***************************************************************************)
(* Running the framework.                                                  *)
(***************************************************************************)

\* What fails a batch but the framework itself.
HeaderFault ==
  \/ Total > model.max /\ Total # 1
  \/ model.platform \notin {"plan", "custom"} /\ ~Regular(Representative)
  \/ model.platform = "custom" /\ ~Regular(batch[1])
  \/ model.platform = "onnx" /\ model.string /\ \E p \in InBatch : ~Regular(p)
  \/ IsTf(model) /\ Unknown \in RequiredOutputs
  \/ model.platform = "graphdef" /\ model.given # model.inputs \cup SequenceControls(model)

\* A header that names an input twice goes on failing the batch.
LEMMA HeaderFaultStays ==
    ASSUME model' = model, request' = request, batch' = batch, HeaderFault
    PROVE  BatchFault'
<1>1. /\ InBatch' = InBatch /\ Total' = Total /\ Representative' = Representative
      /\ RequiredOutputs' = RequiredOutputs /\ \A p : Regular(p)' = Regular(p)
  BY SameBatch
<1>2. Regular(Representative)' = Regular(Representative)
  BY SameBatch DEF Regular, Named
<1>3. Regular(batch[1])' = Regular(batch[1])
  BY DEF Regular, Named
<1>4. SequenceControls(model)' = SequenceControls(model) /\ IsTf(model)' = IsTf(model)
  BY DEF SequenceControls, IsTf
<1>5. QED
  BY <1>1, <1>2, <1>3, <1>4 DEF BatchFault, HeaderFault

\* What is known when all inputs are set.
AllSet ==
  /\ TypeInv /\ AdmissionInv /\ StartedInv /\ GatherInv
  /\ Modelled(model) /\ Checked(model) /\ Sized
  /\ Representative \in InBatch /\ Proper(model, request[Representative])
  /\ InputOrder \in Seq(model.inputs \cup SequenceControls(model))
  /\ DOMAIN tensors = DOMAIN InputOrder /\ DOMAIN tensors = 1..Len(tensors) /\ Len(tensors) \in Nat
  /\ \A t \in DOMAIN tensors : tensors[t].input = InputOrder[t]
  /\ Fed = {InputOrder[t] : t \in DOMAIN InputOrder}
  /\ FedOnce <=> Distinct(InputOrder)
  /\ Spent
  /\ model.platform = "plan" => Fed = model.given
  /\ model.platform # "plan" => Fed = Named(Representative) \cup SequenceControls(model)
  /\ (model.platform = "plan" \/ Regular(Representative)) => Distinct(InputOrder)

\* When nothing is left to set, every input of the model was set once, in order.
LEMMA AllSetFacts ==
    ASSUME IInv, phase = "gathering", todo = <<>>, model.platform # "custom"
    PROVE  AllSet
<1>1. TypeInv /\ AdmissionInv /\ StartedInv /\ OrderInv /\ GatherInv
  BY DEF IInv
<1>2. /\ batch # <<>> /\ contexts # <<>>
  BY <1>1 DEF StartedInv
<1>3. Modelled(model)
  BY <1>1, ModelFacts DEF TypeInv
<1>4. Checked(model)
  BY <1>1, <1>2, <1>3, CheckedFacts DEF AdmissionInv
<1>5. PICK order : order = InputOrder
  OBVIOUS
<1>6. /\ order \in Seq(model.inputs \cup SequenceControls(model))
      /\ model.platform = "plan" => {order[t] : t \in DOMAIN order} = model.given
      /\ model.platform # "plan" =>
           {order[t] : t \in DOMAIN order} = Named(Representative) \cup SequenceControls(model)
      /\ (model.platform = "plan" \/ Regular(Representative)) => Distinct(order)
  BY <1>1, <1>2, <1>5, OrderFacts
<1>7. tensors \in Seq({tensors[t] : t \in DOMAIN tensors})
  BY <1>1 DEF TypeInv
<1>8. PICK n \in Nat : n = Len(tensors)
  BY <1>7
<1>9. DOMAIN tensors = 1..n
  BY <1>7, <1>8
<1>10. Len(order) = n /\ \A t \in DOMAIN tensors : tensors[t].input = order[t]
  <2>1. n + Len(todo) = Len(order) /\ \A t \in DOMAIN tensors : tensors[t].input = order[t]
    BY <1>1, <1>5, <1>8 DEF OrderInv
  <2>2. QED
    BY <2>1
<1>11. DOMAIN order = 1..n
  BY <1>6, <1>10
<1>12. Fed = {order[t] : t \in DOMAIN order}
  BY <1>9, <1>10, <1>11 DEF Fed
<1>13. FedOnce <=> Distinct(order)
  <2>1. PICK F : F = Fed
    OBVIOUS
  <2>2. order \in [1..n -> F]
    BY <1>6, <1>11, <1>12, <2>1
  <2>3. order \in Surjection(1..n, F)
    BY <1>11, <1>12, <2>1, <2>2 DEF Surjection
  <2>4. IsFiniteSet(1..n) /\ Cardinality(1..n) = n
    BY UpTo
  <2>5. Cardinality(F) = Cardinality(1..n) <=> order \in Injection(1..n, F)
    BY <2>3, <2>4, FS_Surjection
  <2>6. order \in Injection(1..n, F) <=> Distinct(order)
    BY <1>11, <2>2 DEF Injection, IsInjective, Distinct
  <2>7. FedOnce <=> Cardinality(F) = n
    BY <1>8, <2>1 DEF FedOnce
  <2>8. QED
    BY <2>4, <2>5, <2>6, <2>7
<1>17. Spent
  BY <1>1 DEF OrderInv
<1>14. Sized /\ Representative \in InBatch
  BY <1>1, <1>2, BatchFacts
<1>15. Proper(model, request[Representative])
  BY <1>1, <1>14 DEF AdmissionInv
<1>16. QED
  BY <1>1, <1>3, <1>4, <1>5, <1>6, <1>8, <1>9, <1>10, <1>11, <1>12, <1>13, <1>14, <1>15, <1>17 DEF AllSet

\* The framework refuses what the header says, not what a payload is.
LEMMA NotAccepted ==
    ASSUME AllSet, model.platform # "custom", ~ContextRun.accepts
    PROVE  HeaderFault
<1>1. Modelled(model) /\ Checked(model) /\ InBatch \subseteq Payloads /\ TypeInv
  BY DEF AllSet, Sized
<1>2. CASE ~Regular(Representative) /\ model.platform # "plan"
  BY <1>2 DEF HeaderFault
<1>3. CASE Regular(Representative) /\ model.platform # "plan"
  <2>1. Fed = model.inputs \cup SequenceControls(model) /\ FedOnce
    BY <1>3 DEF AllSet, Regular
  <2>2. CASE model.platform = "onnx"
    BY <1>1, <2>1, <2>2, RunAccepts DEF Checked
  <2>3. CASE IsTf(model)
    <3>1. Fed # model.given \/ ~(RequiredOutputs \subseteq Outputs)
      BY <1>1, <2>1, <2>3, RunAccepts
    <3>2. CASE Fed # model.given
      <4>1. model.platform = "graphdef"
        BY <1>1, <2>1, <2>3, <3>2 DEF IsTf, Checked
      <4>2. QED
        BY <2>1, <3>2, <4>1 DEF HeaderFault
    <3>3. CASE ~(RequiredOutputs \subseteq Outputs)
      <4>1. PICK p \in InBatch : ~(Asked(p) \subseteq Outputs)
        BY <3>3 DEF RequiredOutputs
      <4>2. Asked(p) \subseteq Outputs \cup {Unknown}
        BY <1>1, RequestFacts
      <4>3. Unknown \in Asked(p)
        BY <4>1, <4>2
      <4>4. Unknown \in RequiredOutputs
        BY <4>3 DEF RequiredOutputs
      <4>5. QED
        BY <2>3, <4>4 DEF HeaderFault
    <3>4. QED
      BY <3>1, <3>2, <3>3
  <2>4. CASE model.platform \in {"libtorch", "netdef"}
    BY <1>1, <2>4, RunAccepts
  <2>5. QED
    BY <1>1, <1>3, <2>2, <2>3, <2>4 DEF Modelled, IsTf
<1>4. CASE model.platform = "plan"
  BY <1>1, <1>4, RunAccepts
<1>5. QED
  BY <1>2, <1>3, <1>4

\* What a TorchScript model is called with when forward does not throw.
LEMMA TorchInput ==
    ASSUME AllSet, model.platform = "libtorch", ~ContextRun.throws
    PROVE  /\ Distinct(InputOrder) /\ Len(tensors) \in DOMAIN tensors
           /\ \A i \in model.given : i = tensors[Len(tensors)].input
<1>1. /\ Modelled(model) /\ Proper(model, request[Representative])
      /\ Fed = Named(Representative) \cup SequenceControls(model)
  BY DEF AllSet
<1>2. PICK r : r = request[Representative]
  OBVIOUS
<1>3. Len(r.names) = 1 /\ Cardinality(model.given) = 1
  BY <1>1, <1>2, RunThrows
<1>4. r.names \in Seq(model.inputs) /\ Cardinality(model.inputs) = 1
  BY <1>1, <1>2, <1>3 DEF Proper
<1>5. model.inputs = model.given
  <2>1. IsFiniteSet(model.given) /\ model.inputs \in SUBSET model.given
    BY <1>1 DEF Modelled
  <2>2. QED
    BY <1>3, <1>4, <2>1, FS_Subset
<1>6. SequenceControls(model) = {}
  BY <1>1, <1>5 DEF Modelled
<1>7. PICK x : model.inputs = {x}
  <2>1. IsFiniteSet(model.inputs)
    BY <1>1 DEF Modelled
  <2>2. QED
    BY <1>4, <2>1, FS_Singleton
<1>8. Named(Representative) = {x}
  <2>1. DOMAIN r.names = 1..1 /\ r.names[1] = x
    BY <1>3, <1>4, <1>7
  <2>2. {r.names[j] : j \in DOMAIN r.names} = {x}
    BY <2>1
  <2>3. QED
    BY <1>2, <2>2 DEF Named
<1>9. Regular(Representative)
  BY <1>7, <1>8 DEF Regular
<1>10. Distinct(InputOrder) /\ FedOnce
  BY <1>9 DEF AllSet
<1>11. Fed = {x}
  BY <1>1, <1>6, <1>8
<1>12. Len(tensors) = 1
  <2>1. Cardinality({x}) = 1
    BY FS_Singleton
  <2>2. QED
    BY <1>10, <1>11, <2>1 DEF FedOnce
<1>13. 1 \in DOMAIN tensors
  BY <1>12 DEF AllSet
<1>14. tensors[1].input = x
  BY <1>11, <1>13 DEF Fed
<1>15. QED
  BY <1>5, <1>7, <1>10, <1>12, <1>13, <1>14

\* Where no input is set twice, the header that stands for the batch names
\* every input.
LEMMA DistinctNames ==
    ASSUME AllSet, model.platform \notin {"plan", "custom"}, Distinct(InputOrder)
    PROVE  Regular(Representative)
<1>1. /\ Modelled(model) /\ Proper(model, request[Representative])
  BY DEF AllSet
<1>2. PICK r : r = request[Representative]
  OBVIOUS
<1>3. r.names \in Seq(model.inputs) /\ Len(r.names) = Cardinality(model.inputs)
  BY <1>1, <1>2 DEF Proper
<1>4. PICK x : x = r.names
  OBVIOUS
<1>5. PICK s : s = SetToSeq(SequenceControls(model))
  OBVIOUS
<1>6. s \in Seq(SequenceControls(model))
  <2>1. IsFiniteSet(SequenceControls(model))
    BY <1>1 DEF Modelled
  <2>2. QED
    BY <1>5, <2>1, SetToSeqFacts
<1>7. InputOrder = x \o s
  BY <1>1, <1>2, <1>4, <1>5, RunInputs DEF RepresentativeInputs
<1>8. PICK N : N = model.inputs
  OBVIOUS
<1>9. x \in Seq(N) /\ Len(x) = Cardinality(N) /\ IsFiniteSet(N)
  BY <1>1, <1>3, <1>4, <1>8 DEF Modelled
<1>10. PICK l \in Nat : l = Len(x)
  BY <1>9
<1>11. x \in [1..l -> N] /\ DOMAIN x = 1..l
  BY <1>9, <1>10
<1>12. \A a, b \in 1..l : x[a] = x[b] => a = b
  <2>1. PICK both : both = x \o s
    OBVIOUS
  <2>2. \A t \in 1..l : both[t] = x[t] /\ t \in DOMAIN both
    BY <1>6, <1>9, <1>10, <2>1
  <2>3. \A a, b \in DOMAIN both : both[a] = both[b] => a = b
    BY <1>7, <2>1 DEF Distinct
  <2>4. QED
    BY <2>2, <2>3
<1>13. x \in Injection(1..l, N)
  BY <1>11, <1>12 DEF Injection, IsInjective
<1>14. IsFiniteSet(1..l) /\ Cardinality(1..l) = l
  BY UpTo
<1>15. x \in Surjection(1..l, N)
  BY <1>9, <1>10, <1>13, <1>14, FS_Injection
<1>16. {x[j] : j \in DOMAIN x} = N
  BY <1>11, <1>15 DEF Surjection
<1>17. QED
  BY <1>2, <1>4, <1>8, <1>16 DEF Named, Regular

\* What the framework computes of a payload's rows is of its own inputs.
LEMMA OwnComputed ==
    ASSUME AllSet, phase = "gathering", model.platform # "custom",
           ~ContextRun.throws, ContextRun.accepts,
           NEW p \in InBatch, status[p] = "ok", ~Excused(p), request[p].via # "null",
           NEW o \in Outputs, model.platform = "libtorch" => o = FirstOut,
           NEW k \in 1..SizeOf(p)
    PROVE  (IF model.platform = "libtorch" THEN LibTorchForward(o) ELSE Forward(o))[Offset(p) + k]
             = OwnRow(o, p, k)
<1>1. PICK n : n = Offset(p) + k
  OBVIOUS
<1>2. /\ Modelled(model) /\ Checked(model) /\ Sized /\ GatherInv
      /\ \A t \in DOMAIN tensors : tensors[t].input = InputOrder[t]
  BY DEF AllSet
<1>3. n \in 1..Total
  BY <1>1, <1>2, OwnerFacts
<1>4. ASSUME Distinct(InputOrder), NEW t \in DOMAIN tensors
      PROVE  tensors[t].rows[n] = OwnToken(p, tensors[t].input, k)
  <2>1. OwnTensor(tensors[t].rows, tensors[t].input, p)
    BY <1>2, <1>4 DEF GatherInv
  <2>2. QED
    BY <1>1, <2>1 DEF OwnTensor
<1>5. OwnRow(o, p, k) = Computed(o, [i \in model.given |-> OwnToken(p, i, k)])
  BY DEF OwnRow, OwnToken
<1>6. CASE model.platform = "libtorch"
  <2>1. /\ Distinct(InputOrder) /\ Len(tensors) \in DOMAIN tensors
        /\ \A i \in model.given : i = tensors[Len(tensors)].input
    BY <1>6, TorchInput
  <2>2. PICK t \in DOMAIN tensors : t = Len(tensors)
    BY <2>1
  <2>3. LibTorchForward(o)[n] = Computed(FirstOut, [i \in model.given |-> tensors[t].rows[n]])
    BY <1>3, <2>2 DEF LibTorchForward
  <2>4. \A i \in model.given : tensors[t].rows[n] = OwnToken(p, i, k)
    BY <1>4, <2>1, <2>2
  <2>5. [i \in model.given |-> tensors[t].rows[n]] = [i \in model.given |-> OwnToken(p, i, k)]
    BY <2>4
  <2>6. QED
    BY <1>1, <1>5, <1>6, <2>3, <2>5
<1>7. CASE model.platform # "libtorch"
  <2>1. Distinct(InputOrder) /\ Fed = model.given
    <3>1. CASE model.platform = "onnx" \/ IsTf(model)
      BY <1>2, <3>1, RunAccepts DEF AllSet
    <3>2. CASE model.platform = "plan"
      BY <3>2 DEF AllSet
    <3>3. CASE model.platform = "netdef"
      <4>1. model.given = model.inputs \cup SequenceControls(model)
        BY <3>3 DEF Excused, IsTf
      <4>2. \A a, b \in DOMAIN tensors : tensors[a].input = tensors[b].input => a = b
        BY <3>3 DEF AllSet, Spent
      <4>3. Distinct(InputOrder)
        BY <1>2, <4>2 DEF AllSet, Distinct
      <4>4. Regular(Representative)
        BY <3>3, <4>3, DistinctNames
      <4>5. QED
        BY <3>3, <4>1, <4>3, <4>4 DEF AllSet, Regular
    <3>4. QED
      BY <1>2, <1>7, <3>1, <3>2, <3>3 DEF Modelled, IsTf
  <2>2. ASSUME NEW i \in model.given PROVE Row(i, n) = OwnToken(p, i, k)
    <3>1. PICK t \in DOMAIN tensors : tensors[t].input = i
      BY <2>1 DEF Fed
    <3>2. PICK T : T = {s \in DOMAIN tensors : tensors[s].input = i}
      OBVIOUS
    <3>3. \A s \in DOMAIN tensors : tensors[s].input = i => s = t
      BY <1>2, <2>1, <3>1 DEF AllSet, Distinct
    <3>4. T = {t}
      BY <3>1, <3>2, <3>3
    <3>5. t \in Int
      BY DEF AllSet
    <3>6. Max(T) = t /\ T # {}
      BY <3>4, <3>5, OfOne
    <3>7. Row(i, n) = tensors[t].rows[n]
      BY <3>2, <3>6 DEF Row
    <3>8. QED
      BY <1>4, <2>1, <3>1, <3>7
  <2>3. [i \in model.given |-> Row(i, n)] = [i \in model.given |-> OwnToken(p, i, k)]
    BY <2>2
  <2>4. Forward(o)[n] = Computed(o, [i \in model.given |-> Row(i, n)])
    BY <1>3 DEF Forward
  <2>5. QED
    BY <1>1, <1>5, <1>7, <2>3, <2>4
<1>8. QED
  BY <1>6, <1>7

\* Every output that a payload asked for is among those that are read.
LEMMA OutputsFacts ==
    ASSUME AllSet, NEW s, s = ContextRun.outputs, model.platform # "custom"
    PROVE  /\ s \in Seq(Inputs \cup Controls \cup Outputs \cup {Unknown})
           /\ \A p \in InBatch : \A o \in Asked(p) \cap Outputs : \E k \in DOMAIN s : s[k] = o
<1>1. Modelled(model) /\ TypeInv /\ InBatch \subseteq Payloads
  BY DEF AllSet, Sized
<1>2. IsFiniteSet(Outputs) /\ IsFiniteSet(Outputs \cup {Unknown})
  <2>1. IsFiniteSet(Outputs) /\ IsFiniteSet({Unknown})
    BY NamesApart, FS_Singleton
  <2>2. QED
    BY <2>1, FS_Union
<1>3. \A p \in InBatch : Asked(p) \subseteq Outputs \cup {Unknown}
  BY <1>1, RequestFacts
<1>4. PICK S : S = IF IsTf(model) THEN RequiredOutputs ELSE Outputs
  OBVIOUS
<1>5. S \in SUBSET (Outputs \cup {Unknown})
  BY <1>3, <1>4 DEF RequiredOutputs
<1>6. IsFiniteSet(S)
  BY <1>2, <1>5, FS_Subset
<1>7. \A p \in InBatch : Asked(p) \cap Outputs \subseteq S
  BY <1>4 DEF RequiredOutputs
<1>8. s = SetToSeq(S)
  BY <1>1, <1>4, RunOutputs
<1>9. PICK n \in Nat : n = Cardinality(S)
  BY <1>6, FS_CardinalityType
<1>10. /\ s \in Seq(S) /\ DOMAIN s = 1..n
       /\ \A x \in S : \E a \in 1..n : s[a] = x
  BY <1>6, <1>8, <1>9, SetToSeqFacts
<1>11. s \in Seq(Inputs \cup Controls \cup Outputs \cup {Unknown})
  BY <1>5, <1>10
<1>12. QED
  BY <1>7, <1>10, <1>11

\* Who is in error when all inputs are set.
LEMMA GatheredErrors ==
    ASSUME TypeInv, AdmissionInv, StartedInv, GatherInv, phase \in {"gathering", "reading"},
           NEW p \in InBatch, status[p] # "ok"
    PROVE  OwnFault(p) \/ HeaderFault
<1>1. CASE Distinct(InputOrder)
  BY <1>1 DEF GatherInv, OwnFault
<1>2. CASE ~Distinct(InputOrder)
  <2>1. batch # <<>> /\ contexts # <<>>
    BY DEF StartedInv
  <2>2. model.platform \notin {"plan", "custom"} /\ ~Regular(Representative)
    BY <1>2, <2>1, BadOrder
  <2>3. QED
    BY <2>2 DEF HeaderFault
<1>3. QED
  BY <1>1, <1>2

\* The run of the framework keeps the invariant: rows are computed one by one,
\* so that what lies at a payload's place is of its own inputs.
LEMMA ExecuteStep ==
    ASSUME IInv, NEW outcome \in Outcomes, Execute(outcome)
    PROVE  IInv'
<1>1. /\ phase = "gathering" /\ todo = <<>> /\ model.platform # "custom"
      /\ model' = model /\ contexts' = contexts /\ request' = request /\ batch' = batch
      /\ provider' = provider /\ status' = status /\ tensors' = tensors /\ result' = result
  BY DEF Execute
<1>2. PICK rows : rows = [o \in Outputs |-> IF model.platform = "libtorch"
                                            THEN LibTorchForward(o) ELSE Forward(o)]
  OBVIOUS
<1>3. \/ /\ fault' # "none" /\ phase' = "done" /\ todo' = todo /\ produced' = produced
         /\ verdict' = verdict
      \/ /\ outcome = "fails" \/ ~ContextRun.accepts
         /\ verdict' = "internal" /\ phase' = "finishing" /\ todo' = todo /\ fault' = fault
         /\ produced' = [produced EXCEPT !.outcome = outcome]
      \/ /\ ~ContextRun.throws /\ ContextRun.accepts
         /\ produced' = [outcome |-> outcome, rows |-> rows]
         /\ todo' = ContextRun.outputs /\ phase' = "reading"
         /\ verdict' = verdict /\ fault' = fault
  BY <1>2 DEF Execute
<1>4. /\ AllSet /\ TypeInv /\ AdmissionInv /\ FreshInv /\ StartedInv /\ GatherInv
      /\ Modelled(model)
  BY <1>1, AllSetFacts DEF IInv, AllSet
<1>5. /\ InBatch' = InBatch /\ Total' = Total /\ InBatch \subseteq Payloads
      /\ \A p : OwnFault(p)' = OwnFault(p)
  BY <1>1, <1>4, SameBatch, BatchFacts
<1>6. TypeInv'
  <2>1. todo' \in Seq(Inputs \cup Controls \cup Outputs \cup {Unknown})
    BY <1>1, <1>3, <1>4, OutputsFacts DEF TypeInv
  <2>2. produced' = [outcome |-> produced'.outcome, rows |-> produced'.rows]
    <3>1. produced = [outcome |-> produced.outcome, rows |-> produced.rows]
      BY <1>4 DEF TypeInv
    <3>2. CASE produced' = [produced EXCEPT !.outcome = outcome]
      BY <3>1, <3>2
    <3>3. CASE produced' = produced
      BY <3>1, <3>3
    <3>4. CASE produced' = [outcome |-> outcome, rows |-> rows]
      BY <3>4
    <3>5. QED
      BY <1>3, <3>2, <3>3, <3>4
  <2>3. verdict' \in {"ok", "internal"} /\ phase' \in {"reading", "finishing", "done"}
    BY <1>3, <1>4 DEF TypeInv
  <2>4. QED
    BY <1>1, <1>4, <2>1, <2>2, <2>3 DEF TypeInv
<1>7. AdmissionInv'
  BY <1>1, <1>4, SameAdmission DEF AdmissionInv
<1>8. FreshInv' /\ OrderInv'
  BY <1>3 DEF FreshInv, OrderInv
<1>9. StartedInv'
  BY <1>1, <1>3, <1>4, <1>5 DEF StartedInv
<1>10. \A p \in Payloads : result[p] = <<>>
  BY <1>1, <1>4 DEF FreshInv
<1>11. ResultInv'
  BY <1>1, <1>5, <1>10 DEF ResultInv
<1>12. HeaderFault => BatchFault'
  BY <1>1, HeaderFaultStays
<1>13. \A p \in InBatch : status[p] # "ok" => OwnFault(p) \/ BatchFault'
  BY <1>1, <1>4, <1>12, GatheredErrors
<1>14. InputOrder' = InputOrder /\ Distinct(InputOrder)' = Distinct(InputOrder)
  BY <1>1, <1>4, OrderStays DEF Distinct
<1>15. GatherInv'
  <2>1. \A p : Regular(p)' = Regular(p)
    BY <1>1, SameBatch
  <2>2. phase' # "gathering"
    BY <1>3
  <2>3. Distinct(InputOrder) => \A p \in InBatch :
          status[p] # "ok" => ~Regular(p) \/ (model.string /\ request[p].strings # "each")
    BY <1>1, <1>4 DEF GatherInv
  <2>4. QED
    BY <1>1, <1>5, <1>14, <2>1, <2>2, <2>3 DEF GatherInv
<1>16. CASE phase' = "done"
  <2>1. fault' # "none"
    BY <1>3, <1>16
  <2>2. ReadInv' /\ FinishInv' /\ OwnResults' /\ ErrorsStayLocal'
    BY <1>16, <2>1 DEF ReadInv, FinishInv, OwnResults, ErrorsStayLocal
  <2>3. QED
    BY <1>6, <1>7, <1>8, <1>9, <1>11, <1>15, <2>2 DEF IInv
<1>17. CASE phase' = "finishing"
  <2>1. /\ outcome = "fails" \/ ~ContextRun.accepts
        /\ verdict' = "internal" /\ produced' = [produced EXCEPT !.outcome = outcome]
    BY <1>3, <1>17
  <2>2. BatchFault'
    <3>1. CASE outcome = "fails"
      <4>1. produced'.outcome = "fails"
        BY <1>4, <2>1, <3>1 DEF TypeInv
      <4>2. QED
        BY <4>1 DEF BatchFault
    <3>2. CASE ~ContextRun.accepts
      BY <1>1, <1>4, <1>12, <3>2, NotAccepted
    <3>3. QED
      BY <2>1, <3>1, <3>2
  <2>3. FinishInv'
    BY <1>1, <1>5, <2>1, <2>2 DEF FinishInv
  <2>4. ReadInv' /\ OwnResults' /\ ErrorsStayLocal'
    BY <1>17 DEF ReadInv, OwnResults, ErrorsStayLocal
  <2>5. QED
    BY <1>6, <1>7, <1>8, <1>9, <1>11, <1>15, <2>3, <2>4 DEF IInv
<1>18. CASE phase' = "reading"
  <2>1. /\ ~ContextRun.throws /\ ContextRun.accepts
        /\ produced' = [outcome |-> outcome, rows |-> rows] /\ todo' = ContextRun.outputs
    BY <1>3, <1>18
  <2>2. ASSUME NEW p \in InBatch, status[p] = "ok", ~Excused(p)', request[p].via # "null",
               NEW o \in Outputs, model.platform = "libtorch" => o = FirstOut
        PROVE  OwnProduced(o, p)'
    <3>1. ~Excused(p)
      <4>1. ~IsTf(model) => \A q \in InBatch : InError(q) => InError(q)'
        BY <1>1 DEF InError
      <4>2. QED
        BY <1>1, <2>2, <4>1, ExcusedStays
    <3>2. ASSUME NEW k \in 1..SizeOf(p)
          PROVE  produced'.rows[o][Offset(p) + k] = OwnRow(o, p, k)
      <4>1. produced'.rows[o] = IF model.platform = "libtorch" THEN LibTorchForward(o) ELSE Forward(o)
        BY <1>2, <2>1
      <4>2. QED
        BY <1>1, <1>4, <2>1, <2>2, <3>1, <4>1, OwnComputed
    <3>3. SizeOf(p)' = SizeOf(p) /\ Offset(p)' = Offset(p) /\ \A k : OwnRow(o, p, k)' = OwnRow(o, p, k)
      BY <1>1, SameBatch, SameRows
    <3>4. QED
      BY <3>2, <3>3 DEF OwnProduced
  <2>3. \A p \in InBatch : \A o \in Asked(p) \cap Outputs : \E k \in DOMAIN todo' : todo'[k] = o
    BY <1>1, <1>4, <2>1, OutputsFacts
  <2>4. ReadInv'
    <3>1. \A p : Asked(p)' = Asked(p)
      BY <1>1, SameBatch
    <3>2. QED
      BY <1>1, <1>5, <2>2, <2>3, <3>1 DEF ReadInv
  <2>5. FinishInv' /\ OwnResults' /\ ErrorsStayLocal'
    BY <1>18 DEF FinishInv, OwnResults, ErrorsStayLocal
  <2>6. QED
    BY <1>6, <1>7, <1>8, <1>9, <1>11, <1>15, <2>4, <2>5 DEF IInv
<1>19. QED
  BY <1>3, <1>16, <1>17, <1>18

\* What a custom library returns for a payload is its own, and it fails only
\* for an input or an output that the payload got wrong.
CustomOutcome(d, p) ==
  /\ d.status \in {"ok", "internal"}
  /\ DOMAIN d.rows = Asked(p) \cap Outputs
  /\ d.status # "ok" => OwnFault(p)
  /\ d.status = "ok" => \A o \in Asked(p) \cap Outputs : d.rows[o] = OwnRows(o, p)

\* What the identity library returns for a payload is its own rows, or an error.
LEMMA CustomGives ==
    ASSUME Modelled(model), Checked(model), model.platform = "custom", Sized, NEW p \in InBatch,
           Proper(model, request[p]), Supplied(provider[p], model, request[p], p),
           \A i \in Inputs \cup Controls : provider[p].at[i] = 0,
           NEW d, d = IdentityExecute(p)
    PROVE  CustomOutcome(d, p)
<1>1. /\ model.inputs \subseteq Inputs /\ \A o \in Outputs : Paired[o] \in model.inputs
      /\ ~model.string /\ Inputs \cap Controls = {}
  BY NamesApart DEF Modelled, Checked
<1>2. PICK known : known = Asked(p) \cap Outputs
  OBVIOUS
<1>3. PICK read : read = [o \in known |-> ContiguousContent(provider[p], Paired[o], SizeOf(p))]
  OBVIOUS
<1>4. d = [status |-> IF Unknown \in Asked(p) \/ \E o \in known : read[o].status # "ok"
                      THEN "internal" ELSE "ok",
           rows |-> [o \in known |-> [k \in DOMAIN read[o].data |->
                       Computed(o, [i \in {Paired[o]} |-> read[o].data[k]])]]]
  BY <1>2, <1>3 DEF IdentityExecute
<1>5. PICK w \in Nat \ {0} : w = SizeOf(p)
  BY DEF Sized
<1>6. ASSUME NEW o \in known
      PROVE  /\ read[o].status # "ok" => ~Regular(p)
             /\ read[o].status = "ok" =>
                  /\ DOMAIN read[o].data = 1..w
                  /\ \A k \in 1..w : read[o].data[k] = <<p, Paired[o], k>>
  <2>1. PICK i : i = Paired[o]
    OBVIOUS
  <2>2. PICK c : c = ContiguousContent(provider[p], i, w)
    OBVIOUS
  <2>3. read[o] = c
    BY <1>3, <1>5, <2>1, <2>2
  <2>4. PICK q : q = provider[p]
    OBVIOUS
  <2>5. PICK r : r = request[p]
    OBVIOUS
  <2>6. PICK m : m = model
    OBVIOUS
  <2>7. i \in model.inputs /\ i \in Inputs \cup Controls /\ q.at[i] = 0
    BY <1>1, <1>2, <2>1, <2>4
  <2>8. Proper(m, r) /\ Supplied(q, m, r, p) /\ c = ContiguousContent(q, i, w) /\ w \in Nat
    BY <2>2, <2>4, <2>5, <2>6
  <2>9. WholeContent(c, q, m, r, p, i, w)
    BY <2>7, <2>8, ContiguousGives
  <2>10. r.via # "null"
    BY <1>2, <1>6, <2>5 DEF Asked
  <2>11. DOMAIN q.buffers = Named(p)
    BY <2>5, <2>8, <2>10 DEF Supplied, Named
  <2>12. c.status # "ok" => ~Regular(p)
    BY <2>7, <2>9, <2>10, <2>11 DEF WholeContent, Regular
  <2>13. ASSUME c.status = "ok"
         PROVE  DOMAIN c.data = 1..w /\ \A k \in 1..w : c.data[k] = <<p, i, k>>
    <3>1. c.data = Sent(m, r, p, i)
      BY <2>7, <2>9, <2>10, <2>13 DEF WholeContent
    <3>2. SentWhole(m, r, i)
      BY <1>1, <2>6 DEF SentWhole, IsString
    <3>3. r.batch = w /\ r.batch \in Nat \ {0} /\ r.strings \in {"each", "few", "many", "cut"}
      BY <1>5, <2>5, <2>8 DEF Proper, SizeOf
    <3>4. PICK s : s = Sent(m, r, p, i)
      OBVIOUS
    <3>5. DOMAIN s = 1..Len(s) /\ Len(s) = r.batch /\ \A k \in 1..r.batch : s[k] = <<p, i, k>>
      BY <3>2, <3>3, <3>4, SentFacts
    <3>6. QED
      BY <3>1, <3>3, <3>4, <3>5
  <2>14. QED
    BY <2>1, <2>3, <2>12, <2>13
<1>7. d.status # "ok" => OwnFault(p)
  <2>1. d.status # "ok" => Unknown \in Asked(p) \/ \E o \in known : read[o].status # "ok"
    BY <1>4
  <2>2. QED
    BY <1>6, <2>1 DEF OwnFault
<1>8. ASSUME d.status = "ok", NEW o \in known PROVE d.rows[o] = OwnRows(o, p)
  <2>1. read[o].status = "ok"
    BY <1>4, <1>8
  <2>2. PICK data : data = read[o].data
    OBVIOUS
  <2>3. DOMAIN data = 1..w /\ \A k \in 1..w : data[k] = <<p, Paired[o], k>>
    BY <1>6, <2>1, <2>2
  <2>4. d.rows[o] = [k \in DOMAIN data |-> Computed(o, [i \in {Paired[o]} |-> data[k]])]
    BY <1>4, <2>2
  <2>5. Paired[o] \notin Controls
    BY <1>1, <1>2
  <2>6. ASSUME NEW k \in 1..w PROVE OwnRow(o, p, k) = Computed(o, [i \in {Paired[o]} |-> data[k]])
    <3>1. OwnRow(o, p, k) = Computed(o, [i \in {Paired[o]} |-> IF i \in Controls THEN <<p, i, 1>> ELSE <<p, i, k>>])
      BY DEF OwnRow
    <3>2. \A i \in {Paired[o]} : (IF i \in Controls THEN <<p, i, 1>> ELSE <<p, i, k>>) = data[k]
      BY <2>3, <2>5
    <3>3. [i \in {Paired[o]} |-> IF i \in Controls THEN <<p, i, 1>> ELSE <<p, i, k>>]
            = [i \in {Paired[o]} |-> data[k]]
      BY <3>2
    <3>4. QED
      BY <3>1, <3>3
  <2>7. OwnRows(o, p) = [k \in 1..w |-> OwnRow(o, p, k)]
    BY <1>5 DEF OwnRows
  <2>8. QED
    BY <2>3, <2>4, <2>6, <2>7
<1>9. d.status \in {"ok", "internal"} /\ DOMAIN d.rows = known
  BY <1>4
<1>10. QED
  BY <1>2, <1>7, <1>8, <1>9 DEF CustomOutcome

\* The call of a custom library keeps the invariant.
LEMMA ExecuteCustomStep ==
    ASSUME IInv, NEW outcome \in Outcomes, ExecuteCustom(outcome)
    PROVE  IInv'
<1>1. /\ phase = "gathering" /\ model.platform = "custom" /\ phase' = "finishing"
      /\ produced' = [produced EXCEPT !.outcome = outcome]
      /\ model' = model /\ contexts' = contexts /\ request' = request /\ batch' = batch
      /\ provider' = provider /\ todo' = todo /\ tensors' = tensors /\ fault' = fault
  BY DEF ExecuteCustom
<1>2. PICK done : done = [p \in InBatch |-> IdentityExecute(p)]
  OBVIOUS
<1>3. \/ /\ ~CustomShapes \/ outcome = "fails"
         /\ verdict' = "internal" /\ status' = status /\ result' = result
      \/ /\ status' = [p \in Payloads |-> IF p \in InBatch THEN done[p].status ELSE status[p]]
         /\ result' = [p \in Payloads |-> IF p \in InBatch THEN done[p].rows ELSE result[p]]
         /\ verdict' = verdict
  BY <1>2 DEF ExecuteCustom
<1>4. TypeInv /\ AdmissionInv /\ FreshInv /\ StartedInv
  BY DEF IInv
<1>5. /\ batch # <<>> /\ contexts # <<>> /\ verdict = "ok"
  BY <1>1, <1>4 DEF StartedInv
<1>6. Modelled(model) /\ Checked(model)
  BY <1>4, <1>5, ModelFacts, CheckedFacts DEF TypeInv, AdmissionInv
<1>7. /\ InBatch' = InBatch /\ Total' = Total /\ InBatch \subseteq Payloads /\ Sized
      /\ \A p : OwnFault(p)' = OwnFault(p) /\ Asked(p)' = Asked(p)
  BY <1>1, <1>4, SameBatch, BatchFacts
<1>8. /\ \A p \in InBatch : status[p] = "ok" /\ \A i \in Inputs \cup Controls : provider[p].at[i] = 0
      /\ \A p \in Payloads : result[p] = <<>>
  BY <1>1, <1>4 DEF FreshInv
<1>9. ASSUME NEW p \in InBatch PROVE CustomOutcome(done[p], p)
  <2>1. done[p] = IdentityExecute(p)
    BY <1>2
  <2>2. QED
    BY <1>1, <1>4, <1>6, <1>7, <1>8, <2>1, CustomGives DEF AdmissionInv
<1>10. produced' = [outcome |-> produced'.outcome, rows |-> produced'.rows] /\ produced'.outcome = outcome
  <2>1. produced = [outcome |-> produced.outcome, rows |-> produced.rows]
    BY <1>4 DEF TypeInv
  <2>2. QED
    BY <1>1, <2>1
<1>11. AdmissionInv'
  BY <1>1, <1>4, SameAdmission DEF AdmissionInv
<1>12. FreshInv' /\ OrderInv' /\ GatherInv' /\ ReadInv' /\ OwnResults' /\ ErrorsStayLocal'
  BY <1>1 DEF FreshInv, OrderInv, GatherInv, ReadInv, OwnResults, ErrorsStayLocal
<1>13. CASE /\ ~CustomShapes \/ outcome = "fails"
            /\ verdict' = "internal" /\ status' = status /\ result' = result
  <2>1. TypeInv'
    BY <1>1, <1>4, <1>10, <1>13 DEF TypeInv
  <2>2. StartedInv'
    BY <1>1, <1>7, <1>8, <1>13 DEF StartedInv
  <2>3. ResultInv'
    BY <1>7, <1>8, <1>13 DEF ResultInv
  <2>4. BatchFault'
    <3>1. CASE outcome = "fails"
      BY <1>10, <3>1 DEF BatchFault
    <3>2. CASE ~CustomShapes
      <4>1. PICK p \in InBatch : ~(Named(p) \subseteq Named(batch[1]))
        BY <3>2 DEF CustomShapes
      <4>2. Named(p) \subseteq model.inputs
        BY <1>4 DEF AdmissionInv, Proper, Named
      <4>3. ~Regular(batch[1])
        BY <4>1, <4>2 DEF Regular
      <4>4. HeaderFault
        BY <1>1, <4>3 DEF HeaderFault
      <4>5. QED
        BY <1>1, <4>4, HeaderFaultStays
    <3>3. QED
      BY <1>13, <3>1, <3>2
  <2>5. FinishInv'
    BY <1>13, <2>4 DEF FinishInv
  <2>6. QED
    BY <1>11, <1>12, <2>1, <2>2, <2>3, <2>5 DEF IInv
<1>14. CASE /\ status' = [p \in Payloads |-> IF p \in InBatch THEN done[p].status ELSE status[p]]
            /\ result' = [p \in Payloads |-> IF p \in InBatch THEN done[p].rows ELSE result[p]]
            /\ verdict' = verdict
  <2>1. \A p \in InBatch : status'[p] = done[p].status /\ result'[p] = done[p].rows
    BY <1>7, <1>14
  <2>2. \A p \in InBatch : status'[p] \in {"ok", "internal"}
    BY <1>9, <2>1 DEF CustomOutcome
  <2>3. TypeInv'
    <3>1. status' \in [Payloads -> {"new", "ok", "rejected", "invalid", "internal"}]
      <4>1. status \in [Payloads -> {"new", "ok", "rejected", "invalid", "internal"}]
        BY <1>4 DEF TypeInv
      <4>2. QED
        BY <1>14, <2>1, <2>2, <4>1
    <3>2. result' = [p \in Payloads |-> result'[p]]
      BY <1>14
    <3>3. QED
      BY <1>1, <1>4, <1>10, <1>14, <3>1, <3>2 DEF TypeInv
  <2>4. StartedInv'
    BY <1>1, <1>7, <2>2 DEF StartedInv
  <2>5. ResultInv'
    BY <1>7, <1>9, <2>1 DEF ResultInv, CustomOutcome
  <2>6. \A p \in InBatch : status'[p] # "ok" => OwnFault(p)
    BY <1>9, <2>1 DEF CustomOutcome
  <2>7. ASSUME NEW p \in InBatch, status'[p] = "ok" PROVE OwnResult(p)'
    <3>1. \A o \in Asked(p) \cap Outputs : o \in DOMAIN result'[p] /\ result'[p][o] = OwnRows(o, p)
      BY <1>9, <2>1, <2>7 DEF CustomOutcome
    <3>2. \A o : OwnRows(o, p)' = OwnRows(o, p)
      BY <1>1, SameRows
    <3>3. QED
      BY <1>7, <3>1, <3>2 DEF OwnResult
  <2>8. FinishInv'
    BY <1>5, <1>7, <1>14, <2>6, <2>7 DEF FinishInv
  <2>9. QED
    BY <1>11, <1>12, <2>3, <2>4, <2>5, <2>8 DEF IInv
<1>15. QED
  BY <1>3, <1>13, <1>14

(***************************************************************************)
(* Scattering and completing.                                              *)
(***************************************************************************)

\* What is read back stays with what was produced and who is in error.
LEMMA ReadStays ==
    ASSUME model' = model, request' = request, batch' = batch, produced' = produced,
           status' = status, NEW o, NEW p
    PROVE  Read(o, p)' = Read(o, p) /\ OwnProduced(o, p)' = OwnProduced(o, p)
           /\ Excused(p)' = Excused(p)
<1>1. /\ InBatch' = InBatch
      /\ \A q : SizeOf(q)' = SizeOf(q) /\ Before(q)' = Before(q) /\ Offset(q)' = Offset(q)
      /\ \A q : Regular(q)' = Regular(q)
  BY SameBatch
<1>2. \A S : Behind(S)' = Behind(S)
  BY <1>1 DEF Behind, RowsOf
<1>3. \A rows, n : Portion(rows, n, p)' = Portion(rows, n, p)
  BY <1>1 DEF Portion
<1>4. IsTf(model)' = IsTf(model) /\ IsString(model, o)' = IsString(model, o)
  BY DEF IsTf, IsString
<1>5. PlanReadOutput(o, p)' = PlanReadOutput(o, p)
  BY <1>1, <1>2, <1>3 DEF PlanReadOutput
<1>6. Portion(produced.rows[o], Offset(p), p)' = Portion(produced.rows[o], Offset(p), p)
  BY <1>1, <1>3
<1>7. Read(o, p)' = Read(o, p)
  BY <1>4, <1>5, <1>6 DEF Read, OnnxReadOutputTensors, OnnxSetStringOutputBuffer,
       OnnxSetFixedSizeOutputBuffer, TfReadStringOutputTensor, TfReadFixedSizedOutputTensor,
       LibTorchReadFixedSizedOutputTensor, NetDefReadFixedSizedOutputTensor
<1>8. OwnProduced(o, p)' = OwnProduced(o, p)
  <2>1. \A k : OwnRow(o, p, k)' = OwnRow(o, p, k)
    BY SameRows
  <2>2. QED
    BY <1>1, <2>1 DEF OwnProduced
<1>9. Excused(p)' = Excused(p)
  <2>1. Regular(Representative)' = Regular(Representative)
    BY SameBatch DEF Regular, Named
  <2>2. SequenceControls(model)' = SequenceControls(model)
    BY DEF SequenceControls
  <2>3. \A q : InError(q)' = InError(q)
    BY DEF InError
  <2>4. QED
    BY <1>1, <1>4, <2>1, <2>2, <2>3 DEF Excused
<1>10. QED
  BY <1>7, <1>8, <1>9

\* What is read back for a payload is what lies at its place.
LEMMA ReadOwn ==
    ASSUME Modelled(model), model.platform # "custom", Sized, NEW p \in InBatch, ~Excused(p),
           \A q \in InBatch : status[q] \in {"ok", "invalid", "internal"},
           NEW o, OwnProduced(o, p)
    PROVE  Read(o, p) = OwnRows(o, p)
<1>1. Read(o, p) = Portion(produced.rows[o], Offset(p), p)
  <2>1. CASE model.platform = "plan"
    <3>1. \A q \in Before(p) : ~InError(q)
      BY <2>1 DEF Excused, IsTf
    <3>2. \A q \in Before(p) : status[q] = "ok"
      BY <3>1 DEF InError, Before
    <3>3. {q \in Before(p) : status[q] = "ok"} = Before(p)
      BY <3>2
    <3>4. Read(o, p) = PlanReadOutput(o, p)
      BY <2>1 DEF Read, IsTf
    <3>5. QED
      BY <3>3, <3>4 DEF PlanReadOutput, Offset
  <2>2. CASE model.platform # "plan"
    BY <2>2 DEF Modelled, IsTf, Read, OnnxReadOutputTensors, OnnxSetStringOutputBuffer,
         OnnxSetFixedSizeOutputBuffer, TfReadStringOutputTensor, TfReadFixedSizedOutputTensor,
         LibTorchReadFixedSizedOutputTensor, NetDefReadFixedSizedOutputTensor
  <2>3. QED
    BY <2>1, <2>2
<1>2. \A k \in 1..SizeOf(p) : produced.rows[o][Offset(p) + k] = OwnRow(o, p, k)
  BY DEF OwnProduced
<1>3. Portion(produced.rows[o], Offset(p), p) = OwnRows(o, p)
  BY <1>2 DEF Portion, OwnRows
<1>4. QED
  BY <1>1, <1>3

\* When everything is read the payloads have their own results.
LEMMA AllRead ==
    ASSUME IInv, phase = "reading", NEW p \in InBatch, status[p] = "ok", ~Excused(p),
           NEW got, \A o \in Asked(p) \cap Outputs : o \in DOMAIN got /\ got[o] = Read(o, p)
    PROVE  \A o \in Asked(p) \cap Outputs :
             \/ o \in DOMAIN got /\ got[o] = OwnRows(o, p)
             \/ model.platform = "libtorch" /\ o # FirstOut
<1>1. TypeInv /\ AdmissionInv /\ StartedInv /\ ReadInv
  BY DEF IInv
<1>2. /\ Modelled(model) /\ Sized /\ model.platform # "custom"
      /\ \A q \in InBatch : status[q] \in {"ok", "invalid", "internal"}
  BY <1>1, ModelFacts, BatchFacts DEF TypeInv, StartedInv
<1>3. SUFFICES ASSUME NEW o \in Asked(p) \cap Outputs, model.platform = "libtorch" => o = FirstOut
               PROVE  o \in DOMAIN got /\ got[o] = OwnRows(o, p)
  OBVIOUS
<1>4. request[p].via # "null"
  BY <1>3 DEF Asked
<1>5. OwnProduced(o, p)
  BY <1>1, <1>3, <1>4 DEF ReadInv
<1>6. Read(o, p) = OwnRows(o, p)
  BY <1>2, <1>5, ReadOwn
<1>7. QED
  BY <1>3, <1>6

\* Who is in error when the outputs have been read.
LEMMA ReadFinish ==
    ASSUME IInv, phase = "reading", phase' = "finishing",
           model' = model, request' = request, batch' = batch, produced' = produced,
           status' = status, verdict' = verdict,
           \A p \in InBatch : status[p] = "ok" =>
             \A o \in Asked(p) \cap Outputs : o \in DOMAIN result'[p] /\ result'[p][o] = Read(o, p)
    PROVE  FinishInv'
<1>1. TypeInv /\ AdmissionInv /\ StartedInv /\ GatherInv
  BY DEF IInv
<1>2. /\ InBatch' = InBatch /\ \A p : OwnFault(p)' = OwnFault(p) /\ Asked(p)' = Asked(p)
  BY SameBatch
<1>3. verdict' = "ok"
  BY <1>1 DEF StartedInv
<1>4. \A p \in InBatch : status[p] # "ok" => OwnFault(p) \/ BatchFault'
  BY <1>1, GatheredErrors, HeaderFaultStays
<1>5. ASSUME NEW p \in InBatch, status[p] = "ok", ~Excused(p)' PROVE OwnResult(p)'
  <2>1. ~Excused(p)
    BY <1>5, ReadStays
  <2>2. PICK got : got = result'[p]
    OBVIOUS
  <2>3. \A o \in Asked(p) \cap Outputs : o \in DOMAIN got /\ got[o] = Read(o, p)
    BY <1>5, <2>2
  <2>4. \A o \in Asked(p) \cap Outputs :
             \/ o \in DOMAIN got /\ got[o] = OwnRows(o, p)
             \/ model.platform = "libtorch" /\ o # FirstOut
    BY <1>5, <2>1, <2>3, AllRead
  <2>5. \A o : OwnRows(o, p)' = OwnRows(o, p)
    BY SameRows
  <2>6. QED
    BY <1>2, <2>2, <2>4, <2>5 DEF OwnResult
<1>6. QED
  BY <1>2, <1>3, <1>4, <1>5 DEF FinishInv

\* What a step of reading keeps, whatever it reads.
LEMMA ReadKeeps ==
    ASSUME IInv, phase = "reading", phase' \in {"reading", "finishing"},
           model' = model, contexts' = contexts, request' = request, batch' = batch,
           provider' = provider, status' = status, tensors' = tensors,
           produced' = produced, verdict' = verdict,
           todo' \in Seq(Inputs \cup Controls \cup Outputs \cup {Unknown}),
           result' = [p \in Payloads |-> result'[p]],
           \A p \in InBatch : DOMAIN result'[p] \subseteq Asked(p)
    PROVE  /\ TypeInv' /\ AdmissionInv' /\ FreshInv' /\ StartedInv' /\ OrderInv' /\ GatherInv'
           /\ ResultInv' /\ OwnResults' /\ ErrorsStayLocal'
<1>1. TypeInv /\ AdmissionInv /\ StartedInv /\ GatherInv
  BY DEF IInv
<1>2. /\ InBatch' = InBatch /\ Total' = Total /\ \A p : Asked(p)' = Asked(p) /\ Regular(p)' = Regular(p)
  BY SameBatch
<1>3. Modelled(model)
  BY <1>1, ModelFacts DEF TypeInv
<1>4. TypeInv'
  BY <1>1 DEF TypeInv
<1>5. AdmissionInv'
  BY <1>1, SameAdmission DEF AdmissionInv
<1>6. StartedInv'
  BY <1>1, <1>2 DEF StartedInv
<1>7. FreshInv' /\ OrderInv' /\ OwnResults' /\ ErrorsStayLocal'
  BY DEF FreshInv, OrderInv, OwnResults, ErrorsStayLocal
<1>8. GatherInv'
  <2>1. InputOrder' = InputOrder /\ Distinct(InputOrder)' = Distinct(InputOrder)
    BY <1>3, OrderStays DEF Distinct
  <2>2. Distinct(InputOrder) => \A p \in InBatch :
          status[p] # "ok" => ~Regular(p) \/ (model.string /\ request[p].strings # "each")
    BY <1>1 DEF GatherInv
  <2>3. QED
    BY <1>2, <2>1, <2>2 DEF GatherInv
<1>9. ResultInv'
  BY <1>2 DEF ResultInv
<1>10. QED
  BY <1>4, <1>5, <1>6, <1>7, <1>8, <1>9

\* A batch that asked for nothing completes.
LEMMA ReadNothingStep ==
    ASSUME IInv, ReadNothing
    PROVE  IInv'
<1>1. /\ phase = "reading" /\ todo = <<>> /\ phase' = "finishing"
      /\ model' = model /\ contexts' = contexts /\ request' = request /\ batch' = batch
      /\ provider' = provider /\ status' = status /\ todo' = todo /\ tensors' = tensors
      /\ produced' = produced /\ result' = result /\ verdict' = verdict /\ fault' = fault
  BY DEF ReadNothing
<1>2. TypeInv /\ ReadInv /\ ResultInv
  BY DEF IInv
<1>3. /\ TypeInv' /\ AdmissionInv' /\ FreshInv' /\ StartedInv' /\ OrderInv' /\ GatherInv'
      /\ ResultInv' /\ OwnResults' /\ ErrorsStayLocal'
  <2>1. /\ todo' \in Seq(Inputs \cup Controls \cup Outputs \cup {Unknown})
        /\ result' = [p \in Payloads |-> result'[p]]
    BY <1>1, <1>2 DEF TypeInv
  <2>2. \A p \in InBatch : DOMAIN result'[p] \subseteq Asked(p)
    BY <1>1, <1>2 DEF ResultInv
  <2>3. QED
    BY <1>1, <2>1, <2>2, ReadKeeps
<1>4. \A p \in InBatch : status[p] = "ok" =>
        \A o \in Asked(p) \cap Outputs : o \in DOMAIN result'[p] /\ result'[p][o] = Read(o, p)
  BY <1>1, <1>2 DEF ReadInv
<1>5. FinishInv'
  BY <1>1, <1>4, ReadFinish
<1>6. ReadInv'
  BY <1>1 DEF ReadInv
<1>7. QED
  BY <1>3, <1>5, <1>6 DEF IInv

\* Reading an output keeps the invariant: each payload that asked for it has
\* the rows at its place, the others nothing new.
LEMMA ReadOutputStep ==
    ASSUME IInv, ReadOutput
    PROVE  IInv'
<1>1. PICK h : h = Head(todo)
  OBVIOUS
<1>2. /\ phase = "reading" /\ todo # <<>>
      /\ result' = [p \in Payloads |-> IF Receives(h, p)
                      THEN [o \in DOMAIN result[p] \cup {h} |->
                              IF o = h THEN Read(o, p) ELSE result[p][o]]
                      ELSE result[p]]
      /\ todo' = Tail(todo)
      /\ phase' = IF Len(todo) = 1 THEN "finishing" ELSE phase
      /\ model' = model /\ contexts' = contexts /\ request' = request /\ batch' = batch
      /\ provider' = provider /\ status' = status /\ tensors' = tensors
      /\ produced' = produced /\ verdict' = verdict /\ fault' = fault
  BY <1>1 DEF ReadOutput
<1>3. TypeInv /\ AdmissionInv /\ StartedInv /\ ReadInv /\ ResultInv
  BY DEF IInv
<1>4. Modelled(model) /\ InBatch \subseteq Payloads
  BY <1>3, ModelFacts, BatchFacts DEF TypeInv
<1>5. todo \in Seq(Inputs \cup Controls \cup Outputs \cup {Unknown})
  BY <1>3 DEF TypeInv
<1>6. PICK n \in Nat : Len(todo) = n + 1
  <2>1. Len(todo) \in Nat \ {0}
    BY <1>2, <1>5
  <2>2. Len(todo) - 1 \in Nat /\ Len(todo) = (Len(todo) - 1) + 1
    BY <2>1
  <2>3. QED
    BY <2>2
<1>7. /\ todo' \in Seq(Inputs \cup Controls \cup Outputs \cup {Unknown})
      /\ DOMAIN todo' = 1..n /\ \A k \in 1..n : todo'[k] = todo[k + 1]
      /\ h = todo[1] /\ DOMAIN todo = 1..(n + 1)
  BY <1>1, <1>2, <1>5, <1>6
<1>8. \A o : (\E k \in DOMAIN todo : todo[k] = o) => o = h \/ \E k \in DOMAIN todo' : todo'[k] = o
  <2>1. SUFFICES ASSUME NEW k \in 1..(n + 1), todo[k] # h
                 PROVE  \E j \in DOMAIN todo' : todo'[j] = todo[k]
    BY <1>7
  <2>2. k # 1
    BY <1>7, <2>1
  <2>3. k - 1 \in 1..n /\ (k - 1) + 1 = k
    BY <2>1, <2>2
  <2>4. k - 1 \in DOMAIN todo' /\ todo'[k - 1] = todo[k]
    BY <1>7, <2>3
  <2>5. QED
    BY <2>4
<1>9. ASSUME NEW p \in InBatch
      PROVE  result'[p] = IF Receives(h, p)
                          THEN [o \in DOMAIN result[p] \cup {h} |->
                                  IF o = h THEN Read(o, p) ELSE result[p][o]]
                          ELSE result[p]
  BY <1>2, <1>4
<1>10. ASSUME NEW p \in InBatch PROVE DOMAIN result'[p] \subseteq Asked(p)
  <2>1. DOMAIN result[p] \subseteq Asked(p)
    BY <1>2, <1>3 DEF ResultInv
  <2>2. CASE Receives(h, p)
    <3>1. h \in Asked(p)
      BY <2>2 DEF Receives
    <3>2. DOMAIN result'[p] = DOMAIN result[p] \cup {h}
      BY <1>9, <2>2
    <3>3. QED
      BY <2>1, <3>1, <3>2
  <2>3. CASE ~Receives(h, p)
    BY <1>9, <2>1, <2>3
  <2>4. QED
    BY <2>2, <2>3
<1>11. ASSUME NEW p \in InBatch, status[p] = "ok", NEW o \in Asked(p) \cap Outputs
       PROVE  \/ \E k \in DOMAIN todo' : todo'[k] = o
              \/ o \in DOMAIN result'[p] /\ result'[p][o] = Read(o, p)
  <2>1. \/ \E k \in DOMAIN todo : todo[k] = o
        \/ o \in DOMAIN result[p] /\ result[p][o] = Read(o, p)
    BY <1>2, <1>3, <1>11 DEF ReadInv
  <2>2. CASE o = h
    <3>1. Receives(h, p)
      BY <1>11, <2>2 DEF Receives
    <3>2. h \in DOMAIN result'[p] /\ result'[p][h] = Read(h, p)
      BY <1>9, <3>1
    <3>3. QED
      BY <2>2, <3>2
  <2>3. CASE o # h /\ o \in DOMAIN result[p] /\ result[p][o] = Read(o, p)
    <3>1. o \in DOMAIN result'[p] /\ result'[p][o] = result[p][o]
      BY <1>9, <2>3
    <3>2. QED
      BY <2>3, <3>1
  <2>4. CASE o # h /\ \E k \in DOMAIN todo : todo[k] = o
    BY <1>8, <2>4
  <2>5. QED
    BY <2>1, <2>2, <2>3, <2>4
<1>12. phase' \in {"reading", "finishing"} /\ (phase' = "finishing" => DOMAIN todo' = {})
  <2>1. CASE Len(todo) = 1
    <3>1. n \in Nat /\ n + 1 = 1
      BY <1>6, <2>1
    <3>2. n = 0
      BY <3>1
    <3>3. QED
      BY <1>2, <1>7, <2>1, <3>2
  <2>2. CASE Len(todo) # 1
    BY <1>2, <2>2
  <2>3. QED
    BY <2>1, <2>2
<1>13. result' = [p \in Payloads |-> result'[p]]
  BY <1>2
<1>14. /\ TypeInv' /\ AdmissionInv' /\ FreshInv' /\ StartedInv' /\ OrderInv' /\ GatherInv'
       /\ ResultInv' /\ OwnResults' /\ ErrorsStayLocal'
  BY <1>2, <1>7, <1>10, <1>12, <1>13, ReadKeeps
<1>15. ReadInv'
  <2>1. SUFFICES ASSUME phase' = "reading", NEW p \in InBatch, status[p] = "ok"
                 PROVE  /\ ~Excused(p)' /\ request[p].via # "null" =>
                             \A o \in Outputs : (model.platform = "libtorch" => o = FirstOut) => OwnProduced(o, p)'
                        /\ \A o \in Asked(p) \cap Outputs :
                             \/ \E k \in DOMAIN todo' : todo'[k] = o
                             \/ o \in DOMAIN result'[p] /\ result'[p][o] = Read(o, p)'
    <3>1. InBatch' = InBatch /\ \A p : Asked(p)' = Asked(p)
      BY <1>2, SameBatch
    <3>2. QED
      BY <1>2, <2>1, <3>1 DEF ReadInv
  <2>2. /\ Excused(p)' = Excused(p)
        /\ \A o : OwnProduced(o, p)' = OwnProduced(o, p) /\ Read(o, p)' = Read(o, p)
    BY <1>2, ReadStays
  <2>3. ~Excused(p) /\ request[p].via # "null" =>
          \A o \in Outputs : (model.platform = "libtorch" => o = FirstOut) => OwnProduced(o, p)
    BY <1>2, <1>3, <2>1 DEF ReadInv
  <2>4. QED
    BY <1>11, <2>1, <2>2, <2>3
<1>16. FinishInv'
  <2>1. CASE phase' = "finishing"
    <3>1. \A p \in InBatch : status[p] = "ok" =>
            \A o \in Asked(p) \cap Outputs : o \in DOMAIN result'[p] /\ result'[p][o] = Read(o, p)
      BY <1>11, <1>12, <2>1
    <3>2. QED
      BY <1>2, <2>1, <3>1, ReadFinish
  <2>2. CASE phase' # "finishing"
    BY <2>2 DEF FinishInv
  <2>3. QED
    BY <2>1, <2>2
<1>17. QED
  BY <1>14, <1>15, <1>16 DEF IInv

\* A payload completes in error by its own fault or with the batch.
LEMMA CompletedError ==
    ASSUME IInv, phase = "finishing", NEW p \in InBatch,
           \/ status[p] # "ok"
           \/ verdict # "ok"
           \/ request[p].via # "null" /\ FinalizeResponse(p) # "ok"
    PROVE  OwnFault(p) \/ BatchFault
<1>1. FinishInv /\ ResultInv
  BY DEF IInv
<1>2. CASE status[p] # "ok" \/ verdict # "ok"
  BY <1>1, <1>2 DEF FinishInv
<1>3. CASE FinalizeResponse(p) # "ok"
  <2>1. PICK o \in DOMAIN result[p] :
          produced.outcome = "misshapen" \/ (request[p].asks[o] = "class" /\ IsString(model, o))
    BY <1>3 DEF FinalizeResponse
  <2>2. CASE produced.outcome = "misshapen"
    BY <2>2 DEF BatchFault
  <2>3. CASE request[p].asks[o] = "class" /\ IsString(model, o)
    <3>1. o \in Asked(p)
      BY <1>1, <2>1 DEF ResultInv
    <3>2. model.string /\ o \in Strings
      BY <2>3 DEF IsString
    <3>3. QED
      BY <2>3, <3>1, <3>2 DEF OwnFault
  <2>4. QED
    BY <2>1, <2>2, <2>3
<1>4. QED
  BY <1>2, <1>3

\* Completing keeps the invariant: a payload reports its own error, that of the
\* run, or that of its response.
LEMMA CompleteStep ==
    ASSUME IInv, Complete
    PROVE  IInv'
<1>1. /\ phase = "finishing" /\ phase' = "done"
      /\ model' = model /\ contexts' = contexts /\ request' = request /\ batch' = batch
      /\ provider' = provider /\ todo' = todo /\ tensors' = tensors /\ produced' = produced
      /\ result' = result /\ verdict' = verdict /\ fault' = fault
  BY DEF Complete
<1>2. status' = [p \in Payloads |->
       CASE p \notin InBatch \/ status[p] # "ok" -> status[p]
         [] p \in InBatch /\ status[p] = "ok" /\ verdict # "ok" -> verdict
         [] OTHER -> IF request[p].via = "null" THEN "ok" ELSE FinalizeResponse(p)]
  BY DEF Complete
<1>3. TypeInv /\ AdmissionInv /\ StartedInv /\ FinishInv
  BY DEF IInv
<1>4. InBatch \subseteq Payloads
  BY <1>3, BatchFacts DEF TypeInv
<1>5. /\ InBatch' = InBatch /\ \A p : OwnFault(p)' = OwnFault(p) /\ Asked(p)' = Asked(p)
      /\ \A o, p : OwnRows(o, p)' = OwnRows(o, p)
  BY <1>1, SameBatch, SameRows
<1>6. BatchFault => BatchFault'
  BY <1>1, FaultStays
<1>7. ASSUME NEW p \in Payloads
      PROVE  /\ p \notin InBatch \/ status[p] # "ok" => status'[p] = status[p]
             /\ p \in InBatch /\ status[p] = "ok" /\ verdict # "ok" => status'[p] = verdict
             /\ p \in InBatch /\ status[p] = "ok" /\ verdict = "ok" =>
                  status'[p] = IF request[p].via = "null" THEN "ok" ELSE FinalizeResponse(p)
  <2>1. status'[p] = CASE p \notin InBatch \/ status[p] # "ok" -> status[p]
                       [] p \in InBatch /\ status[p] = "ok" /\ verdict # "ok" -> verdict
                       [] OTHER -> IF request[p].via = "null" THEN "ok" ELSE FinalizeResponse(p)
    BY <1>2
  <2>2. QED
    BY <2>1
<1>8. TypeInv'
  <2>1. ASSUME NEW p \in Payloads
        PROVE  status'[p] \in {"new", "ok", "rejected", "invalid", "internal"}
    <3>1. status[p] \in {"new", "ok", "rejected", "invalid", "internal"}
      BY <1>3 DEF TypeInv
    <3>2. verdict \in {"ok", "internal"}
      BY <1>3 DEF TypeInv
    <3>3. FinalizeResponse(p) \in {"ok", "invalid"}
      BY DEF FinalizeResponse
    <3>4. QED
      BY <1>7, <3>1, <3>2, <3>3
  <2>2. status' = [p \in Payloads |-> status'[p]]
    BY <1>2
  <2>3. status' \in [Payloads -> {"new", "ok", "rejected", "invalid", "internal"}]
    BY <2>1, <2>2
  <2>4. QED
    BY <1>1, <1>3, <2>3 DEF TypeInv
<1>9. AdmissionInv'
  <2>1. \A p \in InBatch : Supplied(provider'[p], model, request[p], p)
    BY <1>1, <1>3 DEF AdmissionInv
  <2>2. QED
    BY <1>1, <1>3, <2>1, SameAdmission
<1>10. /\ FreshInv' /\ StartedInv' /\ OrderInv' /\ GatherInv' /\ ReadInv' /\ ResultInv'
       /\ FinishInv'
  BY <1>1 DEF FreshInv, StartedInv, OrderInv, GatherInv, ReadInv, ResultInv, FinishInv
<1>11. OwnResults'
  <2>1. SUFFICES ASSUME NEW p \in InBatch, status'[p] = "ok", ~Excused(p)'
                 PROVE  \A o \in Asked(p) \cap Outputs :
                          \/ o \in DOMAIN result[p] /\ result[p][o] = OwnRows(o, p)
                          \/ model.platform = "libtorch" /\ o # FirstOut
    BY <1>1, <1>5 DEF OwnResults
  <2>2. status[p] = "ok" /\ verdict = "ok"
    BY <1>4, <1>7, <2>1
  <2>3. \A q \in InBatch : InError(q) => InError(q)'
    <3>1. \A q \in InBatch : InError(q) => status[q] # "ok"
      BY DEF InError
    <3>2. \A q \in InBatch : status[q] # "ok" => status'[q] = status[q]
      BY <1>4, <1>7
    <3>3. QED
      BY <3>1, <3>2 DEF InError
  <2>4. ~Excused(p)
    BY <1>1, <2>1, <2>3, ExcusedStays
  <2>5. OwnResult(p)
    BY <1>1, <1>3, <2>2, <2>4 DEF FinishInv
  <2>6. QED
    BY <2>5 DEF OwnResult
<1>12. ErrorsStayLocal'
  <2>1. SUFFICES ASSUME NEW p \in InBatch, InError(p)'
                 PROVE  OwnFault(p) \/ BatchFault'
    BY <1>5 DEF ErrorsStayLocal
  <2>2. status'[p] # "ok" /\ p \in Payloads
    BY <1>4, <2>1 DEF InError
  <2>3. \/ status[p] # "ok"
        \/ verdict # "ok"
        \/ request[p].via # "null" /\ FinalizeResponse(p) # "ok"
    BY <1>7, <2>2
  <2>4. OwnFault(p) \/ BatchFault
    BY <1>1, <2>3, CompletedError
  <2>5. QED
    BY <1>6, <2>4
<1>13. QED
  BY <1>8, <1>9, <1>10, <1>11, <1>12 DEF IInv

\* A step that changes nothing keeps the invariant.
LEMMA Stutter ==
    ASSUME IInv, UNCHANGED vars
    PROVE  IInv'
<1>1. /\ model' = model /\ contexts' = contexts /\ phase' = phase /\ request' = request
      /\ batch' = batch /\ provider' = provider /\ status' = status /\ todo' = todo
      /\ tensors' = tensors /\ produced' = produced /\ result' = result
      /\ verdict' = verdict /\ fault' = fault
  BY DEF vars
<1>2. /\ TypeInv /\ AdmissionInv /\ FreshInv /\ StartedInv /\ OrderInv /\ GatherInv
      /\ ReadInv /\ ResultInv /\ FinishInv /\ OwnResults /\ ErrorsStayLocal
  BY DEF IInv
<1>3. /\ InBatch' = InBatch /\ Total' = Total
      /\ \A p : OwnFault(p)' = OwnFault(p) /\ Asked(p)' = Asked(p) /\ Regular(p)' = Regular(p)
      /\ \A o, p : OwnRows(o, p)' = OwnRows(o, p)
      /\ \A rows, i, p : OwnTensor(rows, i, p)' = OwnTensor(rows, i, p)
  BY <1>1, SameBatch, SameRows
<1>4. \A p : InError(p)' = InError(p)
  BY <1>1 DEF InError
<1>5. BatchFault' = BatchFault
  <2>1. Regular(Representative)' = Regular(Representative) /\ Regular(batch[1])' = Regular(batch[1])
    BY <1>1, SameBatch DEF Regular, Named
  <2>2. SequenceControls(model)' = SequenceControls(model) /\ IsTf(model)' = IsTf(model)
        /\ RequiredOutputs' = RequiredOutputs
    BY <1>1, SameBatch DEF SequenceControls, IsTf
  <2>3. QED
    BY <1>1, <1>3, <2>1, <2>2 DEF BatchFault
<1>6. \A o, p : /\ Read(o, p)' = Read(o, p) /\ OwnProduced(o, p)' = OwnProduced(o, p)
                /\ Excused(p)' = Excused(p)
  BY <1>1, ReadStays
<1>7. InputOrder' = InputOrder /\ Distinct(InputOrder)' = Distinct(InputOrder) /\ Fed' = Fed
  <2>1. InputOrder' = InputOrder
    BY <1>1, <1>2, ModelFacts, OrderStays DEF TypeInv
  <2>2. QED
    BY <1>1, <2>1 DEF Distinct, Fed
<1>8. TypeInv'
  BY <1>1, <1>2 DEF TypeInv
<1>9. AdmissionInv'
  BY <1>1, <1>2, SameAdmission DEF AdmissionInv
<1>10. FreshInv'
  BY <1>1, <1>2, <1>3 DEF FreshInv
<1>11. StartedInv' /\ ResultInv'
  BY <1>1, <1>2, <1>3 DEF StartedInv, ResultInv
<1>12. OrderInv'
  <2>1. Spent' = Spent
    BY <1>1, <1>3, <1>7 DEF Spent
  <2>2. QED
    BY <1>1, <1>2, <1>7, <2>1 DEF OrderInv
<1>13. GatherInv'
  BY <1>1, <1>2, <1>3, <1>6, <1>7 DEF GatherInv
<1>14. ReadInv'
  BY <1>1, <1>2, <1>3, <1>6 DEF ReadInv
<1>15. FinishInv'
  <2>1. \A p : OwnResult(p)' = OwnResult(p)
    BY <1>1, <1>3 DEF OwnResult
  <2>2. QED
    BY <1>1, <1>2, <1>3, <1>5, <1>6, <2>1 DEF FinishInv
<1>16. OwnResults' /\ ErrorsStayLocal'
  BY <1>1, <1>2, <1>3, <1>4, <1>5, <1>6 DEF OwnResults, ErrorsStayLocal
<1>17. QED
  BY <1>8, <1>9, <1>10, <1>11, <1>12, <1>13, <1>14, <1>15, <1>16 DEF IInv

(***************************************************************************)
(* The theorems.                                                           *)
(***************************************************************************)

\* Every action of a batch keeps the invariant.
LEMMA Step == IInv /\ [Next]_vars => IInv'
<1>1. SUFFICES ASSUME IInv, [Next]_vars PROVE IInv'
  OBVIOUS
<1>2. CASE CreateExecutionContexts
  BY <1>1, <1>2, LoadStep
<1>3. CASE \E p \in Payloads : Admit(p)
  BY <1>1, <1>3, AdmitStep
<1>4. CASE Start
  BY <1>1, <1>4, StartStep
<1>5. CASE SetInput
  BY <1>1, <1>5, SetInputStep
<1>6. CASE SetInputUnsized
  BY <1>1, <1>6, SetInputUnsizedStep
<1>7. CASE \E outcome \in Outcomes : Execute(outcome)
  BY <1>1, <1>7, ExecuteStep
<1>8. CASE \E outcome \in Outcomes : ExecuteCustom(outcome)
  BY <1>1, <1>8, ExecuteCustomStep
<1>9. CASE ReadOutput
  BY <1>1, <1>9, ReadOutputStep
<1>10. CASE ReadNothing
  BY <1>1, <1>10, ReadNothingStep
<1>11. CASE Complete
  BY <1>1, <1>11, CompleteStep
<1>12. CASE UNCHANGED vars
  BY <1>1, <1>12, Stutter
<1>13. QED
  BY <1>1, <1>2, <1>3, <1>4, <1>5, <1>6, <1>7, <1>8, <1>9, <1>10, <1>11, <1>12 DEF Next

\* The inductive invariant holds of every execution of a batch: while inputs
\* are gathered every payload without an error lies at its place, while
\* outputs are read what lies at its place is its own, and an error is its own
\* or the batch's.
THEOREM Invariance == Spec => []IInv
<1>1. Init => IInv
  BY InitialState
<1>2. IInv /\ [Next]_vars => IInv'
  BY Step
<1>3. QED
  BY <1>1, <1>2, PTL DEF Spec

\* The variables stay in their types, and only admitted payloads are in the
\* batch.
THEOREM Typing == Spec => []TypeOK
<1>1. IInv => TypeOK
  <2>1. SUFFICES ASSUME TypeInv, AdmissionInv PROVE TypeOK
    BY DEF IInv
  <2>2. InBatch \subseteq Payloads
    BY <2>1, BatchFacts
  <2>3. QED
    BY <2>1, <2>2 DEF TypeInv, TypeOK
<1>2. QED
  BY <1>1, Invariance, PTL

\* A request that succeeds gets the model's results for its own inputs,
\* whatever the backend, the sizes of the payloads and the errors of the
\* others, but for the deviations in Excused: the offsets at which the
\* backends' SetInput... and ReadOutput... functions write and read a payload
\* agree.
THEOREM ResultsAreOwn == Spec => []OwnResults
<1>1. IInv => OwnResults
  BY DEF IInv
<1>2. QED
  BY <1>1, Invariance, PTL

\* A request fails only by its own fault or with the whole batch, by what
\* BatchFault names: what else the backends' Run functions record in a payload's
\* status_ is that payload's own.
THEOREM ErrorsAreLocal == Spec => []ErrorsStayLocal
<1>1. IInv => ErrorsStayLocal
  BY DEF IInv
<1>2. QED
  BY <1>1, Invariance, PTL
=============================================================================
