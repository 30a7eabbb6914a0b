------------------------ MODULE QingStorWriter_proofs ------------------------
(***************************************************************************)
(* Safety of the upload side, for any size of the buffer, any lengths and  *)
(* numbers of writes and any way for requests to fail: what is taken is    *)
(* what was written (FInv).  And, for requests that carry their whole      *)
(* bodies, that the store ends up with exactly that (UInv), so that the    *)
(* writer implements ObjectUpload; with bodies that attempts have eaten    *)
(* into, that it is a selection of what was taken (RInv).                  *)
(***************************************************************************)
EXTENDS QingStorWriter, FiniteSetTheorems, SequenceTheorems, WellFoundedInduction, TLAPS

-----------------------------------------------------------------------------
(* Least counterexamples *)

LEMMA LeastOf ==
  ASSUME NEW S, S \subseteq Nat, S # {}
  PROVE  \E n \in S : \A m \in S : n <= m
<1> DEFINE R == {ss \in Nat \X Nat : ss[1] < ss[2]}
<1>1. IsWellFoundedOn(R, Nat)
  BY NatLessThanWellFounded DEF OpToRel
<1>2. \A x, y \in Nat : y < x => <<y, x>> \in R
  OBVIOUS
<1> HIDE DEF R
<1>3. PICK n \in S : \A m \in S : ~ (<<m, n>> \in R)
  BY <1>1, WFMin
<1>4. \A m \in S : n <= m
  <2> SUFFICES ASSUME NEW m \in S PROVE ~ (m < n)
    OBVIOUS
  <2> QED
    BY <1>2, <1>3
<1> QED
  BY <1>4

(* f assembles the parts up to n.                                          *)
Assembles(f, parts, n) ==
  /\ f = [i \in 0 .. n |-> f[i]]
  /\ f[0] = <<>>
  /\ \A i \in 0 .. n - 1 : f[i + 1] = f[i] \o parts[i]

LEMMA AssemblyUnique ==
  ASSUME NEW parts, NEW n \in Nat, NEW m \in n .. n + 1, NEW f, NEW g,
         Assembles(f, parts, n), Assembles(g, parts, m)
  PROVE  \A i \in 0 .. n : f[i] = g[i]
<1> DEFINE Bad == {i \in 0 .. n : f[i] # g[i]}
<1>1. SUFFICES ASSUME Bad # {} PROVE FALSE
  OBVIOUS
<1>2. PICK i \in Bad : \A j \in Bad : i <= j
  <2>1. Bad \subseteq Nat
    OBVIOUS
  <2> HIDE DEF Bad
  <2> QED
    BY <1>1, <2>1, LeastOf
<1>3. i # 0
  BY DEF Assembles
<1>4. i - 1 \in 0 .. n - 1 /\ i - 1 \in 0 .. m - 1 /\ (i - 1) + 1 = i /\ f[i - 1] = g[i - 1]
  <2>1. i - 1 \in 0 .. n /\ i - 1 \notin Bad /\ i \in 1 .. n
    BY <1>2, <1>3
  <2> QED
    BY <2>1
<1>5. f[i] = f[i - 1] \o parts[i - 1] /\ g[i] = g[i - 1] \o parts[i - 1]
  BY <1>4 DEF Assembles
<1> QED
  BY <1>4, <1>5

LEMMA AssemblyExists ==
  ASSUME NEW parts, NEW n \in Nat
  PROVE  \E f : Assembles(f, parts, n)
<1> DEFINE Bad == {i \in Nat : ~ \E f : Assembles(f, parts, i)}
<1>1. SUFFICES ASSUME Bad # {} PROVE FALSE
  OBVIOUS
<1>2. PICK i \in Bad : \A j \in Bad : i <= j
  <2>1. Bad \subseteq Nat
    OBVIOUS
  <2> HIDE DEF Bad
  <2> QED
    BY <1>1, <2>1, LeastOf
<1>3. CASE i = 0
  <2> DEFINE f == [j \in 0 .. 0 |-> <<>>]
  <2>1. Assembles(f, parts, 0)
    BY DEF Assembles
  <2> QED
    BY <1>2, <1>3, <2>1
<1>4. CASE i # 0
  <2>1. i - 1 \in Nat /\ i - 1 \notin Bad
    BY <1>2, <1>4
  <2>2. PICK g : Assembles(g, parts, i - 1)
    BY <2>1
  <2> DEFINE f == [j \in 0 .. i |-> IF j = i THEN g[i - 1] \o parts[i - 1] ELSE g[j]]
  <2>3. f = [j \in 0 .. i |-> f[j]]
    OBVIOUS
  <2>4. f[0] = <<>>
    BY <1>2, <1>4, <2>2 DEF Assembles
  <2>5. \A j \in 0 .. i - 1 : f[j + 1] = f[j] \o parts[j]
    <3> SUFFICES ASSUME NEW j \in 0 .. i - 1 PROVE f[j + 1] = f[j] \o parts[j]
      OBVIOUS
    <3>1. f[j] = g[j] /\ j + 1 \in 0 .. i
      BY <1>2, <1>4
    <3>2. CASE j = i - 1
      BY <1>2, <3>1, <3>2
    <3>3. CASE j # i - 1
      <4>1. j \in 0 .. (i - 1) - 1 /\ j + 1 # i
        BY <1>2, <3>3
      <4> QED
        BY <2>2, <3>1, <4>1 DEF Assembles
    <3> QED
      BY <3>2, <3>3
  <2>6. Assembles(f, parts, i)
    BY <2>3, <2>4, <2>5 DEF Assembles
  <2> QED
    BY <1>2, <2>6
<1> QED
  BY <1>3, <1>4

(* The recursion that defines Assembled has a solution.                    *)
LEMMA AssembledParts ==
  ASSUME NEW parts
  PROVE  /\ Assembled(parts, 0) = <<>>
         /\ \A n \in Nat : Assembled(parts, n + 1) = Assembled(parts, n) \o parts[n]
<1> DEFINE Solves(f) ==
             f = [i \in Nat |-> IF i = 0 THEN <<>> ELSE f[i - 1] \o parts[i - 1]]
           Prefix(n) == CHOOSE f : Assembles(f, parts, n)
           all == [n \in Nat |-> Prefix(n)[n]]
<1>1. \A n \in Nat : Assembles(Prefix(n), parts, n)
  BY AssemblyExists
<1>2. \A n \in Nat : Prefix(n + 1)[n] = Prefix(n)[n]
  <2> SUFFICES ASSUME NEW n \in Nat PROVE Prefix(n + 1)[n] = Prefix(n)[n]
    OBVIOUS
  <2>1. Assembles(Prefix(n), parts, n) /\ Assembles(Prefix(n + 1), parts, n + 1)
    BY <1>1
  <2> HIDE DEF Prefix
  <2>2. n \in 0 .. n /\ n + 1 \in n .. n + 1
    OBVIOUS
  <2> QED
    BY <2>1, <2>2, AssemblyUnique
<1> HIDE DEF Prefix
<1>3. all[0] = <<>>
  BY <1>1 DEF Assembles
<1>4. \A n \in Nat : all[n + 1] = all[n] \o parts[n]
  <2> SUFFICES ASSUME NEW n \in Nat PROVE all[n + 1] = all[n] \o parts[n]
    OBVIOUS
  <2>1. Assembles(Prefix(n + 1), parts, n + 1) /\ n + 1 \in Nat /\ n \in 0 .. (n + 1) - 1
    BY <1>1
  <2>2. Prefix(n + 1)[n + 1] = Prefix(n + 1)[n] \o parts[n]
    BY <2>1 DEF Assembles
  <2> QED
    BY <1>2, <2>1, <2>2
<1>5. Solves(all)
  <2>1. \A n \in Nat : all[n] = IF n = 0 THEN <<>> ELSE all[n - 1] \o parts[n - 1]
    <3> SUFFICES ASSUME NEW n \in Nat, n # 0 PROVE all[n] = all[n - 1] \o parts[n - 1]
      BY <1>3
    <3>1. n - 1 \in Nat /\ (n - 1) + 1 = n
      OBVIOUS
    <3> HIDE DEF all
    <3> QED
      BY <1>4, <3>1
  <2> QED
    BY <2>1
<1> HIDE DEF all
<1> DEFINE solution == CHOOSE f : Solves(f)
<1>6. Solves(solution)
  <2> HIDE DEF Solves
  <2> QED
    BY <1>5
<1>7. \A n : Assembled(parts, n) = solution[n]
  BY DEF Assembled
<1> HIDE DEF solution
<1>8. solution[0] = <<>> /\ \A n \in Nat : solution[n + 1] = solution[n] \o parts[n]
  <2>1. \A n \in Nat : n + 1 \in Nat /\ n + 1 # 0 /\ (n + 1) - 1 = n
    OBVIOUS
  <2> QED
    BY <1>6, <2>1
<1> QED
  BY <1>7, <1>8

-----------------------------------------------------------------------------
(* Sequences of bytes *)

Increasing(s) == \A i, j \in 1 .. Len(s) : i < j => s[i] < s[j]

(* A stretch of consecutive bytes put behind earlier ones.                 *)
LEMMA Lengthened ==
  ASSUME NEW s \in Seq(Nat), NEW t \in Seq(Nat), NEW b \in Nat, Increasing(s),
         \A i \in 1 .. Len(s) : s[i] <= b,
         \A k \in 1 .. Len(t) : t[k] = b + k
  PROVE  /\ s \o t \in Seq(Nat) /\ Increasing(s \o t)
         /\ \A i \in 1 .. Len(s \o t) : (s \o t)[i] <= b + Len(t)
         /\ ToSet(s) \subseteq ToSet(s \o t)
         /\ \A k \in 1 .. Len(t) : t[k] \in ToSet(s \o t)
<1> DEFINE r == s \o t
<1>1. Len(s) \in Nat /\ Len(t) \in Nat
  OBVIOUS
<1>2. /\ r \in Seq(Nat) /\ Len(r) = Len(s) + Len(t)
      /\ \A i \in 1 .. Len(r) : r[i] = IF i <= Len(s) THEN s[i] ELSE t[i - Len(s)]
  BY ConcatProperties
<1> HIDE DEF r
<1>3. \A i \in 1 .. Len(s) : i \in 1 .. Len(r) /\ r[i] = s[i]
  BY <1>1, <1>2
<1>4. \A i \in Len(s) + 1 .. Len(r) : r[i] = b + (i - Len(s)) /\ r[i] = t[i - Len(s)]
  <2> SUFFICES ASSUME NEW i \in Len(s) + 1 .. Len(r)
               PROVE  r[i] = b + (i - Len(s)) /\ r[i] = t[i - Len(s)]
    OBVIOUS
  <2>1. i - Len(s) \in 1 .. Len(t) /\ i \in 1 .. Len(r) /\ ~ (i <= Len(s))
    BY <1>1, <1>2
  <2> QED
    BY <1>2, <2>1
<1>5. \A i \in 1 .. Len(r) : r[i] <= b + Len(t)
  <2> SUFFICES ASSUME NEW i \in 1 .. Len(r) PROVE r[i] <= b + Len(t)
    OBVIOUS
  <2>1. CASE i <= Len(s)
    <3>1. r[i] = s[i] /\ s[i] \in Nat /\ s[i] <= b
      BY <1>1, <1>3, <2>1
    <3> QED
      BY <1>1, <3>1
  <2>2. CASE i > Len(s)
    <3>1. i \in Len(s) + 1 .. Len(r) /\ i - Len(s) <= Len(t) /\ i - Len(s) \in Nat
      BY <1>1, <1>2, <2>2
    <3> QED
      BY <1>1, <1>4, <3>1
  <2> QED
    BY <1>1, <2>1, <2>2
<1>6. Increasing(r)
  <2> SUFFICES ASSUME NEW i \in 1 .. Len(r), NEW j \in 1 .. Len(r), i < j
               PROVE  r[i] < r[j]
    BY DEF Increasing
  <2>1. CASE j <= Len(s)
    BY <1>1, <1>3, <2>1, SMTT(60) DEF Increasing
  <2>2. CASE i > Len(s)
    <3>1. /\ i \in Len(s) + 1 .. Len(r) /\ j \in Len(s) + 1 .. Len(r)
          /\ i - Len(s) \in Nat /\ j - Len(s) \in Nat /\ i - Len(s) < j - Len(s)
      BY <1>1, <1>2, <2>2
    <3> QED
      BY <1>4, <3>1
  <2>3. CASE i <= Len(s) /\ j > Len(s)
    <3>1. r[i] = s[i] /\ s[i] \in Nat /\ s[i] <= b
      BY <1>1, <1>3, <2>3
    <3>2. r[j] = b + (j - Len(s)) /\ j - Len(s) \in Nat \ {0}
      <4>1. j \in Len(s) + 1 .. Len(r) /\ j - Len(s) \in Nat \ {0}
        BY <1>1, <1>2, <2>3
      <4> QED
        BY <1>4, <4>1
    <3> QED
      BY <3>1, <3>2
  <2> QED
    BY <1>1, <2>1, <2>2, <2>3
<1>7. /\ \A i \in 1 .. Len(r) : r[i] \in ToSet(r)
      /\ ToSet(s) \subseteq ToSet(r)
  <2>1. \A i \in 1 .. Len(r) : r[i] \in ToSet(r)
    <3>1. r \in Seq(Nat)
      BY <1>2
    <3> QED
      BY <3>1 DEF ToSet
  <2>2. \A k \in ToSet(s) : \E i \in 1 .. Len(s) : s[i] = k
    BY DEF ToSet
  <2> QED
    BY <1>3, <2>1, <2>2
<1>8. \A k \in 1 .. Len(t) : t[k] \in ToSet(r)
  <2> SUFFICES ASSUME NEW k \in 1 .. Len(t) PROVE t[k] \in ToSet(r)
    OBVIOUS
  <2>1. Len(s) + k \in Len(s) + 1 .. Len(r) /\ (Len(s) + k) - Len(s) = k
    BY <1>1, <1>2
  <2>2. r[Len(s) + k] = t[k] /\ Len(s) + k \in 1 .. Len(r)
    BY <1>1, <1>4, <2>1
  <2> QED
    BY <1>7, <2>2
<1> QED
  BY <1>2, <1>5, <1>6, <1>7, <1>8 DEF r

LEMMA ToSetConcat ==
  ASSUME NEW s \in Seq(Nat), NEW t \in Seq(Nat)
  PROVE  ToSet(s \o t) = ToSet(s) \cup ToSet(t)
<1>1. ToSet(s) = Range(s) /\ ToSet(t) = Range(t) /\ ToSet(s \o t) = Range(s \o t)
  BY DEF ToSet, Range
<1> QED
  BY <1>1, RangeConcatenation

LEMMA ConcatBytes ==
  ASSUME NEW r \in Seq(Nat), NEW s \in Seq(Nat), NEW t \in Seq(Nat)
  PROVE  (r \o s) \o t = r \o (s \o t)
  BY ConcatAssociative, SMTT(60)

LEMMA PartListType ==
  ASSUME NEW n \in Nat
  PROVE  PartList(n) \in Seq(Nat)
  BY DEF PartList

-----------------------------------------------------------------------------
(* The bytes on their way into the writer *)

(* The argument of the call that is being served is the last stretch of    *)
(* the bytes given; its first buffPos bytes have been taken.               *)
Argument ==
  /\ pc = "idle" \/ api # "write" => buffer = <<>> /\ buffPos = 0
  /\ pc = "fill" => mCache
  /\ ~ mCache => buffPos = 0
  /\ Len(buffer) <= given
  /\ \A k \in 1 .. Len(buffer) : buffer[k] = given - Len(buffer) + k

Taken ==
  /\ Increasing(taken)
  /\ \A i \in 1 .. Len(taken) : taken[i] <= given - Len(buffer) + buffPos
  /\ \A k \in 1 .. buffPos : buffer[k] \in ToSet(taken)
  /\ ToSet(accepted) \subseteq ToSet(taken)

FInv == TypeOK /\ Argument /\ Taken

LEMMA CopiedProperties ==
  ASSUME FInv, pc = "fill"
  PROVE  /\ CopyLen \in 0 .. Len(buffer) - buffPos
         /\ Len(mBuffer) + CopyLen <= mBuffSize
         /\ Copied \in Seq(Nat) /\ Len(Copied) = CopyLen
         /\ \A k \in 1 .. CopyLen :
              /\ buffPos + k \in 1 .. Len(buffer)
              /\ Copied[k] = buffer[buffPos + k]
              /\ Copied[k] = given - Len(buffer) + buffPos + k
<1>1. /\ mBuffSize \in Nat \ {0} /\ mBuffer \in Seq(Nat) /\ Len(mBuffer) <= mBuffSize
      /\ buffer \in Seq(Nat) /\ buffPos \in 0 .. Len(buffer) /\ given \in Nat
      /\ \A k \in 1 .. Len(buffer) : buffer[k] = given - Len(buffer) + k
  BY WriterAssumption DEF FInv, TypeOK, Argument
<1>2. Len(mBuffer) \in Nat /\ Len(buffer) \in Nat
  BY <1>1
<1>3. CopyLen \in 0 .. Len(buffer) - buffPos /\ CopyLen <= mBuffSize - Len(mBuffer)
  BY <1>1, <1>2 DEF CopyLen, Room
<1> DEFINE n == CopyLen
<1> HIDE DEF n
<1>4. n \in Nat /\ n <= Len(buffer) - buffPos /\ n <= mBuffSize - Len(mBuffer)
  BY <1>1, <1>2, <1>3 DEF n
<1>5. \A i \in buffPos + 1 .. buffPos + n : buffer[i] \in Nat
  BY <1>1, <1>2, <1>4
<1>6. buffPos + 1 \in Int /\ buffPos + n \in Int
  BY <1>1, <1>4
<1>7. /\ Copied \in Seq(Nat)
      /\ Len(Copied) = IF buffPos + 1 <= buffPos + n THEN (buffPos + n) - (buffPos + 1) + 1 ELSE 0
      /\ \A k \in 1 .. (buffPos + n) - (buffPos + 1) + 1 :
           Copied[k] = buffer[(buffPos + 1) + k - 1]
  BY <1>5, <1>6, SubSeqProperties DEF Copied, n
<1>8. Len(Copied) = n
  BY <1>1, <1>4, <1>7
<1>9. ASSUME NEW k \in 1 .. n
      PROVE  /\ buffPos + k \in 1 .. Len(buffer) /\ Copied[k] = buffer[buffPos + k]
             /\ Copied[k] = given - Len(buffer) + buffPos + k
  <2>1. /\ (buffPos + n) - (buffPos + 1) + 1 = n /\ (buffPos + 1) + k - 1 = buffPos + k
        /\ buffPos + k \in 1 .. Len(buffer)
        /\ given - Len(buffer) + (buffPos + k) = given - Len(buffer) + buffPos + k
    BY <1>1, <1>2, <1>4
  <2> QED
    BY <1>1, <1>7, <2>1
<1> QED
  BY <1>1, <1>2, <1>3, <1>7, <1>8, <1>9 DEF n

-----------------------------------------------------------------------------
(* The steps, one by one *)

(* What a turn of DoGetJSON's loop leaves alone, and what it may change.   *)
LEMMA AttemptFrame ==
  ASSUME TypeOK, Attempt
  PROVE  /\ pc = "request" /\ pc' \in {"request", "reply"}
         /\ md' \in Seq(Nat)
         /\ failing' \in Nat /\ (failing' = 0 \/ failing' < retries)
         /\ reply' \in {"ok", "badjson", "throw"}
         /\ UNCHANGED <<handle, mCache, mBuffer, mPartNum, mCanceled, api, op, buffer,
                        buffPos, result, given, taken, accepted, cancels>>
<1>1. md \in Seq(Nat) /\ failing \in Nat /\ retries \in Nat /\ (failing = 0 \/ failing < retries)
      /\ reply \in {"ok", "badjson", "throw"} /\ pc = "request"
  BY WriterAssumption DEF TypeOK, Attempt
<1>2. \A k \in 0 .. Len(md) : Consume(k) => md' \in Seq(Nat)
  <2> SUFFICES ASSUME NEW k \in 0 .. Len(md) PROVE SubSeq(md, k + 1, Len(md)) \in Seq(Nat)
    BY DEF Consume
  <2>1. k + 1 \in Int /\ Len(md) \in Int /\ \A i \in k + 1 .. Len(md) : md[i] \in Nat
    BY <1>1
  <2> QED
    BY <2>1, SubSeqProperties
<1>3. 1 .. Len(md) \subseteq 0 .. Len(md) /\ Len(md) \in 0 .. Len(md)
  BY <1>1
<1>4. md' \in Seq(Nat)
  BY <1>1, <1>2, <1>3 DEF Attempt, AttemptOk, AttemptRefused, AttemptBroken
<1>5. \A o \in {"ok", "badjson", "throw"} :
        Conclude(o) => /\ pc' \in {"request", "reply"}
                       /\ failing' \in Nat /\ (failing' = 0 \/ failing' < retries)
                       /\ reply' \in {"ok", "badjson", "throw"}
  BY <1>1 DEF Conclude
<1>6. \A body : Outcome(body) \in {"ok", "badjson", "throw"}
  BY DEF Outcome
<1>7. PICK o \in {"ok", "badjson", "throw"} : Conclude(o)
  BY <1>6 DEF Attempt, AttemptOk, AttemptRefused, AttemptBroken
<1> QED
  BY <1>1, <1>4, <1>5, <1>7 DEF Attempt, writer, ghosts

LEMMA WriteStep ==
  ASSUME FInv, NEW n \in WriteSizes, Write(n)
  PROVE  /\ FInv' /\ buffer' \in Seq(Nat) /\ Len(buffer') = n
<1>1. /\ n \in Nat \ {0} /\ given \in Nat /\ given + n <= MaxBytes /\ MaxBytes \in Nat
      /\ buffer' = [k \in 1 .. n |-> given + k] /\ given' = given + n
  BY WriterAssumption DEF FInv, TypeOK, Write
<1>2. /\ buffer' \in Seq(Nat) /\ Len(buffer') = n
      /\ \A k \in 1 .. n : buffer'[k] = given + k
  BY <1>1
<1>3. /\ buffPos = 0 /\ buffPos' = 0 /\ Len(buffer) = 0 /\ api' = "write"
      /\ pc' = IF mCache THEN "fill" ELSE "request"
      /\ UNCHANGED <<taken, accepted, mCache>>
  BY DEF FInv, Argument, Write, Request, writer
<1>4. TypeOK'
  <2>1. md' \in Seq(Nat) /\ failing' \in Nat /\ (failing' = 0 \/ failing' < retries)
        /\ op' \in {"none", "init", "upload", "complete", "abort"}
    <3>1. CASE mCache
      BY <3>1 DEF FInv, TypeOK, Write
    <3>2. CASE ~ mCache
      <4>1. op' = "upload" /\ md' = buffer' /\ failing' = 0
        BY <3>2 DEF Write, Request
      <4> QED
        BY <1>2, <4>1
    <3> QED
      BY <3>1, <3>2
  <2>2. given' \in 0 .. MaxBytes /\ buffPos' \in 0 .. Len(buffer')
    BY <1>1, <1>2, <1>3
  <2>3. /\ UNCHANGED <<handle, mCache, mBuffer, mPartNum, mCanceled, reply, result, taken,
                      accepted, cancels>>
        /\ pc' \in {"fill", "request"} /\ api' = "write"
    BY <1>3 DEF Write, writer
  <2> QED
    BY <1>2, <2>1, <2>2, <2>3 DEF FInv, TypeOK
<1>5. Argument'
  <2>1. given' - Len(buffer') = given /\ Len(buffer') <= given'
    BY <1>1, <1>2
  <2> QED
    BY <1>2, <1>3, <2>1 DEF FInv, TypeOK, Argument
<1>6. Taken'
  <2>1. given' - Len(buffer') + buffPos' = given - Len(buffer) + buffPos
    BY <1>1, <1>2, <1>3
  <2> QED
    BY <1>3, <2>1 DEF FInv, Taken
<1> QED
  BY <1>2, <1>4, <1>5, <1>6 DEF FInv

LEMMA FillStep ==
  ASSUME FInv, Fill
  PROVE  FInv'
<1> DEFINE n == CopyLen
           c == Copied
           b == given - Len(buffer) + buffPos
<1>1. /\ mBuffSize \in Nat \ {0} /\ mBuffer \in Seq(Nat) /\ taken \in Seq(Nat) /\ given \in Nat
      /\ buffer \in Seq(Nat) /\ buffPos \in 0 .. Len(buffer) /\ Len(buffer) <= given
      /\ mCache /\ pc = "fill" /\ Len(buffer) \in Nat /\ Len(mBuffer) \in Nat /\ api = "write"
  BY WriterAssumption, LenProperties DEF FInv, TypeOK, Argument, Fill
<1>2. /\ n \in 0 .. Len(buffer) - buffPos /\ Len(mBuffer) + n <= mBuffSize
      /\ c \in Seq(Nat) /\ Len(c) = n
      /\ \A k \in 1 .. n : /\ buffPos + k \in 1 .. Len(buffer)
                           /\ c[k] = buffer[buffPos + k] /\ c[k] = b + k
  BY <1>1, CopiedProperties
<1>3. /\ mBuffer' = mBuffer \o c /\ taken' = taken \o c /\ buffPos' = buffPos + n
      /\ UNCHANGED <<handle, mCache, mPartNum, mCanceled, api, buffer, reply, result, given,
                     accepted, cancels>>
      /\ IF Len(mBuffer') = mBuffSize THEN Request("upload", mBuffer')
         ELSE UNCHANGED <<pc, op, md, failing>>
  BY DEF Fill
<1> HIDE DEF n, c
<1>4. mBuffer' \in Seq(Nat) /\ Len(mBuffer') = Len(mBuffer) + n
  BY <1>1, <1>2, <1>3, ConcatProperties
<1>5. b \in Nat
  BY <1>1
<1>6. given' - Len(buffer') + buffPos' = b + n /\ buffPos' \in 0 .. Len(buffer')
  BY <1>1, <1>2, <1>3
<1> HIDE DEF b
<1>7. /\ taken' \in Seq(Nat) /\ Increasing(taken')
      /\ \A i \in 1 .. Len(taken') : taken'[i] <= b + n
      /\ ToSet(taken) \subseteq ToSet(taken')
      /\ \A k \in 1 .. n : c[k] \in ToSet(taken')
  <2>1. Increasing(taken) /\ \A i \in 1 .. Len(taken) : taken[i] <= b
    BY DEF FInv, Taken, b
  <2> QED
    BY <1>1, <1>2, <1>3, <1>5, <2>1, Lengthened
<1>8. TypeOK'
  <2>1. /\ pc' \in {"fill", "request"} /\ op' \in {"none", "init", "upload", "complete", "abort"}
        /\ md' \in Seq(Nat) /\ failing' \in Nat /\ (failing' = 0 \/ failing' < retries)
    <3>1. CASE Len(mBuffer') = mBuffSize
      <4>1. pc' = "request" /\ op' = "upload" /\ md' = mBuffer' /\ failing' = 0
        BY <1>3, <3>1 DEF Request
      <4> QED
        BY <1>4, <4>1
    <3>2. CASE Len(mBuffer') # mBuffSize
      BY <1>1, <1>3, <3>2 DEF FInv, TypeOK
    <3> QED
      BY <3>1, <3>2
  <2>2. Len(mBuffer') <= (IF mCache' THEN mBuffSize ELSE 0)
    BY <1>1, <1>2, <1>3, <1>4
  <2> QED
    BY <1>3, <1>4, <1>6, <1>7, <2>1, <2>2 DEF FInv, TypeOK
<1>9. Argument'
  <2>1. pc' \in {"fill", "request"} /\ api' = "write" /\ mCache'
    BY <1>1, <1>3 DEF Request
  <2> QED
    BY <1>3, <2>1 DEF FInv, Argument
<1>10. Taken'
  <2>1. \A k \in 1 .. buffPos' : buffer'[k] \in ToSet(taken')
    <3> SUFFICES ASSUME NEW k \in 1 .. buffPos + n PROVE buffer[k] \in ToSet(taken')
      BY <1>3
    <3>1. CASE k <= buffPos
      BY <1>1, <1>7, <3>1 DEF FInv, Taken
    <3>2. CASE k > buffPos
      <4>1. k - buffPos \in 1 .. n /\ buffPos + (k - buffPos) = k
        BY <1>1, <1>2, <3>2
      <4>2. c[k - buffPos] = buffer[k]
        BY <1>2, <4>1
      <4> QED
        BY <1>7, <4>1, <4>2
    <3> QED
      BY <1>1, <1>2, <3>1, <3>2
  <2> QED
    BY <1>3, <1>6, <1>7, <2>1 DEF FInv, Taken
<1> QED
  BY <1>8, <1>9, <1>10 DEF FInv

(* A call ends: the bytes of its argument that were not taken are gone.    *)
LEMMA ReturnStep ==
  ASSUME FInv, NEW r, Return(r), UNCHANGED <<given, mCache>>,
         UNCHANGED taken, ToSet(accepted') \subseteq ToSet(taken)
  PROVE  Argument' /\ Taken'
<1>1. /\ buffer' = <<>> /\ buffPos' = 0 /\ pc' = "idle" /\ api' = "none"
      /\ Len(buffer') = 0
  BY DEF Return
<1>2. given \in Nat /\ Len(buffer) \in Nat /\ buffPos \in 0 .. Len(buffer) /\ taken \in Seq(Nat)
      /\ Len(buffer) <= given
  BY WriterAssumption DEF FInv, TypeOK, Argument
<1>3. Argument'
  BY <1>1, <1>2 DEF Argument
<1>4. \A i \in 1 .. Len(taken) : taken[i] <= given
  <2> SUFFICES ASSUME NEW i \in 1 .. Len(taken) PROVE taken[i] <= given
    OBVIOUS
  <2>1. taken[i] \in Nat /\ taken[i] <= given - Len(buffer) + buffPos
    BY <1>2 DEF FInv, Taken
  <2> QED
    BY <1>2, <2>1
<1>5. given' - Len(buffer') + buffPos' = given
  BY <1>1, <1>2
<1> QED
  BY <1>1, <1>3, <1>4, <1>5 DEF FInv, Taken

LEMMA WrittenStep ==
  ASSUME FInv, Written
  PROVE  FInv'
<1>1. /\ buffer \in Seq(Nat) /\ accepted \in Seq(Nat) /\ taken \in Seq(Nat)
      /\ buffPos = Len(buffer) /\ accepted' = accepted \o buffer
      /\ Return("ok") /\ UNCHANGED <<given, mCache, taken>>
  BY DEF FInv, TypeOK, Written, writer
<1>2. accepted' \in Seq(Nat)
  BY <1>1, ConcatProperties
<1>3. ToSet(buffer) \subseteq ToSet(taken)
  <2>1. \A x \in ToSet(buffer) : \E k \in 1 .. Len(buffer) : buffer[k] = x
    BY <1>1 DEF ToSet
  <2> QED
    BY <1>1, <2>1 DEF FInv, Taken
<1>4. ToSet(accepted') \subseteq ToSet(taken)
  BY <1>1, <1>3, ToSetConcat DEF FInv, Taken
<1>5. Argument' /\ Taken'
  BY <1>1, <1>4, ReturnStep
<1>6. TypeOK'
  BY <1>2 DEF FInv, TypeOK, Written, writer, Return
<1> QED
  BY <1>5, <1>6 DEF FInv

(* A part was sent: from the buffer, which has room again, or from the     *)
(* argument of an uncached call, which is at an end.                       *)
LEMMA PartSentStep ==
  ASSUME FInv, PartSent
  PROVE  FInv'
<1>1. /\ buffer \in Seq(Nat) /\ accepted \in Seq(Nat) /\ taken \in Seq(Nat) /\ mPartNum \in Nat
      /\ mCache \in BOOLEAN /\ mBuffSize \in Nat /\ given \in Nat /\ Len(buffer) \in Nat
      /\ Len(buffer) <= given
      /\ pc = "reply" /\ op = "upload" /\ mPartNum' = mPartNum + 1 /\ mBuffer' = <<>>
      /\ UNCHANGED <<handle, mCache, mCanceled, given, cancels>>
  BY WriterAssumption DEF FInv, TypeOK, Argument, PartSent, PartSentAs
<1>2. mBuffer' \in Seq(Nat) /\ Len(mBuffer') <= (IF mCache' THEN mBuffSize ELSE 0)
  BY <1>1
<1>3. CASE api = "write" /\ mCache
  <2>1. /\ pc' = "fill"
        /\ UNCHANGED <<op, api, buffer, buffPos, md, failing, reply, result, taken, accepted>>
    BY <1>3 DEF PartSent, PartSentAs
  <2>2. TypeOK'
    BY <1>1, <1>2, <2>1 DEF FInv, TypeOK
  <2>3. Argument' /\ Taken'
    BY <1>1, <1>3, <2>1 DEF FInv, Argument, Taken
  <2> QED
    BY <2>2, <2>3 DEF FInv
<1>4. CASE api = "write" /\ ~ mCache
  <2>1. taken' = taken \o buffer /\ accepted' = accepted \o buffer /\ Return("ok")
    BY <1>4 DEF PartSent, PartSentAs
  <2> DEFINE b == given - Len(buffer)
  <2>2. /\ b \in Nat /\ b + Len(buffer) = given /\ buffPos = 0
        /\ \A i \in 1 .. Len(taken) : taken[i] <= b
    BY <1>1, <1>4 DEF FInv, Argument, Taken
  <2>3. Increasing(taken) /\ \A k \in 1 .. Len(buffer) : buffer[k] = b + k
    BY DEF FInv, Argument, Taken
  <2> HIDE DEF b
  <2>4. /\ taken' \in Seq(Nat) /\ Increasing(taken')
        /\ \A i \in 1 .. Len(taken') : taken'[i] <= given
    BY <1>1, <2>1, <2>2, <2>3, Lengthened
  <2>5. accepted' \in Seq(Nat)
    BY <1>1, <2>1, ConcatProperties
  <2>6. ToSet(accepted') \subseteq ToSet(taken')
    BY <1>1, <2>1, ToSetConcat DEF FInv, Taken
  <2>7. TypeOK'
    <3>1. /\ buffer' = <<>> /\ buffPos' = 0 /\ pc' = "idle" /\ api' = "none" /\ op' = "none"
          /\ md' = <<>> /\ failing' = 0 /\ reply' = "ok" /\ result' = "ok"
      BY <2>1 DEF Return
    <3> QED
      BY <1>1, <1>2, <2>4, <2>5, <3>1 DEF FInv, TypeOK
  <2>8. Argument'
    <3>1. buffer' = <<>> /\ buffPos' = 0 /\ pc' = "idle" /\ Len(buffer') = 0
      BY <2>1 DEF Return
    <3> QED
      BY <1>1, <3>1 DEF Argument
  <2>9. Taken'
    <3>1. given' - Len(buffer') + buffPos' = given /\ buffPos' = 0
      BY <1>1, <2>1 DEF Return
    <3> QED
      BY <2>4, <2>6, <3>1 DEF Taken
  <2> QED
    BY <2>7, <2>8, <2>9 DEF FInv
<1>5. CASE api = "close"
  <2>1. /\ Request("complete", PartList(mPartNum + 1))
        /\ UNCHANGED <<api, buffer, buffPos, reply, result, taken, accepted>>
    BY <1>5 DEF PartSent, PartSentAs
  <2>2. /\ pc' = "request" /\ op' = "complete" /\ md' \in Seq(Nat) /\ failing' = 0
    BY <1>1, <2>1, PartListType DEF Request
  <2>3. TypeOK'
    BY <1>1, <1>2, <2>1, <2>2 DEF FInv, TypeOK
  <2>4. Argument' /\ Taken'
    BY <1>1, <1>5, <2>1, <2>2 DEF FInv, Argument, Taken
  <2> QED
    BY <2>3, <2>4 DEF FInv
<1> QED
  BY <1>3, <1>4, <1>5 DEF PartSent, PartSentAs

LEMMA NextFInv == FInv /\ [Next]_vars => FInv'
<1> SUFFICES ASSUME FInv, [Next]_vars PROVE FInv'
  OBVIOUS
<1>1. CASE PutObject
  <2>1. TypeOK'
    BY <1>1 DEF PutObject, Request, FInv, TypeOK, writer, ghosts
  <2> QED
    BY <1>1, <2>1 DEF PutObject, Request, FInv, Argument, Taken, writer, ghosts
<1>2. ASSUME NEW n \in WriteSizes, Write(n) PROVE FInv'
  BY <1>2, WriteStep
<1>3. CASE Close
  <2>1. CASE mCanceled
    <3>1. Return("ok") /\ handle' = "freed" /\ UNCHANGED <<writer, ghosts>>
      BY <1>3, <2>1 DEF Close
    <3>2. Argument' /\ Taken'
      BY <3>1, ReturnStep DEF FInv, Taken, writer, ghosts
    <3>3. TypeOK'
      BY <3>1 DEF Return, FInv, TypeOK, writer, ghosts
    <3> QED
      BY <3>2, <3>3 DEF FInv
  <2>2. CASE ~ mCanceled
    <3>1. /\ pc = "idle" /\ api' = "close"
          /\ UNCHANGED <<handle, buffer, buffPos, reply, result, writer, ghosts>>
      BY <1>3, <2>2 DEF Close
    <3>2. /\ pc' = "request" /\ op' \in {"upload", "complete"} /\ failing' = 0
          /\ md' \in {mBuffer, PartList(mPartNum)}
      BY <1>3, <2>2 DEF Close, Request
    <3>3. md' \in Seq(Nat)
      BY <3>2, PartListType DEF FInv, TypeOK
    <3>4. TypeOK'
      BY <3>1, <3>2, <3>3 DEF FInv, TypeOK, writer, ghosts
    <3> QED
      BY <3>1, <3>2, <3>4 DEF FInv, Argument, Taken, writer, ghosts
  <2> QED
    BY <2>1, <2>2
<1>4. CASE Cancel
  <2>1. /\ pc = "idle" /\ pc' = "request" /\ api' = "cancel" /\ op' = "abort"
        /\ md' = <<>> /\ failing' = 0
        /\ cancels < MaxCancels /\ cancels' = cancels + 1
        /\ UNCHANGED <<handle, writer, buffer, buffPos, reply, result, given, taken, accepted>>
    BY <1>4 DEF Cancel, Request
  <2>2. cancels' \in 0 .. MaxCancels
    BY <2>1, WriterAssumption DEF FInv, TypeOK
  <2>3. TypeOK'
    BY <2>1, <2>2 DEF FInv, TypeOK, writer
  <2> QED
    BY <2>1, <2>3 DEF FInv, Argument, Taken, writer
<1>5. CASE Fill
  BY <1>5, FillStep
<1>6. CASE Written
  BY <1>6, WrittenStep
<1>7. CASE Attempt
  <2>1. TypeOK'
    BY <1>7, AttemptFrame DEF FInv, TypeOK
  <2> QED
    BY <1>7, <2>1, AttemptFrame DEF FInv, Argument, Taken
<1>8. CASE PartSent
  BY <1>8, PartSentStep
<1>9. CASE Opened \/ Completed \/ Aborted \/ Failed
  <2>1. PICK r \in {"ok", "error"} : Return(r)
    BY <1>9 DEF Opened, Completed, Aborted, Failed
  <2>2. /\ UNCHANGED <<mCache, mBuffer, given, taken, accepted, cancels>>
        /\ mPartNum' \in {0, mPartNum} /\ (mCanceled' = TRUE \/ mCanceled' = mCanceled)
        /\ handle' \in {"open", "freed", handle}
    BY <1>9 DEF Opened, Completed, Aborted, Failed, writer, ghosts
  <2>3. Argument' /\ Taken'
    BY <2>1, <2>2, ReturnStep DEF FInv, Taken
  <2>4. /\ buffer' = <<>> /\ buffPos' = 0 /\ pc' = "idle" /\ api' = "none" /\ op' = "none"
        /\ md' = <<>> /\ failing' = 0 /\ reply' = "ok" /\ result' \in {"ok", "error"}
    BY <2>1 DEF Return
  <2>5. TypeOK'
    <3>1. mPartNum' \in Nat /\ handle' \in {"none", "open", "freed"}
      BY <2>2 DEF FInv, TypeOK
    <3>2. mCanceled' \in BOOLEAN
      BY <2>2 DEF FInv, TypeOK
    <3>3. mBuffer' \in Seq(Nat) /\ Len(mBuffer') <= (IF mCache' THEN mBuffSize ELSE 0)
      BY <2>2 DEF FInv, TypeOK
    <3> QED
      BY <2>2, <2>4, <3>1, <3>2, <3>3 DEF FInv, TypeOK
  <2> QED
    BY <2>3, <2>5 DEF FInv
<1>10. CASE UNCHANGED vars
  <2>1. TypeOK'
    BY <1>10 DEF FInv, TypeOK, vars, writer, call, ghosts
  <2> QED
    BY <1>10, <2>1 DEF FInv, Argument, Taken, vars, writer, call, ghosts
<1> QED
  BY <1>1, <1>2, <1>3, <1>4, <1>5, <1>6, <1>7, <1>8, <1>9, <1>10 DEF Next, Running, Freed

LEMMA InitFInv == Init => FInv
<1> SUFFICES ASSUME Init PROVE FInv
  OBVIOUS
<1>1. TypeOK
  <2>1. /\ mCache \in BOOLEAN /\ mBuffer \in Seq(Nat) /\ Len(mBuffer) = 0 /\ mPartNum \in Nat
        /\ buffer \in Seq(Nat) /\ buffPos \in 0 .. Len(buffer) /\ md \in Seq(Nat)
        /\ taken \in Seq(Nat) /\ accepted \in Seq(Nat)
    BY WriterAssumption DEF Init
  <2>2. given \in 0 .. MaxBytes /\ cancels \in 0 .. MaxCancels
    BY WriterAssumption DEF Init
  <2>3. Len(mBuffer) <= (IF mCache THEN mBuffSize ELSE 0)
    BY <2>1, WriterAssumption
  <2> QED
    BY <2>1, <2>2, <2>3 DEF Init, TypeOK
<1>2. Argument /\ Taken
  BY DEF Init, Argument, Taken, Increasing, ToSet
<1> QED
  BY <1>1, <1>2 DEF FInv

LEMMA Flow == Spec => []FInv
  BY InitFInv, NextFInv, PTL DEF Spec

(* The variables keep their types: the buffer never holds more than its    *)
(* size, the copying never leaves the argument, and no request is tried    *)
(* more often than the configuration says.                                 *)
THEOREM WriterTypeOK == Spec => []TypeOK
  BY Flow, PTL DEF FInv

(* Of the bytes that qingstorWrite said it has written none is lost, none  *)
(* is taken twice, and their order is kept, whatever calls fail.           *)
THEOREM WriterAcceptedKept == Spec => []AcceptedKept
<1>1. FInv => AcceptedKept
  BY DEF FInv, Taken, AcceptedKept, Increasing
<1> QED
  BY <1>1, Flow, PTL

-----------------------------------------------------------------------------
(* What the store holds *)

(* What the requests of a call carry if each is made with its whole body:  *)
(* one attempt per request, or attempts that fail before the body is sent. *)
WholeBodies == retries <= 1 \/ Faults \subseteq {"connect"}

(* The store never answers a refusal with an empty body.                   *)
RefusalsExplained == "errorempty" \notin Faults

(* The body of the request that is being made.                             *)
Body ==
  CASE op = "upload"   -> IF mCache THEN mBuffer ELSE buffer
    [] op = "complete" -> PartList(mPartNum)
    [] OTHER           -> <<>>

(* Which request a call is at, and in which states of the writer.          *)
Serving ==
  /\ pc \in {"request", "reply"} =>
       <<api, op>> \in {<<"put", "init">>, <<"write", "upload">>, <<"close", "upload">>,
                        <<"close", "complete">>, <<"cancel", "abort">>}
  /\ pc = "fill" => api = "write" /\ op \in {"none", "upload"} /\ handle = "open"
  /\ api = "write" => buffer # <<>>
  /\ api = "close" => ~ mCanceled
  /\ handle = "freed" => pc = "idle"
  /\ handle = "none" => /\ taken = <<>> /\ mBuffer = <<>> /\ mPartNum = 0 /\ ~ mCanceled
                        /\ pc = "idle" \/ op = "init"
  /\ op = "init" => handle = "none"
  /\ op = "complete" => mBuffer = <<>>

Stored ==
  /\ server = [upload |-> server.upload, parts |-> server.parts, object |-> server.object]
  /\ \A p \in DOMAIN server.parts : server.parts[p] \in Seq(Nat)
  /\ mCanceled => server.upload # "open"

(* The store's parts and the buffer are together the bytes taken.          *)
Held ==
  handle # "freed" /\ server.upload = "open" =>
    /\ \A p \in 0 .. mPartNum - 1 : p \in DOMAIN server.parts
    /\ Assembled(server.parts, mPartNum) \o mBuffer = taken

(* An attempt that the store can accept carries the whole body.            *)
Whole ==
  pc = "request" =>
    /\ failing = 0 \/ ~ retries <= 1
    /\ server.upload = "open" => md = Body

(* What success says of the store.                                         *)
Acknowledged ==
  pc = "reply" /\ reply = "ok" =>
    /\ op = "upload" => /\ server.upload = "open"
                        /\ mPartNum \in DOMAIN server.parts
                        /\ server.parts[mPartNum] = Body
    /\ op = "complete" => server.object = taken
    /\ op = "abort" => server.upload # "open"

(* Only the last request of a close makes the object.                      *)
Unpublished ==
  handle # "freed" /\ ~ (pc = "reply" /\ op = "complete") => server.object = Absent

UInv ==
  /\ Serving /\ Stored /\ Held /\ Whole /\ Acknowledged /\ Unpublished
  /\ ClosedIsStored

LEMMA AssembledSeq ==
  ASSUME NEW parts, NEW n \in Nat, \A p \in 0 .. n - 1 : parts[p] \in Seq(Nat)
  PROVE  Assembled(parts, n) \in Seq(Nat)
<1> DEFINE Bad == {i \in 0 .. n : Assembled(parts, i) \notin Seq(Nat)}
<1>1. SUFFICES ASSUME Bad # {} PROVE FALSE
  OBVIOUS
<1>2. PICK i \in Bad : \A j \in Bad : i <= j
  <2>1. Bad \subseteq Nat
    OBVIOUS
  <2> HIDE DEF Bad
  <2> QED
    BY <1>1, <2>1, LeastOf
<1>3. i # 0
  <2>1. Assembled(parts, 0) = <<>> /\ <<>> \in Seq(Nat)
    BY AssembledParts
  <2> QED
    BY <1>2, <2>1
<1>4. i - 1 \in 0 .. n - 1 /\ (i - 1) + 1 = i /\ Assembled(parts, i - 1) \in Seq(Nat)
  <2>1. i - 1 \in 0 .. n /\ i - 1 \notin Bad /\ i \in 1 .. n
    BY <1>2, <1>3
  <2> QED
    BY <2>1
<1>5. Assembled(parts, i) = Assembled(parts, i - 1) \o parts[i - 1]
  <2>1. i - 1 \in Nat
    BY <1>4
  <2> QED
    BY <1>4, <2>1, AssembledParts
<1>6. Assembled(parts, i) \in Seq(Nat)
  BY <1>4, <1>5, ConcatProperties
<1> QED
  BY <1>2, <1>6

LEMMA AssembledSame ==
  ASSUME NEW f, NEW g, NEW n \in Nat, \A p \in 0 .. n - 1 : f[p] = g[p]
  PROVE  Assembled(f, n) = Assembled(g, n)
<1> DEFINE Bad == {i \in 0 .. n : Assembled(f, i) # Assembled(g, i)}
<1>1. SUFFICES ASSUME Bad # {} PROVE FALSE
  OBVIOUS
<1>2. PICK i \in Bad : \A j \in Bad : i <= j
  <2>1. Bad \subseteq Nat
    OBVIOUS
  <2> HIDE DEF Bad
  <2> QED
    BY <1>1, <2>1, LeastOf
<1>3. i # 0
  BY <1>2, AssembledParts
<1>4. i - 1 \in 0 .. n - 1 /\ (i - 1) + 1 = i /\ Assembled(f, i - 1) = Assembled(g, i - 1)
  <2>1. i - 1 \in 0 .. n /\ i - 1 \notin Bad /\ i \in 1 .. n
    BY <1>2, <1>3
  <2> QED
    BY <2>1
<1>5. /\ Assembled(f, i) = Assembled(f, i - 1) \o f[i - 1]
      /\ Assembled(g, i) = Assembled(g, i - 1) \o g[i - 1]
  <2>1. i - 1 \in Nat
    BY <1>4
  <2> QED
    BY <1>4, <2>1, AssembledParts
<1> QED
  BY <1>2, <1>4, <1>5

(* The store's parts up to mPartNum make a sequence of bytes.              *)
LEMMA HeldParts ==
  ASSUME FInv, UInv, handle # "freed", server.upload = "open"
  PROVE  /\ Assembled(server.parts, mPartNum) \in Seq(Nat)
         /\ Assembled(server.parts, mPartNum) \o mBuffer = taken
<1>1. mPartNum \in Nat
  BY DEF FInv, TypeOK
<1>2. /\ \A p \in 0 .. mPartNum - 1 : server.parts[p] \in Seq(Nat)
      /\ Assembled(server.parts, mPartNum) \o mBuffer = taken
  BY DEF UInv, Held, Stored
<1> QED
  BY <1>1, <1>2, AssembledSeq

LEMMA BodyType ==
  ASSUME FInv
  PROVE  Body \in Seq(Nat)
<1>1. PartList(mPartNum) \in Seq(Nat)
  BY PartListType DEF FInv, TypeOK
<1> QED
  BY <1>1 DEF Body, FInv, TypeOK

LEMMA FillHolds ==
  ASSUME FInv, UInv, Fill
  PROVE  UInv'
<1> DEFINE c == Copied
           a == Assembled(server.parts, mPartNum)
<1>1. c \in Seq(Nat) /\ mBuffer \in Seq(Nat) /\ pc = "fill" /\ mCache
  BY CopiedProperties DEF FInv, TypeOK, Argument, Fill
<1>2. /\ mBuffer' = mBuffer \o c /\ taken' = taken \o c
      /\ UNCHANGED <<handle, mCache, mPartNum, mCanceled, api, buffer, server, result>>
  BY DEF Fill
<1>3. \/ pc' = "request" /\ op' = "upload" /\ md' = mBuffer' /\ failing' = 0
      \/ pc' = "fill" /\ UNCHANGED op
  BY <1>1 DEF Fill, Request
<1>4. api = "write" /\ handle = "open" /\ op \in {"none", "upload"} /\ server.object = Absent
  BY <1>1 DEF UInv, Serving, Unpublished
<1> HIDE DEF c
<1>5. Held'
  <2> SUFFICES ASSUME server.upload = "open"
               PROVE  /\ \A p \in 0 .. mPartNum - 1 : p \in DOMAIN server.parts
                      /\ a \o mBuffer' = taken'
    BY <1>2 DEF Held
  <2>1. a \in Seq(Nat) /\ a \o mBuffer = taken
    BY <1>4, HeldParts
  <2>2. (a \o mBuffer) \o c = a \o (mBuffer \o c)
    <3> HIDE DEF a
    <3> QED
      BY <1>1, <2>1, ConcatBytes
  <2> QED
    BY <1>2, <1>4, <2>1, <2>2 DEF UInv, Held
<1>6. Serving' /\ Stored'
  BY <1>2, <1>3, <1>4 DEF UInv, Serving, Stored
<1>7. Whole' /\ Acknowledged' /\ Unpublished' /\ ClosedIsStored'
  BY <1>1, <1>2, <1>3, <1>4 DEF Whole, Body, Acknowledged, Unpublished, ClosedIsStored
<1> QED
  BY <1>5, <1>6, <1>7 DEF UInv

(* A request that the store accepts, be its answer received or not.        *)
LEMMA EffectHolds ==
  ASSUME FInv, UInv, pc = "request", Accepted,
         server' = Effect(server, op, md, mPartNum),
         UNCHANGED <<handle, mCache, mBuffer, mPartNum, mCanceled, api, op, buffer, taken>>
  PROVE  /\ Stored' /\ Held'
         /\ op = "upload" => /\ server'.upload = "open"
                             /\ mPartNum \in DOMAIN server'.parts
                             /\ server'.parts[mPartNum] = Body'
         /\ op = "complete" => server'.object = taken'
         /\ op = "abort" => server'.upload # "open"
         /\ op # "complete" => server'.object = server.object
<1> DEFINE n == mPartNum
           ps == server.parts
<1>1. /\ mPartNum \in Nat /\ mBuffer \in Seq(Nat) /\ taken \in Seq(Nat) /\ Body' = Body
      /\ server = [upload |-> server.upload, parts |-> ps, object |-> server.object]
      /\ \A p \in DOMAIN ps : ps[p] \in Seq(Nat)
  BY DEF FInv, TypeOK, UInv, Stored, Body
<1>2. <<api, op>> \in {<<"put", "init">>, <<"write", "upload">>, <<"close", "upload">>,
                       <<"close", "complete">>, <<"cancel", "abort">>}
  BY DEF UInv, Serving
<1>3. CASE op = "init"
  <2>1. /\ server' = [upload |-> "open", parts |-> [p \in {} |-> <<>>], object |-> server.object]
        /\ mBuffer = <<>> /\ mPartNum = 0 /\ taken = <<>> /\ ~ mCanceled
    BY <1>1, <1>3 DEF Effect, UInv, Serving
  <2>2. Stored'
    BY <2>1 DEF Stored
  <2>3. Held'
    <3>1. Assembled(server'.parts, 0) = <<>> /\ <<>> \o <<>> = <<>>
      BY AssembledParts
    <3> QED
      BY <2>1, <3>1 DEF Held
  <2> QED
    BY <1>3, <2>1, <2>2, <2>3
<1>4. CASE op = "upload"
  <2>1. server.upload = "open" /\ md = Body /\ Body \in Seq(Nat) /\ ~ mCanceled /\ handle # "freed"
    BY <1>4, BodyType DEF Accepted, Legal, UInv, Whole, Stored, Serving
  <2> DEFINE qs == [p \in DOMAIN ps \cup {n} |-> IF p = n THEN Body ELSE ps[p]]
  <2>2. server' = [upload |-> "open", parts |-> qs, object |-> server.object]
    BY <1>1, <1>4, <2>1 DEF Effect
  <2>3. /\ DOMAIN qs = DOMAIN ps \cup {n} /\ qs[n] = Body
        /\ \A p \in DOMAIN ps : p # n => qs[p] = ps[p]
        /\ \A p \in DOMAIN qs : qs[p] \in Seq(Nat)
    BY <1>1, <2>1
  <2> HIDE DEF qs
  <2>4. server'.parts = qs /\ server'.upload = "open" /\ server'.object = server.object
        /\ server' = [upload |-> server'.upload, parts |-> server'.parts,
                      object |-> server'.object]
    BY <2>2
  <2>5. /\ \A p \in 0 .. n - 1 : p \in DOMAIN ps /\ p # n
        /\ Assembled(ps, n) \o mBuffer = taken
    BY <1>1, <2>1 DEF UInv, Held
  <2>6. Assembled(qs, n) = Assembled(ps, n)
    <3>1. \A p \in 0 .. n - 1 : qs[p] = ps[p]
      BY <2>3, <2>5
    <3>2. n \in Nat
      BY <1>1
    <3> QED
      BY <3>1, <3>2, AssembledSame
  <2>7. Held'
    BY <2>3, <2>4, <2>5, <2>6 DEF Held
  <2>8. Stored'
    BY <2>1, <2>3, <2>4 DEF Stored
  <2> QED
    BY <1>1, <1>4, <2>3, <2>4, <2>7, <2>8
<1>5. CASE op = "complete"
  <2>1. server.upload = "open" /\ mBuffer = <<>> /\ ~ mCanceled /\ handle # "freed"
    BY <1>2, <1>5 DEF Accepted, Legal, UInv, Serving, Stored
  <2>2. server' = [upload |-> "completed", parts |-> ps, object |-> Assembled(ps, n)]
    BY <1>1, <1>5 DEF Effect
  <2>3. Assembled(ps, n) = taken
    <3>1. Assembled(ps, n) \in Seq(Nat) /\ Assembled(ps, n) \o <<>> = taken
      BY <2>1, HeldParts
    <3> QED
      BY <3>1, ConcatEmptySeq
  <2>4. Stored' /\ Held'
    BY <1>1, <2>1, <2>2 DEF Stored, Held
  <2> QED
    BY <1>5, <2>2, <2>3, <2>4
<1>6. CASE op = "abort"
  <2>1. server' = [upload |-> "aborted", parts |-> ps, object |-> server.object]
    BY <1>1, <1>6 DEF Effect
  <2>2. Stored' /\ Held'
    BY <1>1, <2>1 DEF Stored, Held
  <2> QED
    BY <1>6, <2>1, <2>2
<1> QED
  BY <1>2, <1>3, <1>4, <1>5, <1>6

LEMMA AttemptHolds ==
  ASSUME WholeBodies, RefusalsExplained, FInv, UInv, Attempt
  PROVE  UInv'
<1>1. /\ pc = "request" /\ pc' \in {"request", "reply"}
      /\ failing \in Nat /\ retries \in Nat /\ handle # "freed"
      /\ UNCHANGED <<handle, mCache, mBuffer, mPartNum, mCanceled, api, op, buffer,
                     buffPos, result, given, taken, accepted, cancels>>
  BY AttemptFrame, WriterAssumption DEF FInv, TypeOK, UInv, Serving
<1>2. Body' = Body
  BY <1>1 DEF Body
<1>3. Serving' /\ ClosedIsStored'
  BY <1>1 DEF UInv, Serving, ClosedIsStored
<1>4. <<api, op>> \in {<<"put", "init">>, <<"write", "upload">>, <<"close", "upload">>,
                       <<"close", "complete">>, <<"cancel", "abort">>}
  BY <1>1 DEF UInv, Serving
<1>5. failing = 0 \/ ~ retries <= 1
  BY <1>1 DEF UInv, Whole
(* A failed attempt is followed by another one only if several are made,   *)
(* and then the body has not been touched.                                 *)
<1>6. ASSUME NEW o \in {"ok", "badjson", "throw"}, Conclude(o)
      PROVE  \/ pc' = "reply" /\ reply' = o
             \/ /\ pc' = "request" /\ o = "throw" /\ ~ retries <= 1
                /\ Faults \subseteq {"connect"}
  <2>1. CASE o = "throw" /\ failing + 1 < retries
    <3>1. ~ retries <= 1
      BY <1>1, <2>1
    <3> QED
      BY <1>1, <1>6, <2>1, <3>1 DEF Conclude, WholeBodies
  <2>2. CASE ~ (o = "throw" /\ failing + 1 < retries)
    BY <1>6, <2>2 DEF Conclude
  <2> QED
    BY <2>1, <2>2
<1>7. CASE AttemptOk
  <2>1. Accepted /\ server' = Effect(server, op, md, mPartNum)
    BY <1>7 DEF AttemptOk
  <2>2. pc' = "reply" /\ reply' = "ok"
    BY <1>7 DEF AttemptOk, Conclude, Outcome, GoodBody
  <2>3. /\ Stored' /\ Held'
        /\ op = "upload" => /\ server'.upload = "open"
                            /\ mPartNum \in DOMAIN server'.parts
                            /\ server'.parts[mPartNum] = Body'
        /\ op = "complete" => server'.object = taken'
        /\ op = "abort" => server'.upload # "open"
        /\ op # "complete" => server'.object = server.object
    BY <1>1, <2>1, EffectHolds
  <2>4. Whole' /\ Acknowledged'
    BY <1>1, <2>2, <2>3 DEF Whole, Acknowledged
  <2>5. Unpublished'
    BY <1>1, <2>2, <2>3 DEF UInv, Unpublished
  <2> QED
    BY <1>3, <2>3, <2>4, <2>5 DEF UInv
<1>8. CASE AttemptRefused
  <2>1. /\ server' = server
        /\ ~ Accepted \/ "errorbody" \in Faults
        /\ Conclude(Outcome("error"))
    BY <1>8 DEF AttemptRefused, RefusalsExplained
  <2>2. Outcome("error") = IF op = "init" THEN "badjson" ELSE "throw"
    BY DEF Outcome
  <2>3. \/ pc' = "reply" /\ reply' # "ok"
        \/ pc' = "request" /\ ~ Accepted /\ op # "init" /\ ~ retries <= 1
    BY <1>6, <2>1, <2>2
  <2>4. CASE pc' = "reply" /\ reply' # "ok"
    BY <1>1, <1>3, <2>1, <2>4
      DEF UInv, Stored, Held, Whole, Acknowledged, Unpublished
  <2>5. CASE pc' = "request" /\ ~ Accepted /\ op # "init" /\ ~ retries <= 1
    <3>1. server.upload # "open"
      <4>1. SUFFICES ASSUME server.upload = "open" PROVE Accepted
        BY <2>5
      <4>2. md = Body /\ \A p \in 0 .. mPartNum - 1 : p \in DOMAIN server.parts
        BY <1>1, <4>1 DEF UInv, Whole, Held
      <4>3. mPartNum \in Nat
        BY DEF FInv, TypeOK
      <4>4. CASE op = "complete"
        <5>1. md = PartList(mPartNum)
          BY <4>2, <4>4 DEF Body
        <5>2. \A p \in ToSet(PartList(mPartNum)) : p \in 0 .. mPartNum - 1
          BY <4>3 DEF ToSet, PartList
        <5> QED
          BY <4>1, <4>2, <4>4, <5>1, <5>2 DEF Accepted, Legal
      <4>5. CASE op \in {"upload", "abort"}
        BY <4>1, <4>5 DEF Accepted, Legal
      <4> QED
        BY <1>4, <2>5, <4>4, <4>5
    <3>2. Whole' /\ Acknowledged'
      BY <2>1, <2>5, <3>1 DEF Whole, Acknowledged
    <3> QED
      BY <1>1, <1>3, <2>1, <2>5, <3>2 DEF UInv, Stored, Held, Unpublished
  <2> QED
    BY <2>3, <2>4, <2>5
<1>9. CASE AttemptBroken
  <2>1. Conclude("throw")
    BY <1>9 DEF AttemptBroken
  <2>2. \/ pc' = "reply" /\ reply' = "throw"
        \/ pc' = "request" /\ Faults \subseteq {"connect"} /\ ~ retries <= 1
    BY <1>6, <2>1
  <2>3. CASE server' = server
    <3>1. CASE pc' = "reply" /\ reply' = "throw"
      BY <1>1, <1>3, <2>3, <3>1
        DEF UInv, Stored, Held, Whole, Acknowledged, Unpublished
    <3>2. CASE pc' = "request" /\ Faults \subseteq {"connect"} /\ ~ retries <= 1
      <4>1. md' = md
        BY <1>9, <3>2 DEF AttemptBroken
      <4>2. Whole' /\ Acknowledged'
        BY <1>1, <1>2, <2>3, <3>2, <4>1 DEF UInv, Whole, Acknowledged
      <4> QED
        BY <1>1, <1>3, <2>3, <3>2, <4>2 DEF UInv, Stored, Held, Unpublished
    <3> QED
      BY <2>2, <3>1, <3>2
  <2>4. CASE server' # server
    <3>1. /\ Accepted /\ server' = Effect(server, op, md, mPartNum)
          /\ "lostreply" \in Faults
      BY <1>9, <2>4 DEF AttemptBroken
    <3>2. pc' = "reply" /\ reply' = "throw"
      BY <2>2, <3>1
    <3>3. /\ Stored' /\ Held'
          /\ op # "complete" => server'.object = server.object
      BY <1>1, <3>1, EffectHolds
    <3>4. Whole' /\ Acknowledged'
      BY <3>2 DEF Whole, Acknowledged
    <3>5. Unpublished'
      BY <1>1, <3>2, <3>3 DEF UInv, Unpublished
    <3> QED
      BY <1>3, <3>3, <3>4, <3>5 DEF UInv
  <2> QED
    BY <2>3, <2>4
<1> QED
  BY <1>7, <1>8, <1>9 DEF Attempt

LEMMA PartSentHolds ==
  ASSUME FInv, UInv, PartSent
  PROVE  UInv'
<1> DEFINE n == mPartNum
           ps == server.parts
           a == Assembled(ps, n)
<1>1. /\ pc = "reply" /\ op = "upload" /\ reply = "ok" /\ mPartNum' = n + 1 /\ mBuffer' = <<>>
      /\ UNCHANGED <<handle, mCache, mCanceled, server>>
      /\ api \in {"write", "close"}
  BY DEF PartSent, PartSentAs
<1>2. /\ n \in Nat /\ mBuffer \in Seq(Nat) /\ buffer \in Seq(Nat) /\ taken \in Seq(Nat)
      /\ Body \in Seq(Nat) /\ handle \in {"open", "none"}
  BY <1>1, BodyType DEF FInv, TypeOK, UInv, Serving
<1>3. handle = "open" /\ server.upload = "open" /\ n \in DOMAIN ps /\ ps[n] = Body
      /\ server.object = Absent /\ ~ mCanceled
  BY <1>1, <1>2 DEF UInv, Serving, Acknowledged, Unpublished, Stored
<1>4. a \in Seq(Nat) /\ a \o mBuffer = taken
      /\ \A p \in 0 .. n - 1 : p \in DOMAIN ps
  BY <1>3, HeldParts DEF UInv, Held
<1>5. Assembled(ps, n + 1) = a \o Body
  BY <1>2, <1>3, AssembledParts
<1>6. \A p \in 0 .. (n + 1) - 1 : p \in DOMAIN ps
  <2>1. \A p \in 0 .. (n + 1) - 1 : p \in 0 .. n - 1 \/ p = n
    BY <1>2
  <2> QED
    BY <1>3, <1>4, <2>1
<1> HIDE DEF a
(* The part was the buffer, or what follows an empty one.                  *)
<1>7. CASE mCache \/ api = "close"
  <2>1. Body = mBuffer
    <3>1. CASE mCache
      BY <1>1, <3>1 DEF Body
    <3>2. CASE ~ mCache /\ api = "close"
      <4>1. Len(mBuffer) <= 0 /\ buffer = <<>>
        BY <3>2 DEF FInv, TypeOK, Argument
      <4>2. mBuffer = <<>>
        BY <1>2, <4>1
      <4> QED
        BY <1>1, <3>2, <4>1, <4>2 DEF Body
    <3> QED
      BY <1>7, <3>1, <3>2
  <2>2. /\ taken' = taken /\ UNCHANGED <<api, buffer>>
        /\ \/ pc' = "fill" /\ api = "write" /\ UNCHANGED op
           \/ /\ pc' = "request" /\ op' = "complete" /\ api = "close"
              /\ md' = PartList(n + 1) /\ failing' = 0
    BY <1>7 DEF PartSent, PartSentAs, Request
  <2>3. Held'
    <3>1. taken \o <<>> = taken
      BY <1>2, ConcatEmptySeq
    <3> QED
      BY <1>1, <1>4, <1>5, <1>6, <2>1, <2>2, <3>1 DEF Held
  <2>4. Serving' /\ Stored'
    BY <1>1, <1>3, <2>2 DEF UInv, Serving, Stored
  <2>5. Whole' /\ Acknowledged' /\ Unpublished' /\ ClosedIsStored'
    BY <1>1, <1>3, <2>2 DEF Whole, Body, Acknowledged, Unpublished, ClosedIsStored
  <2> QED
    BY <2>3, <2>4, <2>5 DEF UInv
<1>8. CASE ~ mCache /\ api = "write"
  <2>1. taken' = taken \o buffer /\ Return("ok")
    BY <1>8 DEF PartSent, PartSentAs
  <2>2. mBuffer = <<>> /\ Body = buffer
    <3>1. Len(mBuffer) <= 0
      BY <1>8 DEF FInv, TypeOK
    <3> QED
      BY <1>1, <1>2, <1>8, <3>1 DEF Body
  <2>3. Held'
    <3>1. a = taken /\ taken \o buffer \in Seq(Nat)
      BY <1>2, <1>4, <2>2, ConcatEmptySeq, ConcatProperties
    <3>2. (taken \o buffer) \o <<>> = taken \o buffer
      BY <3>1, ConcatEmptySeq
    <3> QED
      BY <1>1, <1>5, <1>6, <2>1, <2>2, <3>1, <3>2 DEF Held
  <2>4. pc' = "idle" /\ api' = "none" /\ op' = "none" /\ buffer' = <<>>
    BY <2>1 DEF Return
  <2>5. Serving' /\ Stored'
    BY <1>1, <1>3, <2>4 DEF UInv, Serving, Stored
  <2>6. Whole' /\ Acknowledged' /\ Unpublished' /\ ClosedIsStored'
    BY <1>1, <1>3, <2>4 DEF Whole, Acknowledged, Unpublished, ClosedIsStored
  <2> QED
    BY <2>3, <2>5, <2>6 DEF UInv
<1> QED
  BY <1>1, <1>7, <1>8

LEMMA NextUInv ==
  ASSUME WholeBodies, RefusalsExplained, FInv, UInv, [Next]_vars
  PROVE  UInv'
<1>1. CASE PutObject
  <2>1. /\ handle = "none" /\ pc = "idle" /\ pc' = "request" /\ api' = "put" /\ op' = "init"
        /\ md' = <<>> /\ failing' = 0 /\ buffer' = buffer
        /\ UNCHANGED <<handle, mCache, mBuffer, mPartNum, mCanceled, server, result, taken>>
    BY <1>1 DEF PutObject, Request, writer, ghosts
  <2>2. Serving' /\ Stored' /\ Held'
    BY <2>1 DEF UInv, Serving, Stored, Held
  <2> QED
    BY <2>1, <2>2 DEF UInv, Whole, Body, Acknowledged, Unpublished, ClosedIsStored
<1>2. ASSUME NEW n \in WriteSizes, Write(n) PROVE UInv'
  <2>1. buffer' # <<>>
    <3>1. buffer' \in Seq(Nat) /\ Len(buffer') = n /\ n # 0
      BY <1>2, WriteStep, WriterAssumption
    <3> QED
      BY <3>1
  <2>2. /\ handle = "open" /\ pc = "idle" /\ api' = "write"
        /\ \/ mCache /\ pc' = "fill" /\ op' = op
           \/ /\ ~ mCache /\ pc' = "request" /\ op' = "upload"
              /\ md' = buffer' /\ failing' = 0
        /\ UNCHANGED <<handle, mCache, mBuffer, mPartNum, mCanceled, server, result, taken>>
    BY <1>2 DEF Write, Request, writer
  <2>3. op = "none"
    BY <2>2 DEF FInv, TypeOK
  <2>4. Serving' /\ Stored' /\ Held'
    BY <2>1, <2>2, <2>3 DEF UInv, Serving, Stored, Held
  <2> QED
    BY <2>2, <2>4 DEF UInv, Whole, Body, Acknowledged, Unpublished, ClosedIsStored
<1>3. CASE Close
  <2>1. handle = "open" /\ pc = "idle" /\ UNCHANGED <<writer, server, ghosts>>
    BY <1>3 DEF Close
  <2>2. CASE mCanceled
    <3>1. pc' = "idle" /\ handle' = "freed" /\ op' = "none" /\ api' = "none" /\ buffer' = <<>>
      BY <1>3, <2>2 DEF Close, Return
    <3>2. Serving' /\ Stored' /\ Held'
      BY <2>1, <3>1 DEF UInv, Serving, Stored, Held, writer, ghosts
    <3> QED
      BY <2>1, <2>2, <3>1, <3>2
        DEF UInv, Whole, Acknowledged, Unpublished, ClosedIsStored, writer
  <2>3. CASE ~ mCanceled
    <3>1. /\ api' = "close" /\ UNCHANGED <<handle, buffer, result>>
          /\ pc' = "request" /\ failing' = 0
          /\ \/ (mCache \/ mPartNum = 0) /\ op' = "upload" /\ md' = mBuffer
             \/ ~ mCache /\ op' = "complete" /\ md' = PartList(mPartNum)
      BY <1>3, <2>3 DEF Close, Request
    <3>2. buffer = <<>> /\ (~ mCache => mBuffer = <<>>)
      <4>1. ~ mCache => Len(mBuffer) <= 0 /\ mBuffer \in Seq(Nat)
        BY DEF FInv, TypeOK
      <4> QED
        BY <2>1, <4>1 DEF FInv, Argument
    <3>3. Serving' /\ Stored' /\ Held'
      BY <2>1, <2>3, <3>1, <3>2 DEF UInv, Serving, Stored, Held, writer, ghosts
    <3>4. md' = Body'
      BY <2>1, <3>1, <3>2 DEF Body, writer
    <3> QED
      BY <2>1, <3>1, <3>3, <3>4
        DEF UInv, Whole, Acknowledged, Unpublished, ClosedIsStored, writer
  <2> QED
    BY <2>2, <2>3
<1>4. CASE Cancel
  <2>1. /\ handle = "open" /\ pc = "idle" /\ pc' = "request" /\ api' = "cancel" /\ op' = "abort"
        /\ md' = <<>> /\ failing' = 0
        /\ UNCHANGED <<handle, writer, buffer, server, result, taken>>
    BY <1>4 DEF Cancel, Request
  <2>2. Serving' /\ Stored' /\ Held'
    BY <2>1 DEF UInv, Serving, Stored, Held, writer
  <2> QED
    BY <2>1, <2>2 DEF UInv, Whole, Body, Acknowledged, Unpublished, ClosedIsStored, writer
<1>5. CASE Fill
  BY <1>5, FillHolds
<1>6. CASE Attempt
  BY <1>6, AttemptHolds
<1>7. CASE PartSent
  BY <1>7, PartSentHolds
<1>8. CASE Written \/ Opened \/ Failed
  <2>1. /\ pc' = "idle" /\ op' = "none" /\ api' = "none" /\ buffer' = <<>>
        /\ UNCHANGED <<writer, server, taken>>
    BY <1>8 DEF Written, Opened, Failed, Return, ghosts
  <2>2. /\ pc \in {"fill", "reply"} /\ handle # "freed" /\ handle' # "none"
        /\ handle' # "freed" => /\ ~ (pc = "reply" /\ op = "complete")
        /\ handle' = "freed" => result' = "error"
    BY <1>8 DEF Written, Opened, Failed, Return, UInv, Serving
  <2>3. Stored' /\ Held'
    BY <2>1, <2>2 DEF UInv, Stored, Held, writer
  <2>4. Serving' /\ Whole' /\ Acknowledged'
    BY <2>1, <2>2 DEF Serving, Whole, Acknowledged
  <2>5. Unpublished' /\ ClosedIsStored'
    BY <2>1, <2>2 DEF UInv, Unpublished, ClosedIsStored
  <2> QED
    BY <2>3, <2>4, <2>5 DEF UInv
<1>9. CASE Completed
  <2>1. /\ pc = "reply" /\ op = "complete" /\ reply = "ok" /\ handle' = "freed"
        /\ pc' = "idle" /\ op' = "none" /\ api' = "none" /\ buffer' = <<>>
        /\ UNCHANGED <<writer, server, taken>>
    BY <1>9 DEF Completed, Return, ghosts
  <2>2. server.object = taken
    BY <2>1 DEF UInv, Acknowledged
  <2> QED
    BY <2>1, <2>2 DEF UInv, Serving, Stored, Held, Whole, Acknowledged, Unpublished,
                      ClosedIsStored, writer
<1>10. CASE Aborted
  <2>1. /\ pc = "reply" /\ op = "abort" /\ reply = "ok" /\ mCanceled'
        /\ pc' = "idle" /\ op' = "none" /\ api' = "none" /\ buffer' = <<>>
        /\ UNCHANGED <<handle, server, taken>>
    BY <1>10 DEF Aborted, Return, ghosts
  <2>2. server.upload # "open" /\ handle # "none" /\ handle # "freed"
    BY <2>1 DEF UInv, Acknowledged, Serving
  <2> QED
    BY <2>1, <2>2 DEF UInv, Serving, Stored, Held, Whole, Acknowledged, Unpublished,
                      ClosedIsStored
<1>11. CASE UNCHANGED vars
  <2>1. Body' = Body
    BY <1>11 DEF vars, writer, call, Body
  <2> QED
    BY <1>11, <2>1 DEF vars, writer, call, ghosts, UInv, Serving, Stored, Held, Whole,
                       Acknowledged, Unpublished, ClosedIsStored
<1> QED
  BY <1>1, <1>2, <1>3, <1>4, <1>5, <1>6, <1>7, <1>8, <1>9, <1>10, <1>11
    DEF Next, Running, Freed

LEMMA InitUInv == Init => UInv
<1> SUFFICES ASSUME Init PROVE UInv
  OBVIOUS
<1>1. Serving /\ Stored /\ Held
  BY DEF Init, Serving, Stored, Held, NoUpload
<1>2. Whole /\ Acknowledged /\ Unpublished /\ ClosedIsStored
  BY DEF Init, Whole, Acknowledged, Unpublished, ClosedIsStored, NoUpload
<1> QED
  BY <1>1, <1>2 DEF UInv

(* The store has the parts that were counted, and these and the buffer     *)
(* are the bytes taken, as long as the upload is open.                     *)
THEOREM WriterPartsHeld ==
  ASSUME WholeBodies, RefusalsExplained
  PROVE  Spec => []PartsHeld
<1>1. UInv => PartsHeld
  BY DEF UInv, Held, PartsHeld
<1>2. FInv /\ UInv /\ [Next]_vars => (FInv /\ UInv)'
  BY NextFInv, NextUInv
<1> QED
  BY <1>1, <1>2, InitFInv, InitUInv, PTL DEF Spec

(* A close that succeeds leaves exactly the bytes taken in the store.      *)
THEOREM WriterClosedIsStored ==
  ASSUME WholeBodies, RefusalsExplained
  PROVE  Spec => []ClosedIsStored
<1>1. UInv => ClosedIsStored
  BY DEF UInv
<1>2. FInv /\ UInv /\ [Next]_vars => (FInv /\ UInv)'
  BY NextFInv, NextUInv
<1> QED
  BY <1>1, <1>2, InitFInv, InitUInv, PTL DEF Spec

-----------------------------------------------------------------------------
(* What retries can cost *)

(* A later attempt sends what the earlier ones have left of the body: the  *)
(* end of it.                                                              *)
LEMMA EndOf ==
  ASSUME NEW s \in Seq(Nat), NEW t \in Seq(Nat), NEW k \in 0 .. Len(t), Increasing(s \o t)
  PROVE  /\ Increasing(s \o SubSeq(t, k + 1, Len(t)))
         /\ ToSet(SubSeq(t, k + 1, Len(t))) \subseteq ToSet(t)
<1> DEFINE e == SubSeq(t, k + 1, Len(t))
           r == s \o t
           q == s \o e
<1>1. Len(s) \in Nat /\ Len(t) \in Nat /\ k \in Nat /\ k <= Len(t)
  OBVIOUS
<1>2. /\ e \in Seq(Nat)
      /\ Len(e) = IF k + 1 <= Len(t) THEN Len(t) - (k + 1) + 1 ELSE 0
      /\ \A i \in 1 .. Len(t) - (k + 1) + 1 : e[i] = t[k + 1 + i - 1]
  <2>1. k + 1 \in Int /\ Len(t) \in Int /\ \A i \in k + 1 .. Len(t) : t[i] \in Nat
    BY <1>1
  <2> QED
    BY <2>1, SubSeqProperties
<1> HIDE DEF e
<1>3. Len(e) = Len(t) - k
  <2>1. CASE k + 1 <= Len(t)
    BY <1>1, <1>2, <2>1
  <2>2. CASE ~ k + 1 <= Len(t)
    <3>1. k = Len(t) /\ Len(e) = 0
      BY <1>1, <1>2, <2>2
    <3> QED
      BY <1>1, <3>1
  <2> QED
    BY <2>1, <2>2
<1>4. \A i \in 1 .. Len(e) : k + i \in 1 .. Len(t) /\ e[i] = t[k + i]
  <2> SUFFICES ASSUME NEW i \in 1 .. Len(e) PROVE k + i \in 1 .. Len(t) /\ e[i] = t[k + i]
    OBVIOUS
  <2>1. i \in 1 .. Len(t) - (k + 1) + 1 /\ k + 1 + i - 1 = k + i /\ k + i \in 1 .. Len(t)
    BY <1>1, <1>3
  <2> QED
    BY <1>2, <2>1
<1>5. /\ Len(r) = Len(s) + Len(t)
      /\ \A i \in 1 .. Len(r) : r[i] = IF i <= Len(s) THEN s[i] ELSE t[i - Len(s)]
  BY ConcatProperties
<1>6. /\ Len(q) = Len(s) + Len(e)
      /\ \A i \in 1 .. Len(q) : q[i] = IF i <= Len(s) THEN s[i] ELSE e[i - Len(s)]
  BY <1>2, ConcatProperties
<1> HIDE DEF r, q
<1>7. ASSUME NEW i \in 1 .. Len(q)
      PROVE  \E m \in 1 .. Len(r) : /\ q[i] = r[m]
                                    /\ m = IF i <= Len(s) THEN i ELSE i + k
  <2>1. CASE i <= Len(s)
    <3>1. i \in 1 .. Len(r)
      BY <1>1, <1>5, <2>1
    <3> QED
      BY <1>5, <1>6, <2>1, <3>1
  <2>2. CASE ~ i <= Len(s)
    <3>1. i - Len(s) \in 1 .. Len(e)
      BY <1>1, <1>3, <1>6, <2>2
    <3>2. q[i] = t[k + (i - Len(s))]
      BY <1>4, <1>6, <2>2, <3>1
    <3>3. i + k \in 1 .. Len(r) /\ ~ i + k <= Len(s) /\ (i + k) - Len(s) = k + (i - Len(s))
      BY <1>1, <1>3, <1>5, <1>6, <2>2
    <3> QED
      BY <1>5, <2>2, <3>2, <3>3
  <2> QED
    BY <2>1, <2>2
<1>8. Increasing(q)
  <2> SUFFICES ASSUME NEW i \in 1 .. Len(q), NEW j \in 1 .. Len(q), i < j PROVE q[i] < q[j]
    BY DEF Increasing
  <2>1. PICK m \in 1 .. Len(r) : q[i] = r[m] /\ m = IF i <= Len(s) THEN i ELSE i + k
    BY <1>7
  <2>2. PICK n \in 1 .. Len(r) : q[j] = r[n] /\ n = IF j <= Len(s) THEN j ELSE j + k
    BY <1>7
  <2>3. m < n
    BY <1>1, <2>1, <2>2
  <2> QED
    BY <2>1, <2>2, <2>3 DEF Increasing, r
<1>9. ToSet(e) \subseteq ToSet(t)
  <2>1. \A i \in 1 .. Len(t) : t[i] \in ToSet(t)
    BY DEF ToSet
  <2>2. \A x \in ToSet(e) : \E i \in 1 .. Len(e) : e[i] = x
    BY <1>2 DEF ToSet
  <2> QED
    BY <1>4, <2>1, <2>2
<1> QED
  BY <1>8, <1>9 DEF e, q

(* The parts that count, and the buffer behind them, are bytes taken, in   *)
(* their order; a part on its way is made of the body it is sent for, and  *)
(* goes on after them.                                                     *)
Counted == Assembled(server.parts, mPartNum)
Follows(t) == Increasing(Counted \o t) /\ ToSet(t) \subseteq ToSet(Body)

Kept ==
  handle # "freed" /\ server.upload = "open" =>
    /\ \A p \in 0 .. mPartNum - 1 : p \in DOMAIN server.parts
    /\ Increasing(Counted \o mBuffer)
    /\ ToSet(Counted) \cup ToSet(mBuffer) \subseteq ToSet(taken)
    /\ pc = "request" /\ op = "upload" => Follows(md)
    /\ pc = "reply" /\ op = "upload" /\ reply = "ok" =>
         mPartNum \in DOMAIN server.parts /\ Follows(server.parts[mPartNum])

AbortKnown == pc = "reply" /\ op = "abort" /\ reply = "ok" => server.upload # "open"

(* The object, if there is one, is bytes taken, in their order.            *)
ObjectIsSelection ==
  server.object # Absent =>
    Increasing(server.object) /\ ToSet(server.object) \subseteq ToSet(taken)

RInv == Serving /\ Stored /\ Kept /\ AbortKnown /\ ObjectIsSelection

LEMMA CountedType ==
  ASSUME FInv, RInv, handle # "freed", server.upload = "open"
  PROVE  /\ Counted \in Seq(Nat) /\ mBuffer \in Seq(Nat) /\ mPartNum \in Nat
         /\ Increasing(Counted) /\ Increasing(Counted \o mBuffer)
         /\ ToSet(Counted) \subseteq ToSet(taken) /\ ToSet(mBuffer) \subseteq ToSet(taken)
<1>1. mPartNum \in Nat /\ mBuffer \in Seq(Nat)
  BY DEF FInv, TypeOK
<1>2. \A p \in 0 .. mPartNum - 1 : server.parts[p] \in Seq(Nat)
  BY DEF RInv, Kept, Stored
<1>3. Counted \in Seq(Nat)
  BY <1>1, <1>2, AssembledSeq DEF Counted
<1>4. Increasing(Counted \o mBuffer) /\ ToSet(Counted) \cup ToSet(mBuffer) \subseteq ToSet(taken)
  BY DEF RInv, Kept
<1>5. Increasing(Counted)
  <2> DEFINE n == Len(mBuffer)
  <2>1. n \in 0 .. n /\ n \in Nat
    BY <1>1
  <2>2. Increasing(Counted \o SubSeq(mBuffer, n + 1, n))
    BY <1>1, <1>3, <1>4, <2>1, EndOf
  <2>3. SubSeq(mBuffer, n + 1, n) = <<>>
    BY <1>1, <2>1
  <2> QED
    BY <1>3, <2>2, <2>3, ConcatEmptySeq
<1> QED
  BY <1>1, <1>3, <1>4, <1>5

(* What comes behind the bytes taken comes behind the parts.               *)
LEMMA Behind ==
  ASSUME FInv, NEW s \in Seq(Nat), Increasing(s), ToSet(s) \subseteq ToSet(taken),
         NEW t \in Seq(Nat),
         \A k \in 1 .. Len(t) : t[k] = given - Len(buffer) + buffPos + k
  PROVE  Increasing(s \o t)
<1> DEFINE b == given - Len(buffer) + buffPos
<1>1. /\ given \in Nat /\ Len(buffer) \in Nat /\ Len(buffer) <= given /\ buffPos \in Nat
      /\ taken \in Seq(Nat) /\ \A i \in 1 .. Len(taken) : taken[i] <= b
  BY DEF FInv, TypeOK, Argument, Taken
<1>2. b \in Nat
  BY <1>1
<1>3. \A i \in 1 .. Len(s) : s[i] <= b
  <2> SUFFICES ASSUME NEW i \in 1 .. Len(s) PROVE s[i] <= b
    OBVIOUS
  <2>1. \A j \in 1 .. Len(s) : s[j] \in ToSet(s)
    BY DEF ToSet
  <2>2. \A x \in ToSet(taken) : \E j \in 1 .. Len(taken) : taken[j] = x
    BY <1>1 DEF ToSet
  <2>3. PICK j \in 1 .. Len(taken) : taken[j] = s[i]
    BY <2>1, <2>2
  <2> QED
    BY <1>1, <2>3
<1>4. \A k \in 1 .. Len(t) : t[k] = b + k
  OBVIOUS
<1> HIDE DEF b
<1> QED
  BY <1>2, <1>3, <1>4, Lengthened

LEMMA TakenGrows ==
  ASSUME FInv, NEW t \in Seq(Nat), taken' = taken \o t
  PROVE  ToSet(taken) \subseteq ToSet(taken') /\ ToSet(t) \subseteq ToSet(taken')
<1>1. taken \in Seq(Nat)
  BY DEF FInv, TypeOK
<1> QED
  BY <1>1, ToSetConcat

(* The parts, the buffer and the object are left alone, and nothing has    *)
(* arrived.                                                                *)
LEMMA StillKept ==
  ASSUME FInv, RInv, UNCHANGED <<mBuffer, mPartNum, server, taken>>,
         handle' # "freed" => handle # "freed",
         pc' = "request" /\ op' = "upload" /\ handle # "freed" /\ server.upload = "open" =>
           Follows(md)',
         pc' # "reply"
  PROVE  Kept' /\ AbortKnown' /\ ObjectIsSelection'
<1>1. Counted' = Counted
  BY DEF Counted
<1>2. Kept'
  BY <1>1 DEF RInv, Kept
<1> QED
  BY <1>2 DEF RInv, AbortKnown, ObjectIsSelection

LEMMA WriteKept ==
  ASSUME FInv, RInv, NEW n \in WriteSizes, Write(n)
  PROVE  RInv'
<1>1. /\ handle = "open" /\ pc = "idle" /\ api' = "write"
      /\ \/ mCache /\ pc' = "fill" /\ op' = op
         \/ ~ mCache /\ pc' = "request" /\ op' = "upload" /\ md' = buffer'
      /\ buffer' = [k \in 1 .. n |-> given + k]
      /\ UNCHANGED <<handle, mCache, mBuffer, mPartNum, mCanceled, server, result, taken>>
  BY DEF Write, Request, writer
<1>2. op = "none" /\ Len(buffer) = 0 /\ buffPos = 0 /\ given \in Nat
  BY <1>1 DEF FInv, TypeOK, Argument
<1>3. buffer' \in Seq(Nat) /\ Len(buffer') = n /\ n \in Nat \ {0}
  BY WriteStep, WriterAssumption
<1>4. \A k \in 1 .. Len(buffer') : buffer'[k] = given - Len(buffer) + buffPos + k
  BY <1>1, <1>2, <1>3
<1>5. buffer' # <<>>
  BY <1>3
<1>6. Serving' /\ Stored'
  BY <1>1, <1>2, <1>5 DEF RInv, Serving, Stored
<1>7. ASSUME pc' = "request", op' = "upload", server.upload = "open" PROVE Follows(md)'
  <2>1. Counted \in Seq(Nat) /\ Increasing(Counted) /\ ToSet(Counted) \subseteq ToSet(taken)
    BY <1>1, <1>7, CountedType
  <2>2. Increasing(Counted \o buffer')
    BY <1>3, <1>4, <2>1, Behind
  <2>3. Counted' = Counted /\ Body' = buffer' /\ md' = buffer'
    BY <1>1, <1>7 DEF Counted, Body
  <2> QED
    BY <2>2, <2>3 DEF Follows
<1> QED
  BY <1>1, <1>6, <1>7, StillKept DEF RInv

LEMMA FillKept ==
  ASSUME FInv, RInv, Fill
  PROVE  RInv'
<1> DEFINE c == Copied
<1>1. /\ c \in Seq(Nat) /\ mBuffer \in Seq(Nat) /\ pc = "fill" /\ mCache
      /\ \A k \in 1 .. Len(c) : c[k] = given - Len(buffer) + buffPos + k
  BY CopiedProperties DEF FInv, TypeOK, Argument, Fill
<1>2. /\ mBuffer' = mBuffer \o c /\ taken' = taken \o c
      /\ UNCHANGED <<handle, mCache, mPartNum, mCanceled, api, buffer, server, result>>
  BY DEF Fill
<1>3. \/ pc' = "request" /\ op' = "upload" /\ md' = mBuffer'
      \/ pc' = "fill" /\ UNCHANGED op
  BY <1>1 DEF Fill, Request
<1>4. api = "write" /\ handle = "open" /\ op \in {"none", "upload"}
  BY <1>1 DEF RInv, Serving
<1> HIDE DEF c
<1>5. Serving' /\ Stored'
  BY <1>2, <1>3, <1>4 DEF RInv, Serving, Stored
<1>6. ToSet(taken) \subseteq ToSet(taken') /\ ToSet(c) \subseteq ToSet(taken')
  BY <1>1, <1>2, TakenGrows
<1>7. Kept'
  <2> SUFFICES ASSUME server.upload = "open" PROVE Kept'
    BY <1>2 DEF Kept
  <2>1. /\ Counted \in Seq(Nat) /\ Increasing(Counted \o mBuffer)
        /\ ToSet(Counted) \subseteq ToSet(taken) /\ ToSet(mBuffer) \subseteq ToSet(taken)
    BY <1>4, CountedType
  <2>2. Counted' = Counted
    BY <1>2 DEF Counted
  <2>3. Increasing(Counted \o mBuffer')
    <3>1. /\ Counted \o mBuffer \in Seq(Nat)
          /\ ToSet(Counted \o mBuffer) = ToSet(Counted) \cup ToSet(mBuffer)
      BY <1>1, <2>1, ConcatProperties, ToSetConcat
    <3>2. Increasing((Counted \o mBuffer) \o c)
      BY <1>1, <2>1, <3>1, Behind
    <3> QED
      BY <1>1, <1>2, <2>1, <3>2, ConcatBytes
  <2>4. ToSet(mBuffer') = ToSet(mBuffer) \cup ToSet(c)
    BY <1>1, <1>2, ToSetConcat
  <2>5. ToSet(Counted) \cup ToSet(mBuffer') \subseteq ToSet(taken')
    BY <1>6, <2>1, <2>4
  <2>6. pc' = "request" => Follows(md)'
    <3>1. pc' = "request" => Body' = mBuffer' /\ md' = mBuffer'
      BY <1>1, <1>2, <1>3 DEF Body
    <3> QED
      BY <2>2, <2>3, <3>1 DEF Follows
  <2>7. pc' # "reply"
    BY <1>3
  <2> QED
    BY <1>2, <1>4, <2>2, <2>3, <2>5, <2>6, <2>7 DEF RInv, Kept
<1>8. AbortKnown' /\ ObjectIsSelection'
  BY <1>2, <1>3, <1>6 DEF RInv, AbortKnown, ObjectIsSelection
<1> QED
  BY <1>5, <1>7, <1>8 DEF RInv

(* What a request does when the store accepts it, be its answer received   *)
(* or not: whatever is left of its body becomes the part.                  *)
LEMMA EffectKept ==
  ASSUME FInv, RInv, pc = "request", Accepted,
         server' = Effect(server, op, md, mPartNum),
         UNCHANGED <<handle, mCache, mBuffer, mPartNum, mCanceled, api, op, buffer, taken>>
  PROVE  /\ Stored' /\ ObjectIsSelection'
         /\ op = "abort" => server'.upload # "open"
         /\ server'.upload = "open" =>
              /\ \A p \in 0 .. mPartNum - 1 : p \in DOMAIN server'.parts
              /\ Increasing(Counted' \o mBuffer)
              /\ ToSet(Counted') \cup ToSet(mBuffer) \subseteq ToSet(taken)
              /\ op = "upload" => /\ server.upload = "open" /\ Counted' = Counted
                                  /\ mPartNum \in DOMAIN server'.parts
                                  /\ server'.parts[mPartNum] = md
<1> DEFINE n == mPartNum
           ps == server.parts
<1>1. /\ n \in Nat /\ mBuffer \in Seq(Nat) /\ taken \in Seq(Nat) /\ md \in Seq(Nat)
      /\ server = [upload |-> server.upload, parts |-> ps, object |-> server.object]
      /\ \A p \in DOMAIN ps : ps[p] \in Seq(Nat)
  BY DEF FInv, TypeOK, RInv, Stored
<1>2. /\ handle # "freed"
      /\ <<api, op>> \in {<<"put", "init">>, <<"write", "upload">>, <<"close", "upload">>,
                          <<"close", "complete">>, <<"cancel", "abort">>}
  BY DEF RInv, Serving
<1>3. CASE op = "init"
  <2>1. /\ server' = [upload |-> "open", parts |-> [p \in {} |-> <<>>], object |-> server.object]
        /\ mBuffer = <<>> /\ mPartNum = 0 /\ ~ mCanceled
    BY <1>1, <1>3 DEF Effect, RInv, Serving
  <2>2. Counted' = <<>> /\ <<>> \o <<>> = <<>>
    BY <2>1, AssembledParts DEF Counted
  <2>3. Increasing(<<>>) /\ ToSet(<<>>) = {}
    BY DEF Increasing, ToSet
  <2>4. Stored' /\ ObjectIsSelection'
    BY <2>1 DEF RInv, Stored, ObjectIsSelection
  <2> QED
    BY <1>3, <2>1, <2>2, <2>3, <2>4
<1>4. CASE op = "upload"
  <2>1. server.upload = "open" /\ ~ mCanceled
    BY <1>4 DEF Accepted, Legal, RInv, Stored
  <2> DEFINE qs == [p \in DOMAIN ps \cup {n} |-> IF p = n THEN md ELSE ps[p]]
  <2>2. server' = [upload |-> "open", parts |-> qs, object |-> server.object]
    BY <1>1, <1>4, <2>1 DEF Effect
  <2>3. /\ DOMAIN qs = DOMAIN ps \cup {n} /\ qs[n] = md
        /\ \A p \in DOMAIN ps : p # n => qs[p] = ps[p]
        /\ \A p \in DOMAIN qs : qs[p] \in Seq(Nat)
    BY <1>1
  <2> HIDE DEF qs
  <2>4. server'.parts = qs /\ server'.upload = "open" /\ server'.object = server.object
        /\ server' = [upload |-> server'.upload, parts |-> server'.parts,
                      object |-> server'.object]
    BY <2>2
  <2>5. \A p \in 0 .. n - 1 : p \in DOMAIN ps /\ p # n
    BY <1>1, <1>2, <2>1 DEF RInv, Kept
  <2>6. Assembled(qs, n) = Assembled(ps, n)
    <3>1. \A p \in 0 .. n - 1 : qs[p] = ps[p]
      BY <2>3, <2>5
    <3>2. n \in Nat
      BY <1>1
    <3> QED
      BY <3>1, <3>2, AssembledSame
  <2>7. Counted' = Counted
    BY <2>4, <2>6 DEF Counted
  <2>8. Stored' /\ ObjectIsSelection'
    BY <2>1, <2>3, <2>4 DEF RInv, Stored, ObjectIsSelection
  <2>9. Increasing(Counted \o mBuffer) /\ ToSet(Counted) \cup ToSet(mBuffer) \subseteq ToSet(taken)
    BY <1>2, <2>1 DEF RInv, Kept
  <2> QED
    BY <1>4, <2>1, <2>3, <2>4, <2>5, <2>7, <2>8, <2>9
<1>5. CASE op = "complete"
  <2>1. server.upload = "open" /\ ~ mCanceled
    BY <1>5 DEF Accepted, Legal, RInv, Stored
  <2>2. server' = [upload |-> "completed", parts |-> ps, object |-> Counted]
    BY <1>1, <1>5 DEF Effect, Counted
  <2>3. Increasing(Counted) /\ ToSet(Counted) \subseteq ToSet(taken)
    BY <1>2, <2>1, CountedType
  <2>4. Stored' /\ ObjectIsSelection'
    BY <1>1, <2>1, <2>2, <2>3 DEF Stored, ObjectIsSelection
  <2> QED
    BY <1>5, <2>2, <2>4
<1>6. CASE op = "abort"
  <2>1. server' = [upload |-> "aborted", parts |-> ps, object |-> server.object]
    BY <1>1, <1>6 DEF Effect
  <2>2. Stored' /\ ObjectIsSelection'
    BY <1>1, <2>1 DEF RInv, Stored, ObjectIsSelection
  <2> QED
    BY <1>6, <2>1, <2>2
<1> QED
  BY <1>2, <1>3, <1>4, <1>5, <1>6

LEMMA AttemptKept ==
  ASSUME RefusalsExplained, FInv, RInv, Attempt
  PROVE  RInv'
<1>1. /\ pc = "request" /\ pc' \in {"request", "reply"} /\ md \in Seq(Nat)
      /\ UNCHANGED <<handle, mCache, mBuffer, mPartNum, mCanceled, api, op, buffer, taken>>
  BY AttemptFrame DEF FInv, TypeOK
<1>2. handle # "freed" /\ Body' = Body
  BY <1>1 DEF RInv, Serving, Body
<1>3. Serving'
  BY <1>1 DEF RInv, Serving
(* What is left of the body still goes on after the parts.                 *)
<1>4. ASSUME server.upload = "open", op = "upload"
      PROVE  Increasing(Counted \o md') /\ ToSet(md') \subseteq ToSet(Body)
  <2>1. Counted \in Seq(Nat) /\ Follows(md)
    BY <1>1, <1>2, <1>4, CountedType DEF RInv, Kept
  <2>2. CASE md' = md
    BY <2>1, <2>2 DEF Follows
  <2>3. CASE \E k \in 0 .. Len(md) : Consume(k)
    <3>1. PICK k \in 0 .. Len(md) : md' = SubSeq(md, k + 1, Len(md))
      BY <2>3 DEF Consume
    <3>2. /\ Increasing(Counted \o SubSeq(md, k + 1, Len(md)))
          /\ ToSet(SubSeq(md, k + 1, Len(md))) \subseteq ToSet(md)
      BY <1>1, <2>1, EndOf DEF Follows
    <3> QED
      BY <2>1, <3>1, <3>2 DEF Follows
  <2>4. 1 .. Len(md) \subseteq 0 .. Len(md) /\ Len(md) \in 0 .. Len(md)
    BY <1>1
  <2> QED
    BY <2>2, <2>3, <2>4 DEF Attempt, AttemptOk, AttemptRefused, AttemptBroken
(* Success is reported only by an attempt that the store has acted on.     *)
<1>5. \/ Accepted /\ server' = Effect(server, op, md, mPartNum)
      \/ /\ server' = server
         /\ pc' = "reply" => reply' # "ok"
  <2>1. CASE AttemptOk
    BY <2>1 DEF AttemptOk
  <2>2. CASE AttemptRefused
    <3>1. server' = server /\ Conclude(Outcome("error"))
      BY <2>2 DEF AttemptRefused, RefusalsExplained
    <3>2. Outcome("error") # "ok"
      BY DEF Outcome
    <3> QED
      BY <1>1, <3>1, <3>2 DEF Conclude
  <2>3. CASE AttemptBroken
    <3>1. Conclude("throw")
      BY <2>3 DEF AttemptBroken
    <3>2. pc' = "reply" => reply' # "ok"
      BY <1>1, <3>1 DEF Conclude
    <3> QED
      BY <2>3, <3>2 DEF AttemptBroken
  <2> QED
    BY <2>1, <2>2, <2>3 DEF Attempt
<1>6. CASE Accepted /\ server' = Effect(server, op, md, mPartNum)
  <2>1. /\ Stored' /\ ObjectIsSelection'
        /\ op = "abort" => server'.upload # "open"
        /\ server'.upload = "open" =>
              /\ \A p \in 0 .. mPartNum - 1 : p \in DOMAIN server'.parts
              /\ Increasing(Counted' \o mBuffer)
              /\ ToSet(Counted') \cup ToSet(mBuffer) \subseteq ToSet(taken)
              /\ op = "upload" => /\ server.upload = "open" /\ Counted' = Counted
                                  /\ mPartNum \in DOMAIN server'.parts
                                  /\ server'.parts[mPartNum] = md
    BY <1>1, <1>6, EffectKept
  <2>2. Kept'
    <3>1. ASSUME server'.upload = "open", op = "upload"
          PROVE  Follows(md)' /\ Follows(server.parts[mPartNum])'
      <4>1. /\ server.upload = "open" /\ Counted' = Counted
            /\ server'.parts[mPartNum] = md
        BY <2>1, <3>1
      <4>2. Follows(md)
        BY <1>1, <1>2, <3>1, <4>1 DEF RInv, Kept
      <4> QED
        BY <1>1, <1>2, <1>4, <3>1, <4>1, <4>2 DEF Follows
    <3> QED
      BY <1>1, <2>1, <3>1 DEF Kept
  <2>3. AbortKnown'
    BY <1>1, <2>1 DEF AbortKnown
  <2> QED
    BY <1>3, <2>1, <2>2, <2>3 DEF RInv
<1>7. CASE server' = server /\ (pc' = "reply" => reply' # "ok")
  <2>1. Counted' = Counted
    BY <1>1, <1>7 DEF Counted
  <2>2. Kept'
    <3>1. ASSUME server.upload = "open", op = "upload" PROVE Follows(md)'
      BY <1>2, <1>4, <2>1, <3>1 DEF Follows
    <3> QED
      BY <1>1, <1>7, <2>1, <3>1 DEF RInv, Kept
  <2>3. Stored' /\ AbortKnown' /\ ObjectIsSelection'
    BY <1>1, <1>7 DEF RInv, Stored, AbortKnown, ObjectIsSelection
  <2> QED
    BY <1>3, <2>2, <2>3 DEF RInv
<1> QED
  BY <1>5, <1>6, <1>7

(* The part that was acknowledged counts: it is behind the others, and     *)
(* its bytes are taken, now if not before.                                 *)
LEMMA PartSentKept ==
  ASSUME FInv, RInv, PartSent
  PROVE  RInv'
<1> DEFINE n == mPartNum
           ps == server.parts
<1>1. /\ pc = "reply" /\ op = "upload" /\ reply = "ok" /\ mPartNum' = n + 1 /\ mBuffer' = <<>>
      /\ UNCHANGED <<handle, mCache, mCanceled, server>>
      /\ api \in {"write", "close"}
  BY DEF PartSent, PartSentAs
<1>2. /\ n \in Nat /\ mBuffer \in Seq(Nat) /\ buffer \in Seq(Nat) /\ taken \in Seq(Nat)
      /\ handle = "open"
  BY <1>1 DEF FInv, TypeOK, RInv, Serving
<1>3. /\ \/ ~ mCache /\ api = "write" /\ taken' = taken \o buffer /\ Return("ok")
         \/ (mCache \/ api = "close") /\ taken' = taken /\ UNCHANGED <<api, buffer>>
      /\ \/ pc' = "idle" /\ op' = "none" /\ api' = "none" /\ buffer' = <<>>
         \/ pc' = "fill" /\ api = "write" /\ UNCHANGED <<op, api, buffer>>
         \/ /\ pc' = "request" /\ op' = "complete" /\ api = "close"
            /\ UNCHANGED <<api, buffer>>
  BY DEF PartSent, PartSentAs, Return, Request
<1>4. ToSet(taken) \subseteq ToSet(taken')
  BY <1>2, <1>3, TakenGrows
<1>5. ASSUME server.upload = "open"
      PROVE  /\ \A p \in 0 .. (n + 1) - 1 : p \in DOMAIN ps
             /\ Increasing(Counted') /\ ToSet(Counted') \subseteq ToSet(taken')
             /\ Counted' \in Seq(Nat)
  <2>1. /\ Counted \in Seq(Nat) /\ ToSet(Counted) \subseteq ToSet(taken)
        /\ ToSet(mBuffer) \subseteq ToSet(taken)
    BY <1>2, <1>5, CountedType
  <2>2. /\ n \in DOMAIN ps /\ ps[n] \in Seq(Nat) /\ Follows(ps[n])
        /\ \A p \in 0 .. n - 1 : p \in DOMAIN ps
    BY <1>1, <1>2, <1>5 DEF RInv, Kept, Stored
  <2>3. Counted' = Counted \o ps[n]
    BY <1>1, <1>2, AssembledParts DEF Counted
  <2>4. ToSet(Counted') = ToSet(Counted) \cup ToSet(ps[n]) /\ Counted' \in Seq(Nat)
    BY <2>1, <2>2, <2>3, ToSetConcat, ConcatProperties
  <2>5. ToSet(Body) \subseteq ToSet(taken')
    <3>1. CASE mCache
      BY <1>1, <1>4, <2>1, <3>1 DEF Body
    <3>2. CASE ~ mCache /\ api = "write"
      <4>1. ToSet(buffer) \subseteq ToSet(taken')
        BY <1>2, <1>3, <3>2, TakenGrows
      <4> QED
        BY <1>1, <3>2, <4>1 DEF Body
    <3>3. CASE ~ mCache /\ api = "close"
      <4>1. buffer = <<>>
        BY <3>3 DEF FInv, Argument
      <4> QED
        BY <1>1, <3>3, <4>1 DEF Body, ToSet
    <3> QED
      BY <1>1, <3>1, <3>2, <3>3
  <2>6. \A p \in 0 .. (n + 1) - 1 : p \in 0 .. n - 1 \/ p = n
    BY <1>2
  <2> QED
    BY <1>4, <2>1, <2>2, <2>3, <2>4, <2>5, <2>6 DEF Follows
<1>6. Kept'
  <2> SUFFICES ASSUME server.upload = "open"
               PROVE  /\ \A p \in 0 .. (n + 1) - 1 : p \in DOMAIN ps
                      /\ Increasing(Counted' \o mBuffer')
                      /\ ToSet(Counted') \cup ToSet(mBuffer') \subseteq ToSet(taken')
    BY <1>1, <1>3 DEF Kept
  <2>1. Counted' \o <<>> = Counted' /\ ToSet(<<>>) = {}
    BY <1>5, ConcatEmptySeq DEF ToSet
  <2> QED
    BY <1>1, <1>5, <2>1
<1>7. Serving' /\ Stored'
  BY <1>1, <1>2, <1>3 DEF RInv, Serving, Stored
<1>8. AbortKnown' /\ ObjectIsSelection'
  BY <1>1, <1>3, <1>4 DEF RInv, AbortKnown, ObjectIsSelection
<1> QED
  BY <1>6, <1>7, <1>8 DEF RInv

LEMMA NextRInv ==
  ASSUME RefusalsExplained, FInv, RInv, [Next]_vars
  PROVE  RInv'
<1>1. CASE PutObject
  <2>1. /\ handle = "none" /\ pc = "idle" /\ pc' = "request" /\ api' = "put" /\ op' = "init"
        /\ UNCHANGED <<handle, buffer, mCache, mBuffer, mPartNum, mCanceled, server, taken>>
    BY <1>1 DEF PutObject, Request, writer, ghosts
  <2>2. Serving' /\ Stored'
    BY <2>1 DEF RInv, Serving, Stored
  <2> QED
    BY <2>1, <2>2, StillKept DEF RInv
<1>2. ASSUME NEW n \in WriteSizes, Write(n) PROVE RInv'
  BY <1>2, WriteKept
<1>3. CASE Close
  <2>1. handle = "open" /\ pc = "idle" /\ UNCHANGED <<writer, server, ghosts>>
    BY <1>3 DEF Close
  <2>2. CASE mCanceled
    <3>1. pc' = "idle" /\ handle' = "freed" /\ op' = "none" /\ api' = "none" /\ buffer' = <<>>
      BY <1>3, <2>2 DEF Close, Return
    <3>2. Serving' /\ Stored'
      BY <2>1, <3>1 DEF RInv, Serving, Stored, writer, ghosts
    <3> QED
      BY <2>1, <3>1, <3>2, StillKept DEF RInv, writer, ghosts
  <2>3. CASE ~ mCanceled
    <3>1. /\ api' = "close" /\ UNCHANGED <<handle, buffer>> /\ pc' = "request"
          /\ \/ op' = "upload" /\ md' = mBuffer
             \/ ~ mCache /\ op' = "complete"
      BY <1>3, <2>3 DEF Close, Request
    <3>2. buffer = <<>> /\ (~ mCache => mBuffer = <<>>)
      <4>1. ~ mCache => Len(mBuffer) <= 0 /\ mBuffer \in Seq(Nat)
        BY DEF FInv, TypeOK
      <4> QED
        BY <2>1, <4>1 DEF FInv, Argument
    <3>3. Serving' /\ Stored'
      BY <2>1, <2>3, <3>1, <3>2 DEF RInv, Serving, Stored, writer, ghosts
    <3>4. ASSUME op' = "upload", server.upload = "open" PROVE Follows(md)'
      <4>1. md' = mBuffer /\ Body' = mBuffer /\ Counted' = Counted
        BY <2>1, <3>1, <3>2, <3>4 DEF Body, Counted, writer
      <4> QED
        BY <2>1, <3>4, <4>1, CountedType DEF Follows
    <3> QED
      BY <2>1, <3>1, <3>3, <3>4, StillKept DEF RInv, writer, ghosts
  <2> QED
    BY <2>2, <2>3
<1>4. CASE Cancel
  <2>1. /\ handle = "open" /\ pc = "idle" /\ pc' = "request" /\ api' = "cancel" /\ op' = "abort"
        /\ UNCHANGED <<handle, writer, buffer, server, taken>>
    BY <1>4 DEF Cancel, Request
  <2>2. Serving' /\ Stored'
    BY <2>1 DEF RInv, Serving, Stored, writer
  <2> QED
    BY <2>1, <2>2, StillKept DEF RInv, writer
<1>5. CASE Fill
  BY <1>5, FillKept
<1>6. CASE Attempt
  BY <1>6, AttemptKept
<1>7. CASE PartSent
  BY <1>7, PartSentKept
<1>8. CASE Written \/ Opened \/ Completed \/ Failed
  <2>1. /\ pc' = "idle" /\ op' = "none" /\ api' = "none" /\ buffer' = <<>>
        /\ UNCHANGED <<writer, server, taken>>
    BY <1>8 DEF Written, Opened, Completed, Failed, Return, ghosts
  <2>2. pc \in {"fill", "reply"} /\ handle # "freed" /\ handle' # "none"
    BY <1>8 DEF Written, Opened, Completed, Failed, RInv, Serving
  <2>3. Serving' /\ Stored'
    BY <2>1, <2>2 DEF RInv, Serving, Stored, writer
  <2> QED
    BY <2>1, <2>2, <2>3, StillKept DEF RInv, writer
<1>9. CASE Aborted
  <2>1. /\ pc = "reply" /\ op = "abort" /\ reply = "ok"
        /\ pc' = "idle" /\ op' = "none" /\ api' = "none" /\ buffer' = <<>>
        /\ UNCHANGED <<handle, server, taken>>
    BY <1>9 DEF Aborted, Return, ghosts
  <2>2. server.upload # "open" /\ handle # "none" /\ handle # "freed"
    BY <2>1 DEF RInv, AbortKnown, Serving
  <2> QED
    BY <2>1, <2>2 DEF RInv, Serving, Stored, Kept, AbortKnown, ObjectIsSelection
<1>10. CASE UNCHANGED vars
  <2>1. Body' = Body /\ Counted' = Counted
    BY <1>10 DEF vars, writer, call, Body, Counted
  <2> QED
    BY <1>10, <2>1 DEF vars, writer, call, ghosts, RInv, Serving, Stored, Kept, Follows,
                       AbortKnown, ObjectIsSelection
<1> QED
  BY <1>1, <1>2, <1>3, <1>4, <1>5, <1>6, <1>7, <1>8, <1>9, <1>10 DEF Next, Running, Freed

LEMMA InitRInv == Init => RInv
<1> SUFFICES ASSUME Init PROVE RInv
  OBVIOUS
<1>1. Serving /\ Stored /\ Kept
  BY DEF Init, Serving, Stored, Kept, NoUpload
<1> QED
  BY <1>1 DEF Init, RInv, AbortKnown, ObjectIsSelection, NoUpload

(* However often a request is tried again, and with whatever is left of    *)
(* its body: the object has no byte that was not taken, none twice and     *)
(* none out of order.  Finding 3 can leave bytes out, and do no more.      *)
THEOREM WriterObjectIsSelection ==
  ASSUME RefusalsExplained
  PROVE  Spec => []ObjectIsSelection
<1>1. RInv => ObjectIsSelection
  BY DEF RInv
<1>2. FInv /\ RInv /\ [Next]_vars => (FInv /\ RInv)'
  BY NextFInv, NextRInv
<1> QED
  BY <1>1, <1>2, InitFInv, InitRInv, PTL DEF Spec

-----------------------------------------------------------------------------
(* The writer implements the object upload *)

(* Bytes of the argument that come to those taken are taken by the object. *)
LEMMA TakeStep ==
  ASSUME FInv, NEW t \in Seq(Nat), Len(t) # 0,
         \A k \in 1 .. Len(t) : /\ buffPos + k \in 1 .. Len(buffer)
                                /\ t[k] = given - Len(buffer) + buffPos + k,
         taken' = taken \o t, handle # "freed", server.object = Absent,
         UNCHANGED <<server, handle, mCanceled>>
  PROVE  Upload!Next
<1> DEFINE b == given - Len(buffer) + buffPos + 1
           c == given - Len(buffer) + buffPos + Len(t)
<1>1. /\ given \in 0 .. MaxBytes /\ MaxBytes \in Nat /\ taken \in Seq(Nat)
      /\ buffer \in Seq(Nat) /\ buffPos \in 0 .. Len(buffer) /\ Len(buffer) <= given
      /\ Len(buffer) \in Nat /\ Len(t) \in Nat /\ Len(taken) \in Nat
  BY WriterAssumption, LenProperties DEF FInv, TypeOK, Argument
<1>2. 1 \in 1 .. Len(t) /\ Len(t) \in 1 .. Len(t)
  BY <1>1
<1>3. buffPos + 1 <= Len(buffer) /\ buffPos + Len(t) <= Len(buffer)
  BY <1>1, <1>2
<1>4. b \in 1 .. MaxBytes /\ c \in 1 .. MaxBytes /\ b <= c /\ c - b + 1 = Len(t)
  BY <1>1, <1>2, <1>3, SMTT(60)
<1>5. t = [k \in 1 .. Len(t) |-> b + k - 1]
  <2>1. \A k \in 1 .. Len(t) : b + k - 1 = given - Len(buffer) + buffPos + k
    BY <1>1
  <2>2. t = [k \in 1 .. Len(t) |-> t[k]]
    BY <1>1
  <2>3. \A k \in 1 .. Len(t) : t[k] = b + k - 1
    BY <2>1
  <2> HIDE DEF b
  <2> QED
    BY <2>2, <2>3
<1>6. taken = <<>> \/ taken[Len(taken)] < b
  <2>1. CASE taken # <<>>
    <3>1. Len(taken) \in 1 .. Len(taken)
      BY <1>1, <2>1
    <3>2. taken[Len(taken)] <= given - Len(buffer) + buffPos /\ taken[Len(taken)] \in Nat
      BY <1>1, <3>1 DEF FInv, Taken
    <3> QED
      BY <1>1, <3>2
  <2> QED
    BY <2>1
<1> HIDE DEF b, c
<1>7. Upload!Take(b, c)
  BY <1>4, <1>5, <1>6 DEF Upload!Take
<1> QED
  BY <1>4, <1>7 DEF Upload!Next

LEMMA UploadStep ==
  ASSUME WholeBodies, RefusalsExplained, FInv, UInv, UInv', [Next]_vars
  PROVE  [Upload!Next]_(Upload!vars)
<1> DEFINE Stutter == UNCHANGED <<taken, server, handle, mCanceled>>
<1>1. Stutter => UNCHANGED Upload!vars
  BY DEF Upload!vars
<1>2. CASE PutObject \/ Cancel \/ Written
  BY <1>1, <1>2 DEF PutObject, Cancel, Written, writer, ghosts
<1>3. ASSUME NEW n \in WriteSizes, Write(n) PROVE UNCHANGED Upload!vars
  BY <1>1, <1>3 DEF Write, writer
<1>4. CASE Close
  <2>1. UNCHANGED <<taken, server, mCanceled>> /\ handle' \in {handle, "freed"}
    BY <1>4 DEF Close, writer, ghosts
  <2> QED
    BY <1>1, <2>1 DEF Upload!Next, Upload!Close
<1>5. CASE Fill
  <2>1. /\ pc = "fill" /\ taken' = taken \o Copied /\ UNCHANGED <<server, handle, mCanceled>>
        /\ handle # "freed" /\ server.object = Absent
    BY <1>5 DEF Fill, UInv, Serving, Unpublished
  <2>2. /\ Copied \in Seq(Nat)
        /\ \A k \in 1 .. Len(Copied) : /\ buffPos + k \in 1 .. Len(buffer)
                                       /\ Copied[k] = given - Len(buffer) + buffPos + k
    BY <2>1, CopiedProperties
  <2> DEFINE t == Copied
  <2> HIDE DEF t
  <2>3. CASE Len(t) = 0
    <3>1. taken \in Seq(Nat) /\ t = <<>>
      BY <2>2, <2>3 DEF FInv, TypeOK, t
    <3>2. taken' = taken
      BY <2>1, <3>1, ConcatEmptySeq DEF t
    <3> QED
      BY <1>1, <2>1, <3>2
  <2>4. CASE Len(t) # 0
    BY <2>1, <2>2, <2>4, TakeStep DEF t
  <2> QED
    BY <2>3, <2>4
<1>6. CASE Attempt
  <2>1. /\ pc = "request" /\ handle # "freed" /\ server.object = Absent
        /\ UNCHANGED <<taken, handle, mCanceled>>
        /\ op = "complete" => ~ mCanceled /\ api = "close"
    BY <1>6 DEF Attempt, writer, ghosts, UInv, Serving, Unpublished
  <2>2. CASE server'.object = server.object
    BY <2>1, <2>2 DEF Upload!vars
  <2>3. CASE server'.object # server.object
    <3>1. Accepted /\ server' = Effect(server, op, md, mPartNum)
      BY <1>6, <2>3 DEF Attempt, AttemptOk, AttemptRefused, AttemptBroken
    <3>2. /\ op = "complete" => server'.object = taken'
          /\ op # "complete" => server'.object = server.object
      BY <1>6, <2>1, <3>1, AttemptFrame, EffectHolds DEF FInv
    <3>3. Upload!Publish
      BY <2>1, <2>3, <3>2 DEF Upload!Publish
    <3> QED
      BY <3>3 DEF Upload!Next
  <2> QED
    BY <2>2, <2>3
<1>7. CASE Opened
  <2>1. handle = "none" /\ handle' = "open" /\ UNCHANGED <<taken, server, mCanceled>>
    BY <1>7 DEF Opened, UInv, Serving, writer, ghosts
  <2> QED
    BY <2>1 DEF Upload!vars
<1>8. CASE PartSent
  <2>1. UNCHANGED <<server, handle, mCanceled>> /\ pc = "reply" /\ op = "upload"
    BY <1>8 DEF PartSent, PartSentAs
  <2>2. handle # "freed" /\ server.object = Absent
    BY <2>1 DEF UInv, Serving, Unpublished
  <2>3. CASE taken' = taken
    BY <1>1, <2>1, <2>3
  <2>4. CASE taken' # taken
    <3>1. taken' = taken \o buffer /\ ~ mCache /\ api = "write"
      BY <1>8, <2>4 DEF PartSent, PartSentAs
    <3>2. /\ buffer \in Seq(Nat) /\ buffer # <<>> /\ buffPos = 0 /\ given \in Nat
          /\ \A k \in 1 .. Len(buffer) : buffer[k] = given - Len(buffer) + k
      BY <3>1 DEF FInv, TypeOK, Argument, UInv, Serving
    <3>3. Len(buffer) # 0 /\ Len(buffer) \in Nat
      BY <3>2
    <3>4. \A k \in 1 .. Len(buffer) : /\ buffPos + k \in 1 .. Len(buffer)
                                      /\ buffer[k] = given - Len(buffer) + buffPos + k
      BY <3>2, <3>3
    <3> QED
      BY <2>1, <2>2, <3>1, <3>2, <3>3, <3>4, TakeStep
  <2> QED
    BY <2>3, <2>4
<1>9. CASE Completed \/ Failed
  <2>1. UNCHANGED <<taken, server, mCanceled>> /\ handle' \in {handle, "freed"}
    BY <1>9 DEF Completed, Failed, writer, ghosts
  <2> QED
    BY <1>1, <2>1 DEF Upload!Next, Upload!Close
<1>10. CASE Aborted
  <2>1. /\ pc = "reply" /\ op = "abort" /\ mCanceled' /\ UNCHANGED <<taken, server, handle>>
    BY <1>10 DEF Aborted, ghosts
  <2>2. handle # "freed" /\ server.object = Absent
    BY <2>1 DEF UInv, Serving, Unpublished
  <2>3. CASE mCanceled
    BY <2>1, <2>3 DEF Upload!vars
  <2>4. CASE ~ mCanceled
    BY <2>1, <2>2, <2>4 DEF Upload!Next, Upload!Cancel
  <2> QED
    BY <2>3, <2>4
<1>11. CASE UNCHANGED vars
  BY <1>1, <1>11 DEF vars, writer, ghosts
<1> QED
  BY <1>2, <1>3, <1>4, <1>5, <1>6, <1>7, <1>8, <1>9, <1>10, <1>11 DEF Next, Running, Freed

(* Seen from the store, the writer is an object upload: the object appears *)
(* at the close, all at once, or never.                                    *)
THEOREM WriterImplementsUpload ==
  ASSUME WholeBodies, RefusalsExplained
  PROVE  Spec => ImplementsObjectUpload
<1>1. Init => Upload!Init
  BY DEF Init, Upload!Init, NoUpload
<1>2. FInv /\ UInv /\ [Next]_vars => (FInv /\ UInv)'
  BY NextFInv, NextUInv
<1>3. FInv /\ UInv /\ UInv' /\ [Next]_vars => [Upload!Next]_(Upload!vars)
  BY UploadStep
<1> QED
  BY <1>1, <1>2, <1>3, InitFInv, InitUInv, PTL DEF Spec, ImplementsObjectUpload, Upload!Spec

=============================================================================
