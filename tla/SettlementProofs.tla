--------------------------- MODULE SettlementProofs ---------------------------
(***************************************************************************)
(* What packages/solana guarantees of the payments it makes.  First: what  *)
(* the finalization of a task's channels comes to, for any channels,       *)
(* requests, finalizers and faults (ChannelFinalization).  Then: one       *)
(* broadcast at most for each payment, and the promise the handlers above  *)
(* the gateway rely on, for any callers and any bounds on retries, polls   *)
(* and initializations (SettlementRetry).                                  *)
(***************************************************************************)
EXTENDS ChannelFinalization, SettlementRetry, FiniteSetTheorems, WellFoundedInduction, TLAPS

-----------------------------------------------------------------------------
(* Sums of a sequence of amounts.                                          *)

\* Numbers that are not all beyond a property have a least one that is.
LEMMA Least ==
  ASSUME NEW S \in SUBSET Nat, S # {}
  PROVE  \E x \in S : \A y \in S : x <= y
<1> DEFINE R == OpToRel(<, Nat)
<1>1. IsWellFoundedOn(R, Nat)
  BY NatLessThanWellFounded
<1>2. \A x, y \in Nat : <<x, y>> \in R <=> x < y
  BY DEF OpToRel
<1> HIDE DEF R
<1>3. IsWellFoundedOn(R, Nat) /\ S \subseteq Nat /\ S # {}
  BY <1>1
<1>4. PICK x \in S : \A y \in S : ~(<<y, x>> \in R)
  BY <1>3, WFMin
<1>5. x \in Nat /\ \A y \in S : y \in Nat
  BY <1>4
<1>6. \A y \in S : ~(y < x)
  BY <1>2, <1>4, <1>5
<1>7. \A y \in S : x <= y
  BY <1>5, <1>6
<1> QED
  BY <1>4, <1>7

\* Induction over an initial segment, stated for the set of the numbers that
\* have a property.
LEMMA Segment ==
  ASSUME NEW n \in Nat, NEW P \in SUBSET (0..n),
         0 \in P, \A i \in 1..n : i - 1 \in P => i \in P
  PROVE  P = 0..n
<1> SUFFICES ASSUME P # 0..n
             PROVE  FALSE
  OBVIOUS
<1> DEFINE S == (0..n) \ P
<1>0. P \subseteq 0..n /\ \E i \in 0..n : i \notin P
  OBVIOUS
<1>1. S \in SUBSET Nat /\ S # {}
  BY <1>0
<1>2. PICK x \in S : \A y \in S : x <= y
  BY <1>1, Least
<1>3. x \in 1..n /\ x - 1 \in 0..n /\ ~(x <= x - 1)
  BY <1>2
<1>4. x - 1 \in P
  BY <1>2, <1>3
<1> QED
  BY <1>2, <1>3, <1>4

\* The function Total computes its sums with.
IsUpTo(s, amounts) ==
  s = [i \in 0..Len(amounts) |-> IF i = 0 THEN 0 ELSE s[i - 1] + amounts[i]]

Amounts == Seq(Nat)

\* The recursive function in Total exists.
LEMMA UpToExists ==
  ASSUME NEW amounts \in Amounts
  PROVE  \E s : IsUpTo(s, amounts)
<1> DEFINE n == Len(amounts)
           Up(k, s) == s = [i \in 0..k |-> IF i = 0 THEN 0 ELSE s[i - 1] + amounts[i]]
           P == {k \in 0..n : \E s : Up(k, s)}
<1>1. n \in Nat
  BY DEF Amounts
<1>2. 0 \in P
  <2>1. Up(0, [i \in 0..0 |-> 0])
    OBVIOUS
  <2>2. \E s : Up(0, s)
    BY <2>1
  <2> HIDE DEF Up
  <2> QED
    BY <1>1, <2>2
<1>3. ASSUME NEW k \in 1..n, k - 1 \in P
      PROVE  k \in P
  <2>1. PICK s : Up(k - 1, s)
    BY <1>3
  <2> DEFINE t == [i \in 0..k |-> IF i = k THEN s[k - 1] + amounts[k] ELSE s[i]]
  <2>2. \A i \in 0..(k - 1) : t[i] = s[i]
    BY <1>1
  <2>3. \A i \in 0..(k - 1) : s[i] = IF i = 0 THEN 0 ELSE s[i - 1] + amounts[i]
    BY <2>1
  <2>4. \A i \in 0..k : t[i] = IF i = 0 THEN 0 ELSE t[i - 1] + amounts[i]
    <3> TAKE i \in 0..k
    <3>1. CASE i = k
      <4>1. i # 0 /\ i - 1 \in 0..(k - 1) /\ t[i] = s[k - 1] + amounts[k]
        BY <1>1, <3>1
      <4> QED
        BY <2>2, <3>1, <4>1
    <3>2. CASE i # k
      <4>1. i \in 0..(k - 1) /\ (i # 0 => i - 1 \in 0..(k - 1))
        BY <1>1, <3>2
      <4> QED
        BY <2>2, <2>3, <4>1
    <3> QED
      BY <3>1, <3>2
  <2>5. t = [i \in 0..k |-> t[i]]
    OBVIOUS
  <2> HIDE DEF t
  <2>6. [i \in 0..k |-> t[i]] = [i \in 0..k |-> IF i = 0 THEN 0 ELSE t[i - 1] + amounts[i]]
    BY <2>4
  <2>7. Up(k, t)
    BY <2>5, <2>6
  <2>8. k \in 0..n
    BY <1>1
  <2> QED
    BY <2>7, <2>8
<1> HIDE DEF Up
<1>4. P \in SUBSET (0..n) /\ \A i \in 1..n : i - 1 \in P => i \in P
  BY <1>3
<1> HIDE DEF P
<1>5. P = 0..n
  BY <1>1, <1>2, <1>4, Segment
<1>6. n \in P
  BY <1>1, <1>5
<1>7. \E s : Up(n, s)
  BY <1>6 DEF P
<1> QED
  BY <1>7 DEF IsUpTo, Up

\* Total adds the amounts up, one after the other.
LEMMA TotalIs ==
  ASSUME NEW amounts \in Amounts
  PROVE  \E s : /\ Total(amounts) = s[Len(amounts)]
                /\ s[0] = 0
                /\ \A i \in 1..Len(amounts) : s[i] = s[i - 1] + amounts[i]
<1> DEFINE s == CHOOSE g : IsUpTo(g, amounts)
<1>1. IsUpTo(s, amounts)
  BY UpToExists
<1>2. Total(amounts) = s[Len(amounts)]
  BY DEF Total, IsUpTo
<1> HIDE DEF s
<1>3. Len(amounts) \in Nat
  BY DEF Amounts
<1>4. \A i \in 0..Len(amounts) : s[i] = IF i = 0 THEN 0 ELSE s[i - 1] + amounts[i]
  BY <1>1 DEF IsUpTo
<1>5. s[0] = 0
  BY <1>3, <1>4
<1>6. \A i \in 1..Len(amounts) : s[i] = s[i - 1] + amounts[i]
  BY <1>3, <1>4
<1> QED
  BY <1>2, <1>5, <1>6

\* One more split of an amount keeps the sum of the splits.
LEMMA OneMoreSplit ==
  ASSUME NEW x \in Nat, NEW y \in Nat, NEW z \in Nat, NEW p \in Nat, NEW q \in Nat,
         NEW r \in Nat, NEW each \in Nat, NEW e \in Nat, NEW f \in Nat,
         x + y + z = e, p + q + r = each, e + each = f
  PROVE  /\ x + p \in Nat /\ y + q \in Nat /\ z + r \in Nat
         /\ (x + p) + (y + q) + (z + r) = f
  OBVIOUS

\* A product, which the provers need not look into.
Times(each, n) == each * n

\* Every channel's amount is split in three.
Split(a, b, c, each, n) == \A i \in 1..n : a[i] + b[i] + c[i] = each

\* Three splits of one amount per channel add up to that amount times the
\* number of channels.
LEMMA SplitsAddUp ==
  ASSUME NEW n \in Nat, NEW each \in Nat,
         NEW a \in Amounts, NEW b \in Amounts, NEW c \in Amounts,
         Len(a) = n, Len(b) = n, Len(c) = n,
         Split(a, b, c, each, n)
  PROVE  /\ Total(a) \in Nat /\ Total(b) \in Nat /\ Total(c) \in Nat
         /\ Total(a) + Total(b) + Total(c) = Times(each, n)
<1>1. PICK sa : /\ Total(a) = sa[n] /\ sa[0] = 0
                /\ \A i \in 1..n : sa[i] = sa[i - 1] + a[i]
  BY TotalIs
<1>2. PICK sb : /\ Total(b) = sb[n] /\ sb[0] = 0
                /\ \A i \in 1..n : sb[i] = sb[i - 1] + b[i]
  BY TotalIs
<1>3. PICK sc : /\ Total(c) = sc[n] /\ sc[0] = 0
                /\ \A i \in 1..n : sc[i] = sc[i - 1] + c[i]
  BY TotalIs
<1>4. \A i \in 1..n : a[i] \in Nat /\ b[i] \in Nat /\ c[i] \in Nat
  <2>1. \A s \in Amounts : \A i \in 1..Len(s) : s[i] \in Nat
    BY DEF Amounts
  <2> QED
    BY <2>1
<1> DEFINE P == {i \in 0..n : /\ sa[i] \in Nat /\ sb[i] \in Nat /\ sc[i] \in Nat
                              /\ sa[i] + sb[i] + sc[i] = each * i}
<1>5. 0 \in P
  BY <1>1, <1>2, <1>3
<1>6. ASSUME NEW i \in 1..n, i - 1 \in P
      PROVE  i \in P
  <2>0. a[i] \in Nat /\ b[i] \in Nat /\ c[i] \in Nat
    BY <1>4
  <2>1. /\ sa[i - 1] \in Nat /\ sb[i - 1] \in Nat /\ sc[i - 1] \in Nat
        /\ sa[i - 1] + sb[i - 1] + sc[i - 1] = each * (i - 1)
    BY <1>6
  <2>2. each * (i - 1) + each = each * i /\ each * i \in Nat /\ each * (i - 1) \in Nat
    OBVIOUS
  <2> HIDE DEF P
  <2>3. sa[i] = sa[i - 1] + a[i] /\ sb[i] = sb[i - 1] + b[i] /\ sc[i] = sc[i - 1] + c[i]
    BY <1>1, <1>2, <1>3
  <2>4. a[i] + b[i] + c[i] = each
    BY DEF Split
  <2> DEFINE e == each * (i - 1)
             f == each * i
  <2>5. e + each = f /\ e \in Nat /\ f \in Nat /\ sa[i - 1] + sb[i - 1] + sc[i - 1] = e
    BY <2>1, <2>2
  <2> HIDE DEF e, f
  <2> DEFINE x == sa[i - 1]  y == sb[i - 1]  z == sc[i - 1]
             p == a[i]       q == b[i]       r == c[i]
  <2>6. /\ x \in Nat /\ y \in Nat /\ z \in Nat /\ x + y + z = e
        /\ p \in Nat /\ q \in Nat /\ r \in Nat /\ p + q + r = each
        /\ sa[i] = x + p /\ sb[i] = y + q /\ sc[i] = z + r
    BY <2>1, <2>3, <2>4, <2>5, <2>0
  <2> HIDE DEF x, y, z, p, q, r
  <2>7. /\ x + p \in Nat /\ y + q \in Nat /\ z + r \in Nat
        /\ (x + p) + (y + q) + (z + r) = f
    BY <2>5, <2>6, OneMoreSplit
  <2>8. sa[i] \in Nat /\ sb[i] \in Nat /\ sc[i] \in Nat /\ sa[i] + sb[i] + sc[i] = f
    BY <2>6, <2>7
  <2> QED
    BY <2>8 DEF P, f
<1>7. P \in SUBSET (0..n) /\ \A i \in 1..n : i - 1 \in P => i \in P
  BY <1>6
<1> HIDE DEF P
<1>8. P = 0..n
  BY <1>5, <1>7, Segment
<1>9. n \in P
  BY <1>8
<1> QED
  BY <1>1, <1>2, <1>3, <1>9 DEF P, Times

\* Amounts that are all zero add up to zero.
LEMMA ZerosAddUp ==
  ASSUME NEW a \in Amounts, \A i \in 1..Len(a) : a[i] = 0
  PROVE  Total(a) = 0
<1>1. Len(a) \in Nat
  BY DEF Amounts
<1>2. \A i \in 1..Len(a) : a[i] + a[i] + a[i] = 0
  OBVIOUS
<1>3. Total(a) \in Nat /\ Total(a) + Total(a) + Total(a) = 0 * Len(a)
  BY <1>1, <1>2, SplitsAddUp DEF Times, Split
<1> QED
  BY <1>1, <1>3

\* One natural number per record is a sequence of amounts.
LEMMA OnePerRecord ==
  ASSUME NEW records \in Seq(Record), NEW a,
         a = [i \in DOMAIN records |-> a[i]], \A i \in DOMAIN records : a[i] \in Nat
  PROVE  /\ a \in Amounts /\ Len(a) = Len(records)
         /\ DOMAIN records = 1..Len(records) /\ Len(records) \in Nat
<1>1. DOMAIN records = 1..Len(records) /\ Len(records) \in Nat
  OBVIOUS
<1>2. a \in [1..Len(records) -> Nat]
  BY <1>1
<1>3. a \in Seq(Nat) /\ Len(a) = Len(records)
  BY <1>1, <1>2
<1> QED
  BY <1>1, <1>3 DEF Amounts

-----------------------------------------------------------------------------
(* The inductive invariant.                                                *)

\* No escrow settles beyond its deposit, and a terminal one has paid what was
\* settled and returned the rest.
Solvent(x) ==
  /\ x.settled <= x.deposit
  /\ x.state \in TerminalState => x.paid = x.settled /\ x.refunded = x.deposit - x.settled

Escrows == \A c \in Channel : Solvent(chain[c])

\* A descriptor that says sealed stays true; before a seal or a distribution
\* the escrow holds the reserved deposit.
Closed == {"sealed"} \cup TerminalState

At(k) == k.input[Len(k.records) + 1]

Sealing(k) ==
  LET x == chain[At(k).channel]
  IN  /\ k.seen.state \in {"opening", "open", "sealed"}
      /\ k.seen.state = "sealed" => x.state \in Closed /\ x.settled = k.seen.settled
      /\ x.deposit = Ceiling

Distributing(k) ==
  LET x == chain[At(k).channel]
  IN  x.state \in Closed /\ x.settled = At(k).authorized /\ x.deposit = Ceiling

\* What a record says is true; one that is not finalized claims no payment.
True(r) ==
  LET x == chain[r.entry.channel]
  IN  /\ r.finalized = TRUE =>
           /\ x.state \in TerminalState
           /\ r.provider = x.paid /\ x.paid = r.entry.authorized
           /\ r.refund = x.refunded /\ x.refunded = Ceiling - r.entry.authorized
      /\ r.finalized = FALSE /\ r.phase # "reconcile" => r.provider = 0 /\ r.refund = 0

AllTrue(records) == \A i \in 1..Len(records) : True(records[i])

Under(k) ==
  /\ k.pc # "idle" => Len(k.records) < Len(k.input)
  /\ k.pc = "seal" => Sealing(k)
  /\ k.pc = "distribute" => Distributing(k)
  /\ AllTrue(k.records)

Calls == \A f \in Finalizer : Under(call[f])
Summaries == \A f \in Finalizer : AllTrue(summary[f])

Typed ==
  /\ chain \in [Channel -> Escrow]
  /\ call \in [Finalizer -> Call]
  /\ summary \in [Finalizer -> Seq(Record)]
  /\ faults \in 0..MaxFaults

FinalInv == Typed /\ Escrows /\ Calls /\ Summaries

\* A channel's deposit is never changed, what is sealed keeps its watermark,
\* and what is terminal keeps its payouts.
Kept(c) ==
  /\ chain[c]'.deposit = chain[c].deposit
  /\ chain[c].state \in Closed => chain[c]'.state \in Closed
                                /\ chain[c]'.settled = chain[c].settled
  /\ chain[c].state \in TerminalState =>
       /\ chain[c]'.state \in TerminalState
       /\ chain[c]'.paid = chain[c].paid /\ chain[c]'.refunded = chain[c].refunded

ChainKept == \A c \in Channel : Kept(c)

\* The invariant holds of what the finalizers find.
LEMMA InitHolds == Init => FinalInv
<1> SUFFICES ASSUME Init
             PROVE  FinalInv
  OBVIOUS
<1> USE ChannelFinalizationAssumption
<1>1. \A s \in InitialState, d \in Deposit, w \in Settled :
        (\A y \in Deposit : w <= y) => Found(s, d, w) \in Escrow /\ Solvent(Found(s, d, w))
  <2> TAKE s \in InitialState, d \in Deposit, w \in Settled
  <2> HAVE \A y \in Deposit : w <= y
  <2>1. s \in LifecycleState /\ d \in Nat /\ w \in Nat /\ w <= d /\ d - w \in Nat
    OBVIOUS
  <2>2. s = "opening" => s \notin TerminalState
    BY DEF TerminalState
  <2> QED
    BY <2>1, <2>2 DEF Found, Escrow, Solvent
<1>2. \A c \in Channel : chain[c] \in Escrow /\ Solvent(chain[c])
  <2> TAKE c \in Channel
  <2>1. PICK s \in InitialState, d \in Deposit, w \in Settled :
          chain[c] = Found(s, d, w) /\ \A y \in Deposit : w <= y
    BY DEF Init
  <2> QED
    BY <1>1, <2>1
<1>3. chain \in [Channel -> Escrow]
  BY <1>2 DEF Init
<1>4. <<>> \in Seq(Record) /\ <<>> \in Seq(Entry) /\ Len(<<>>) = 0
  OBVIOUS
<1>5. Idle \in Call
  BY <1>4 DEF Idle, Call, PC, NoDescriptor, Descriptor, LifecycleState
<1>6. AllTrue(<<>>)
  BY <1>4 DEF AllTrue
<1>7. Under(Idle)
  BY <1>6 DEF Under, Idle
<1>8. Typed
  BY <1>3, <1>4, <1>5 DEF Init, Typed
<1>9. Calls /\ Summaries
  BY <1>6, <1>7 DEF Init, Calls, Summaries
<1> QED
  BY <1>2, <1>8, <1>9 DEF FinalInv, Escrows

-----------------------------------------------------------------------------
(* What is true stays true while the escrows only move forward.            *)

\* A record that is true stays true.
LEMMA TrueStays ==
  ASSUME ChainKept, NEW r \in Record, True(r)
  PROVE  True(r)'
<1>1. r.entry.channel \in Channel
  BY DEF Record, Entry
<1> QED
  BY <1>1 DEF ChainKept, Kept, True

\* So do all the records of a call or a summary.
LEMMA AllTrueStays ==
  ASSUME ChainKept, NEW records \in Seq(Record), AllTrue(records)
  PROVE  AllTrue(records)'
<1>1. ASSUME NEW i \in 1..Len(records)
      PROVE  True(records[i])'
  <2>1. records[i] \in Record
    OBVIOUS
  <2>2. True(records[i])
    BY DEF AllTrue
  <2> QED
    BY <2>1, <2>2, TrueStays
<1> QED
  BY <1>1 DEF AllTrue

\* What a call under way relies on keeps holding.
LEMMA UnderStays ==
  ASSUME ChainKept, NEW k \in Call, Under(k)
  PROVE  Under(k)'
<1>1. AllTrue(k.records)'
  <2>1. k.records \in Seq(Record)
    BY DEF Call
  <2> QED
    BY <2>1, AllTrueStays DEF Under
<1>2. k.pc # "idle" => At(k).channel \in Channel
  <2>1. k.input \in Seq(Entry) /\ Len(k.records) \in Nat
    BY DEF Call
  <2>2. k.pc # "idle" => Len(k.records) + 1 \in 1..Len(k.input)
    BY <2>1 DEF Under
  <2>3. k.pc # "idle" => At(k) \in Entry
    BY <2>1, <2>2 DEF At
  <2> QED
    BY <2>3 DEF Entry
<1>3. ASSUME k.pc = "seal"
      PROVE  Sealing(k)'
  <2>1. Sealing(k) /\ Kept(At(k).channel)
    BY <1>2, <1>3 DEF Under, ChainKept
  <2> QED
    BY <2>1 DEF Sealing, Kept, At
<1>4. ASSUME k.pc = "distribute"
      PROVE  Distributing(k)'
  <2>1. Distributing(k) /\ Kept(At(k).channel)
    BY <1>2, <1>4 DEF Under, ChainKept
  <2> QED
    BY <2>1 DEF Distributing, Kept, At
<1> QED
  BY <1>1, <1>3, <1>4 DEF Under

\* While a call runs it has a channel left.
LEMMA HasEntry ==
  ASSUME FinalInv, NEW f \in Finalizer, call[f].pc # "idle"
  PROVE  /\ call[f] \in Call /\ Under(call[f])
         /\ Entered(f) = At(call[f]) /\ Entered(f) \in Entry
         /\ Entered(f).channel \in Channel /\ EscrowOf(f) \in Escrow /\ Solvent(EscrowOf(f))
<1>1. call[f] \in Call /\ Under(call[f])
  BY DEF FinalInv, Typed, Calls
<1>2. Entered(f) = At(call[f])
  BY DEF Entered, At
<1>3. call[f].input \in Seq(Entry) /\ Len(call[f].records) \in Nat
  BY <1>1 DEF Call
<1>4. Len(call[f].records) + 1 \in 1..Len(call[f].input)
  BY <1>1, <1>3 DEF Under
<1>5. Entered(f) \in Entry
  BY <1>3, <1>4 DEF Entered
<1>6. Entered(f).channel \in Channel
  BY <1>5 DEF Entry
<1> QED
  BY <1>1, <1>2, <1>5, <1>6 DEF EscrowOf, FinalInv, Typed, Escrows

\* Every finalizer but the one that takes the step.
Aside(f) == \A g \in Finalizer : g # f => call'[g] = call[g] /\ summary'[g] = summary[g]

\* A step of one finalizer is right if its own call and summary are.
LEMMA OneCall ==
  ASSUME FinalInv, NEW f \in Finalizer, Aside(f), ChainKept,
         call' = [g \in Finalizer |-> call'[g]], summary' = [g \in Finalizer |-> summary'[g]],
         chain' \in [Channel -> Escrow], Escrows', faults' \in 0..MaxFaults,
         call'[f] \in Call, Under(call[f])', summary'[f] \in Seq(Record), AllTrue(summary[f])'
  PROVE  FinalInv'
<1>1. ASSUME NEW g \in Finalizer, g # f
      PROVE  /\ call'[g] \in Call /\ Under(call[g])'
             /\ summary'[g] \in Seq(Record) /\ AllTrue(summary[g])'
  <2>1. PICK k, q : k = call[g] /\ q = summary[g]
    OBVIOUS
  <2>2. k \in Call /\ Under(k) /\ q \in Seq(Record) /\ AllTrue(q)
    BY <2>1 DEF FinalInv, Typed, Calls, Summaries
  <2>3. call'[g] = k /\ summary'[g] = q
    BY <1>1, <2>1 DEF Aside
  <2>4. Under(k)' /\ AllTrue(q)'
    BY <2>2, UnderStays, AllTrueStays
  <2> QED
    BY <2>2, <2>3, <2>4
<1>2. \A g \in Finalizer : /\ call'[g] \in Call /\ Under(call[g])'
                          /\ summary'[g] \in Seq(Record) /\ AllTrue(summary[g])'
  BY <1>1
<1>3. call' \in [Finalizer -> Call] /\ summary' \in [Finalizer -> Seq(Record)]
  BY <1>2
<1>4. Calls' /\ Summaries'
  BY <1>2 DEF Calls, Summaries
<1> QED
  BY <1>3, <1>4 DEF FinalInv, Typed

\* The escrows a step may leave.
Forward == ChainKept /\ chain' \in [Channel -> Escrow] /\ Escrows'

\* A step that leaves the chain alone.
LEMMA ChainAlone ==
  ASSUME FinalInv, chain' = chain
  PROVE  Forward
<1>1. chain' \in [Channel -> Escrow] /\ Escrows'
  BY DEF FinalInv, Typed, Escrows, Solvent
<1>2. ChainKept
  BY DEF ChainKept, Kept
<1> QED
  BY <1>1, <1>2 DEF Forward

\* No call holds of the idle one but its records, of which it has none.
LEMMA IdleHolds == Idle \in Call /\ Under(Idle) /\ Under(Idle)'
<1>1. <<>> \in Seq(Record) /\ <<>> \in Seq(Entry) /\ Len(<<>>) = 0
  OBVIOUS
<1>2. Idle \in Call
  BY <1>1 DEF Idle, Call, PC, NoDescriptor, Descriptor, LifecycleState
<1>3. AllTrue(<<>>) /\ AllTrue(<<>>)'
  BY <1>1 DEF AllTrue
<1> QED
  BY <1>2, <1>3 DEF Under, Idle

\* A true record may be pushed.
LEMMA PushHolds ==
  ASSUME FinalInv, NEW f \in Finalizer, call[f].pc # "idle", NEW r \in Record,
         Push(f, r), True(r)', Forward, faults' \in 0..MaxFaults
  PROVE  FinalInv'
<1>1. PICK k, q : k = call[f] /\ q = summary[f]
  OBVIOUS
<1>2. k \in Call /\ Under(k) /\ q \in Seq(Record) /\ AllTrue(q)
  BY <1>1 DEF FinalInv, Typed, Calls, Summaries
<1>3. k.records \in Seq(Record) /\ k.input \in Seq(Entry)
  BY <1>2 DEF Call
<1>4. Len(k.records) < Len(k.input)
  BY <1>1, <1>2 DEF Under
<1>5. PICK records : records = Append(k.records, r)
  OBVIOUS
<1>6. /\ records \in Seq(Record) /\ Len(records) = Len(k.records) + 1
      /\ \A i \in 1..Len(records) :
           (i \in 1..Len(k.records) /\ records[i] = k.records[i]) \/ records[i] = r
  BY <1>3, <1>5
<1>7. AllTrue(records)'
  <2>1. AllTrue(k.records)'
    BY <1>2, <1>3, AllTrueStays DEF Under, Forward
  <2> QED
    BY <1>6, <2>1 DEF AllTrue
<1>8. AllTrue(q)' /\ ChainKept /\ chain' \in [Channel -> Escrow] /\ Escrows'
  BY <1>2, AllTrueStays DEF Forward
<1>9. DOMAIN call = Finalizer /\ DOMAIN summary = Finalizer
      /\ call = [g \in Finalizer |-> call[g]] /\ summary = [g \in Finalizer |-> summary[g]]
  BY DEF FinalInv, Typed
<1>10. CASE Len(records) = Len(k.input)
  <2>1. /\ call' = [call EXCEPT ![f] = Idle]
        /\ summary' = [summary EXCEPT ![f] = records]
    BY <1>1, <1>5, <1>10 DEF Push
  <2>2. call'[f] = Idle /\ summary'[f] = records /\ Aside(f)
        /\ call' = [g \in Finalizer |-> call'[g]]
        /\ summary' = [g \in Finalizer |-> summary'[g]]
    BY <1>9, <2>1 DEF Aside
  <2>3. call'[f] \in Call /\ Under(call[f])'
    BY <2>2, IdleHolds
  <2>4. summary'[f] \in Seq(Record) /\ AllTrue(summary[f])'
    BY <1>6, <1>7, <2>2
  <2> QED
    BY <1>8, <2>2, <2>3, <2>4, OneCall
<1>11. CASE Len(records) # Len(k.input)
  <2> DEFINE next == [k EXCEPT !.pc = "inspect", !.seen = NoDescriptor, !.records = records]
  <2>1. call' = [call EXCEPT ![f] = next] /\ summary' = summary
    BY <1>1, <1>5, <1>11 DEF Push
  <2>2. call'[f] = next /\ summary'[f] = q /\ Aside(f)
        /\ call' = [g \in Finalizer |-> call'[g]]
        /\ summary' = [g \in Finalizer |-> summary'[g]]
    BY <1>1, <1>9, <2>1 DEF Aside
  <2>3. /\ next.pc = "inspect" /\ next.input = k.input /\ next.records = records
        /\ next \in Call
    BY <1>2, <1>6 DEF Call, PC, NoDescriptor, Descriptor, LifecycleState
  <2>4. Len(records) < Len(k.input)
    BY <1>3, <1>4, <1>6, <1>11
  <2>5. PICK n : n = next
    OBVIOUS
  <2> HIDE DEF next
  <2>6. Under(n)'
    BY <1>7, <2>3, <2>4, <2>5 DEF Under
  <2>7. call'[f] \in Call /\ Under(call[f])'
    BY <2>2, <2>3, <2>5, <2>6
  <2>8. summary'[f] \in Seq(Record) /\ AllTrue(summary[f])'
    BY <1>2, <1>8, <2>2
  <2> QED
    BY <1>8, <2>2, <2>7, <2>8, OneCall
<1> QED
  BY <1>10, <1>11

\* A recovery record claims nothing.
LEMMA RecoverHolds ==
  ASSUME FinalInv, NEW f \in Finalizer, call[f].pc # "idle",
         NEW phase \in Phase, NEW action \in RecoveryAction, phase # "reconcile",
         Recover(f, phase, action), Forward, faults' \in 0..MaxFaults
  PROVE  FinalInv'
<1>1. PICK r : r = RecoveryRecord(Entered(f), phase, action)
  OBVIOUS
<1>2. r \in Record
  BY <1>1, HasEntry DEF Record, RecoveryRecord
<1>3. True(r)'
  BY <1>1 DEF True, RecoveryRecord
<1>4. Push(f, r)
  BY <1>1 DEF Recover
<1> QED
  BY <1>2, <1>3, <1>4, PushHolds

\* A call that goes on to the next await for the same channel.
LEMMA GoesOn ==
  ASSUME FinalInv, NEW f \in Finalizer, NEW n \in Call, Under(n)',
         call' = [call EXCEPT ![f] = n], summary' = summary,
         Forward, faults' \in 0..MaxFaults
  PROVE  FinalInv'
<1>1. PICK q : q = summary[f]
  OBVIOUS
<1>2. q \in Seq(Record) /\ AllTrue(q)
  BY <1>1 DEF FinalInv, Typed, Summaries
<1>3. AllTrue(q)' /\ ChainKept /\ chain' \in [Channel -> Escrow] /\ Escrows'
  BY <1>2, AllTrueStays DEF Forward
<1>4. DOMAIN call = Finalizer /\ call = [g \in Finalizer |-> call[g]]
      /\ summary = [g \in Finalizer |-> summary[g]]
  BY DEF FinalInv, Typed
<1>5. call'[f] = n /\ summary'[f] = q /\ Aside(f)
      /\ call' = [g \in Finalizer |-> call'[g]]
      /\ summary' = [g \in Finalizer |-> summary'[g]]
  BY <1>1, <1>4 DEF Aside
<1>6. Under(call[f])' /\ AllTrue(summary[f])'
  BY <1>3, <1>5
<1> QED
  BY <1>2, <1>3, <1>5, <1>6, OneCall

-----------------------------------------------------------------------------
(* The chain only moves forward.                                           *)

\* One escrow is replaced by one that keeps what it must keep.
LEMMA OneEscrow ==
  ASSUME FinalInv, NEW c \in Channel, NEW x \in Escrow, Solvent(x),
         chain' = [chain EXCEPT ![c] = x],
         x.deposit = chain[c].deposit,
         chain[c].state \in Closed => x.state \in Closed /\ x.settled = chain[c].settled,
         chain[c].state \in TerminalState => x.state \in TerminalState /\ x.paid = chain[c].paid
                                           /\ x.refunded = chain[c].refunded
  PROVE  Forward
<1>1. chain \in [Channel -> Escrow] /\ Escrows
  BY DEF FinalInv, Typed
<1>2. chain' \in [Channel -> Escrow]
  BY <1>1
<1>3. chain'[c] = x /\ \A d \in Channel : d # c => chain'[d] = chain[d]
  BY <1>1
<1>4. Escrows'
  BY <1>1, <1>3 DEF Escrows, Solvent
<1>5. ChainKept
  BY <1>3 DEF ChainKept, Kept
<1> QED
  BY <1>2, <1>4, <1>5 DEF Forward

\* A seal settles what was decided, within the deposit.
LEMMA SealForward ==
  ASSUME FinalInv, NEW f \in Finalizer, call[f].pc # "idle", SealLands(f)
  PROVE  /\ Forward
         /\ chain'[Entered(f).channel].state = "sealed"
         /\ chain'[Entered(f).channel].settled = SealedAt(f)
         /\ chain'[Entered(f).channel].deposit = EscrowOf(f).deposit
<1> DEFINE c == Entered(f).channel
           x == [chain[c] EXCEPT !.state = "sealed", !.settled = SealedAt(f)]
<1>1. c \in Channel /\ chain[c] \in Escrow /\ Entered(f).authorized \in Nat
  BY HasEntry DEF EscrowOf, Entry
<1>2. /\ chain[c].state = "open" /\ SealedAt(f) <= chain[c].deposit
      /\ chain' = [chain EXCEPT ![c] = x]
  BY DEF SealLands, SealAccepted, EscrowOf
<1>3. SealedAt(f) \in Nat
  BY <1>1 DEF SealedAt, EscrowOf, Escrow
<1>4. x \in Escrow /\ x.state = "sealed" /\ x.settled = SealedAt(f) /\ x.deposit = chain[c].deposit
  BY <1>1, <1>3 DEF Escrow, LifecycleState
<1>5. chain'[c] = x
  BY <1>1, <1>2 DEF FinalInv, Typed
<1> HIDE DEF x
<1>6. Solvent(x)
  BY <1>2, <1>4 DEF Solvent, TerminalState
<1>7. chain[c].state \notin Closed /\ chain[c].state \notin TerminalState
  BY <1>2 DEF Closed, TerminalState
<1>8. Forward
  BY <1>1, <1>2, <1>4, <1>6, <1>7, OneEscrow
<1> QED
  BY <1>4, <1>5, <1>8 DEF EscrowOf

\* A distribution pays out what is settled and returns the rest.
LEMMA DistributionForward ==
  ASSUME FinalInv, NEW f \in Finalizer, call[f].pc # "idle", DistributionLands(f)
  PROVE  /\ Forward
         /\ chain'[Entered(f).channel].state = "distributed"
         /\ chain'[Entered(f).channel].paid = EscrowOf(f).settled
         /\ chain'[Entered(f).channel].refunded = EscrowOf(f).deposit - EscrowOf(f).settled
         /\ EscrowOf(f).deposit - EscrowOf(f).settled \in Nat
<1> DEFINE c == Entered(f).channel
           x == [chain[c] EXCEPT !.state = "distributed", !.paid = chain[c].settled,
                                 !.refunded = chain[c].deposit - chain[c].settled]
<1>1. c \in Channel /\ chain[c] \in Escrow /\ Solvent(chain[c])
  BY HasEntry DEF EscrowOf
<1>2. chain[c].state = "sealed" /\ chain' = [chain EXCEPT ![c] = x]
  BY DEF DistributionLands, EscrowOf
<1>3. chain[c].deposit - chain[c].settled \in Nat
  BY <1>1 DEF Solvent, Escrow
<1>4. /\ x \in Escrow /\ x.state = "distributed" /\ x.paid = chain[c].settled
      /\ x.refunded = chain[c].deposit - chain[c].settled
      /\ x.deposit = chain[c].deposit /\ x.settled = chain[c].settled
  BY <1>1, <1>3 DEF Escrow, LifecycleState
<1>5. chain'[c] = x
  BY <1>1, <1>2 DEF FinalInv, Typed
<1> HIDE DEF x
<1>6. Solvent(x)
  BY <1>1, <1>4 DEF Solvent
<1>7. x.state \in Closed /\ chain[c].state \notin TerminalState
  BY <1>2, <1>4 DEF Closed, TerminalState
<1>8. Forward
  BY <1>1, <1>2, <1>4, <1>6, <1>7, OneEscrow
<1> QED
  BY <1>3, <1>4, <1>5, <1>8 DEF EscrowOf

\* What happens behind the coordinator's back takes nothing back either.
LEMMA EnvironmentForward ==
  ASSUME FinalInv, Environment
  PROVE  Forward
<1>1. \A c \in Channel : chain[c] \in Escrow /\ Solvent(chain[c])
  BY DEF FinalInv, Typed, Escrows
<1>2. ASSUME NEW c \in Channel, NEW from \in LifecycleState, NEW to \in LifecycleState,
             Move(c, from, to), from \in Closed => to \in Closed,
             to \in TerminalState <=> from \in TerminalState
      PROVE  Forward
  <2> DEFINE x == [chain[c] EXCEPT !.state = to]
  <2>1. chain[c].state = from /\ chain' = [chain EXCEPT ![c] = x]
    BY <1>2 DEF Move
  <2>2. /\ x \in Escrow /\ x.state = to /\ x.deposit = chain[c].deposit
        /\ x.settled = chain[c].settled
        /\ x.paid = chain[c].paid /\ x.refunded = chain[c].refunded
    BY <1>1 DEF Escrow
  <2> HIDE DEF x
  <2>3. Solvent(x)
    BY <1>1, <1>2, <2>1, <2>2 DEF Solvent
  <2> QED
    BY <1>2, <2>1, <2>2, <2>3, OneEscrow
<1>3. ASSUME NEW c \in Channel, SettleVoucher(c)
      PROVE  Forward
  <2>1. PICK settled \in chain[c].settled + 1 .. chain[c].deposit :
          chain' = [chain EXCEPT ![c].settled = settled]
    BY <1>3 DEF SettleVoucher
  <2> DEFINE x == [chain[c] EXCEPT !.settled = settled]
  <2>2. chain[c].state = "open" /\ chain' = [chain EXCEPT ![c] = x]
    BY <1>3, <2>1 DEF SettleVoucher
  <2>3. settled \in Nat /\ settled <= chain[c].deposit
    BY <1>1, <2>1 DEF Escrow
  <2>4. x \in Escrow /\ x.state = "open" /\ x.deposit = chain[c].deposit /\ x.settled = settled
    BY <1>1, <2>2, <2>3 DEF Escrow
  <2> HIDE DEF x
  <2>5. Solvent(x) /\ chain[c].state \notin Closed /\ chain[c].state \notin TerminalState
    BY <2>2, <2>3, <2>4 DEF Solvent, Closed, TerminalState
  <2> QED
    BY <2>2, <2>4, <2>5, OneEscrow
<1>4. PICK c \in Channel :
        \/ Move(c, "opening", "open")
        \/ c \in Disturbed /\ SettleVoucher(c)
        \/ c \in Disturbed /\ Move(c, "open", "closing")
        \/ Move(c, "closing", "sealed")
        \/ Move(c, "distributed", "reclaimed")
  BY DEF Environment
<1>5. {"opening", "open", "closing", "sealed", "distributed", "reclaimed"} = LifecycleState
  BY DEF LifecycleState
<1>6. CASE Move(c, "opening", "open")
  BY <1>2, <1>6, <1>5 DEF Closed, TerminalState
<1>7. CASE SettleVoucher(c)
  BY <1>3, <1>7
<1>8. CASE Move(c, "open", "closing")
  BY <1>2, <1>8, <1>5 DEF Closed, TerminalState
<1>9. CASE Move(c, "closing", "sealed")
  BY <1>2, <1>9, <1>5 DEF Closed, TerminalState
<1>10. CASE Move(c, "distributed", "reclaimed")
  BY <1>2, <1>10, <1>5 DEF Closed, TerminalState
<1> QED
  BY <1>4, <1>6, <1>7, <1>8, <1>9, <1>10

-----------------------------------------------------------------------------
(* The steps of a finalizer.                                               *)

\* The count of faults stays within its bound.
LEMMA FaultBounded ==
  ASSUME FinalInv, Fault \/ UNCHANGED faults
  PROVE  faults' \in 0..MaxFaults
  BY ChannelFinalizationAssumption DEF Fault, FinalInv, Typed

\* A call begins with its input and no records.
LEMMA BeginHolds ==
  ASSUME FinalInv, NEW f \in Finalizer, Begin(f)
  PROVE  FinalInv'
<1>1. PICK input \in Request :
        /\ input # <<>>
        /\ call' = [call EXCEPT ![f] = [Idle EXCEPT !.pc = "inspect", !.input = input]]
  BY DEF Begin
<1>2. input \in Seq(Entry) /\ 0 < Len(input)
  <2>1. input \in Seq(Entry)
    BY ChannelFinalizationAssumption
  <2> QED
    BY <1>1, <2>1
<1> DEFINE new == [Idle EXCEPT !.pc = "inspect", !.input = input]
<1>3. PICK n : n = new
  OBVIOUS
<1>4. <<>> \in Seq(Record) /\ Len(<<>>) = 0
  OBVIOUS
<1>5. n \in Call /\ n.pc = "inspect" /\ n.records = <<>> /\ n.input = input
  BY <1>2, <1>3, <1>4 DEF Idle, Call, PC, NoDescriptor, Descriptor, LifecycleState
<1>6. AllTrue(<<>>)'
  BY <1>4 DEF AllTrue
<1>7. Under(n)'
  BY <1>2, <1>4, <1>5, <1>6 DEF Under
<1>8. DOMAIN call = Finalizer /\ DOMAIN summary = Finalizer
      /\ call = [g \in Finalizer |-> call[g]] /\ summary = [g \in Finalizer |-> summary[g]]
  BY DEF FinalInv, Typed
<1>9. call' = [call EXCEPT ![f] = n] /\ summary' = [summary EXCEPT ![f] = <<>>]
  BY <1>1, <1>3 DEF Begin
<1>10. call'[f] = n /\ summary'[f] = <<>> /\ Aside(f)
       /\ call' = [g \in Finalizer |-> call'[g]]
       /\ summary' = [g \in Finalizer |-> summary'[g]]
  BY <1>8, <1>9 DEF Aside
<1>11. call'[f] \in Call /\ Under(call[f])' /\ summary'[f] \in Seq(Record) /\ AllTrue(summary[f])'
  BY <1>4, <1>5, <1>6, <1>7, <1>10
<1>12. Forward
  BY ChainAlone DEF Begin
<1>13. faults' \in 0..MaxFaults
  BY FaultBounded DEF Begin
<1> QED
  BY <1>10, <1>11, <1>12, <1>13, OneCall DEF Forward

\* An inspection that throws is recorded.
LEMMA InspectThrowsHolds ==
  ASSUME FinalInv, NEW f \in Finalizer, InspectThrows(f)
  PROVE  FinalInv'
<1>1. call[f].pc # "idle" /\ Recover(f, "inspect", "inspect-channel")
  BY DEF InspectThrows
<1>2. Forward
  BY ChainAlone DEF InspectThrows
<1>3. faults' \in 0..MaxFaults
  BY FaultBounded DEF InspectThrows
<1> QED
  BY <1>1, <1>2, <1>3, RecoverHolds DEF Phase, RecoveryAction

\* An inspection that lets the call go on has found the reserved deposit and
\* a channel that is not closing.
LEMMA InspectHolds ==
  ASSUME FinalInv, NEW f \in Finalizer, Inspect(f)
  PROVE  FinalInv'
<1>1. call[f].pc # "idle" /\ chain' = chain /\ faults' = faults
  BY DEF Inspect
<1>2. Forward /\ faults' \in 0..MaxFaults
  BY <1>1, ChainAlone, FaultBounded
<1>3. CASE Recover(f, "inspect", "inspect-channel")
  BY <1>1, <1>2, <1>3, RecoverHolds DEF Phase, RecoveryAction
<1>4. CASE Recover(f, "settle-and-seal", "wait-for-forced-close")
  BY <1>1, <1>2, <1>4, RecoverHolds DEF Phase, RecoveryAction
<1> DEFINE x == EscrowOf(f)
<1>5. CASE /\ MatchesInput(x, Entered(f)) /\ x.state \notin TerminalState \cup {"closing"}
           /\ call' = [call EXCEPT ![f] = [@ EXCEPT !.pc = "seal",
                         !.seen = [state |-> x.state, settled |-> x.settled]]]
           /\ UNCHANGED summary
  <2> DEFINE next == [call[f] EXCEPT !.pc = "seal",
                        !.seen = [state |-> x.state, settled |-> x.settled]]
  <2>1. call[f] \in Call /\ Under(call[f]) /\ Entered(f) = At(call[f]) /\ x \in Escrow
    BY <1>1, HasEntry
  <2>2. PICK n : n = next
    OBVIOUS
  <2>3. [state |-> x.state, settled |-> x.settled] \in Descriptor
    BY <2>1 DEF Escrow, Descriptor
  <2>4. /\ n \in Call /\ n.pc = "seal" /\ n.input = call[f].input
        /\ n.records = call[f].records
        /\ n.seen.state = x.state /\ n.seen.settled = x.settled
    BY <2>1, <2>2, <2>3 DEF Call, PC
  <2>5. At(n) = Entered(f)
    BY <2>1, <2>4 DEF At
  <2>6. chain'[At(n).channel] = x
    BY <1>1, <2>5 DEF EscrowOf
  <2>7. x.deposit = Ceiling /\ x.state \in {"opening", "open", "sealed"}
    BY <1>5, <2>1 DEF MatchesInput, Escrow, LifecycleState, TerminalState
  <2>8. Sealing(n)'
    BY <2>4, <2>6, <2>7 DEF Sealing, Closed, At
  <2>9. AllTrue(n.records)'
    <3>1. call[f].records \in Seq(Record)
      BY <2>1 DEF Call
    <3>2. AllTrue(n.records) /\ n.records \in Seq(Record) /\ ChainKept
      BY <1>2, <2>1, <2>4, <3>1 DEF Under, Forward
    <3> QED
      BY <3>2, AllTrueStays
  <2>10. Len(n.records) < Len(n.input)
    BY <1>1, <2>1, <2>4 DEF Under
  <2>11. Under(n)'
    BY <2>4, <2>8, <2>9, <2>10 DEF Under
  <2>12. call' = [call EXCEPT ![f] = n] /\ summary' = summary
    BY <1>5, <2>2
  <2> QED
    BY <1>2, <2>4, <2>11, <2>12, GoesOn
<1> QED
  BY <1>3, <1>4, <1>5 DEF Inspect

\* The channel is sealed for good at the authorized spend: the call goes on to
\* distribute.
LEMMA GoDistributeHolds ==
  ASSUME FinalInv, NEW f \in Finalizer, call[f].pc # "idle", GoDistribute(f),
         Forward, faults' \in 0..MaxFaults,
         chain'[Entered(f).channel].state \in Closed,
         chain'[Entered(f).channel].settled = Entered(f).authorized,
         chain'[Entered(f).channel].deposit = Ceiling
  PROVE  FinalInv'
<1>1. call[f] \in Call /\ Under(call[f]) /\ Entered(f) = At(call[f])
  BY HasEntry
<1>2. PICK n : n = [call[f] EXCEPT !.pc = "distribute"]
  OBVIOUS
<1>3. /\ n \in Call /\ n.pc = "distribute" /\ n.input = call[f].input
      /\ n.records = call[f].records
  BY <1>1, <1>2 DEF Call, PC
<1>4. At(n) = Entered(f)
  BY <1>1, <1>3 DEF At
<1>5. Distributing(n)'
  BY <1>4 DEF Distributing, At
<1>6. AllTrue(n.records)'
  <2>1. call[f].records \in Seq(Record)
    BY <1>1 DEF Call
  <2>2. AllTrue(n.records) /\ n.records \in Seq(Record) /\ ChainKept
    BY <1>1, <1>3, <2>1 DEF Under, Forward
  <2> QED
    BY <2>2, AllTrueStays
<1>7. Len(n.records) < Len(n.input)
  BY <1>1, <1>3 DEF Under
<1>8. Under(n)'
  BY <1>3, <1>5, <1>6, <1>7 DEF Under
<1>9. call' = [call EXCEPT ![f] = n] /\ summary' = summary
  BY <1>2 DEF GoDistribute
<1> QED
  BY <1>3, <1>8, <1>9, GoesOn

\* A call about to seal relies on what Inspect saw.
LEMMA SealRelies ==
  ASSUME FinalInv, NEW f \in Finalizer, call[f].pc = "seal"
  PROVE  /\ call[f].pc # "idle" /\ EscrowOf(f).deposit = Ceiling
         /\ AlreadySealed(f) => EscrowOf(f).state \in Closed
                              /\ EscrowOf(f).settled = call[f].seen.settled
  BY HasEntry DEF Under, Sealing, AlreadySealed, EscrowOf

\* The branches that call nothing: a channel seen sealed still is.
LEMMA SkipSealHolds ==
  ASSUME FinalInv, NEW f \in Finalizer, SkipSeal(f)
  PROVE  FinalInv'
<1>1. call[f].pc = "seal" /\ call[f].pc # "idle" /\ chain' = chain /\ faults' = faults
  BY DEF SkipSeal
<1>2. Forward /\ faults' \in 0..MaxFaults
  BY <1>1, ChainAlone, FaultBounded
<1>3. CASE AlreadySealed(f) /\ NoNewVoucher(f) /\ GoDistribute(f)
  <2>1. /\ EscrowOf(f).state \in Closed /\ EscrowOf(f).settled = Entered(f).authorized
        /\ EscrowOf(f).deposit = Ceiling
    BY <1>1, <1>3, SealRelies DEF NoNewVoucher
  <2>2. chain'[Entered(f).channel] = EscrowOf(f)
    BY <1>1 DEF EscrowOf
  <2> QED
    BY <1>1, <1>2, <1>3, <2>1, <2>2, GoDistributeHolds
<1>4. CASE Recover(f, "settle-and-seal", "inspect-channel")
  BY <1>1, <1>2, <1>4, RecoverHolds DEF Phase, RecoveryAction
<1>5. CASE RetrySeal(f)
  BY <1>1, <1>2, <1>5, RecoverHolds DEF RetrySeal, Phase, RecoveryAction
<1> QED
  BY <1>3, <1>4, <1>5 DEF SkipSeal

\* A seal that is answered is verified against the authorized spend.
LEMMA SealHolds ==
  ASSUME FinalInv, NEW f \in Finalizer, Seal(f)
  PROVE  FinalInv'
<1>1. call[f].pc = "seal" /\ call[f].pc # "idle" /\ SealLands(f) /\ faults' = faults
  BY DEF Seal
<1>2. /\ Forward
      /\ chain'[Entered(f).channel].state = "sealed"
      /\ chain'[Entered(f).channel].settled = SealedAt(f)
      /\ chain'[Entered(f).channel].deposit = EscrowOf(f).deposit
  BY <1>1, SealForward
<1>3. faults' \in 0..MaxFaults
  BY <1>1, FaultBounded
<1>4. CASE VerifySettlement(SealedAt(f), Entered(f)) /\ GoDistribute(f)
  <2>1. /\ chain'[Entered(f).channel].state \in Closed
        /\ chain'[Entered(f).channel].settled = Entered(f).authorized
        /\ chain'[Entered(f).channel].deposit = Ceiling
    BY <1>1, <1>2, <1>4, SealRelies DEF VerifySettlement, Closed
  <2> QED
    BY <1>1, <1>2, <1>3, <1>4, <2>1, GoDistributeHolds
<1>5. CASE RetrySeal(f)
  BY <1>1, <1>2, <1>3, <1>5, RecoverHolds DEF RetrySeal, Phase, RecoveryAction
<1> QED
  BY <1>4, <1>5 DEF Seal

\* A seal that throws may have landed all the same.
LEMMA SealThrowsHolds ==
  ASSUME FinalInv, NEW f \in Finalizer, SealThrows(f)
  PROVE  FinalInv'
<1>1. call[f].pc # "idle" /\ RetrySeal(f)
  BY DEF SealThrows
<1>2. Forward
  <2>1. chain' = chain \/ SealLands(f)
    BY DEF SealThrows
  <2> QED
    BY <1>1, <2>1, ChainAlone, SealForward
<1>3. faults' \in 0..MaxFaults
  BY FaultBounded DEF SealThrows
<1> QED
  BY <1>1, <1>2, <1>3, RecoverHolds DEF RetrySeal, Phase, RecoveryAction

\* A call about to distribute has its channel sealed at the authorized spend.
LEMMA DistributeRelies ==
  ASSUME FinalInv, NEW f \in Finalizer, call[f].pc = "distribute"
  PROVE  /\ call[f].pc # "idle"
         /\ EscrowOf(f).state \in Closed /\ EscrowOf(f).settled = Entered(f).authorized
         /\ EscrowOf(f).deposit = Ceiling
  BY HasEntry DEF Under, Distributing, EscrowOf

\* A distribution whose report is right has paid what it reports; a wrong
\* report is never taken for a final one.
LEMMA ReportedHolds ==
  ASSUME FinalInv, NEW f \in Finalizer, call[f].pc = "distribute", DistributionLands(f),
         NEW provider \in Nat, NEW refund \in Nat, Reported(f, provider, refund),
         faults' \in 0..MaxFaults
  PROVE  FinalInv'
<1>1. call[f].pc # "idle" /\ EscrowOf(f).settled = Entered(f).authorized
      /\ EscrowOf(f).deposit = Ceiling
  BY DistributeRelies
<1>2. /\ Forward
      /\ chain'[Entered(f).channel].state = "distributed"
      /\ chain'[Entered(f).channel].paid = EscrowOf(f).settled
      /\ chain'[Entered(f).channel].refunded = EscrowOf(f).deposit - EscrowOf(f).settled
  BY <1>1, DistributionForward
<1>3. PICK e : e = Entered(f)
  OBVIOUS
<1>4. e \in Entry
  BY <1>1, <1>3, HasEntry
<1>5. PICK ok \in BOOLEAN : ok = VerifyDistribution(provider, refund, e)
  BY DEF VerifyDistribution
<1>6. PICK r : r = [entry |-> e, finalized |-> ok, provider |-> provider, refund |-> refund,
                    phase |-> IF ok THEN "none" ELSE "reconcile",
                    action |-> IF ok THEN "none" ELSE "inspect-channel"]
  OBVIOUS
<1>7. r \in Record
  BY <1>4, <1>6 DEF Record, Phase, RecoveryAction
<1>8. Push(f, r)
  BY <1>3, <1>5, <1>6 DEF Reported
<1>9. True(r)'
  <2>1. CASE ok = TRUE
    <3>1. /\ r.finalized = TRUE /\ r.provider = provider /\ r.refund = refund /\ r.entry = e
      BY <1>6, <2>1
    <3>2. provider = e.authorized /\ refund = Ceiling - e.authorized
      BY <1>5, <2>1 DEF VerifyDistribution
    <3>3. /\ chain'[r.entry.channel].state \in TerminalState
          /\ chain'[r.entry.channel].paid = e.authorized
          /\ chain'[r.entry.channel].refunded = Ceiling - e.authorized
      BY <1>1, <1>2, <1>3, <3>1 DEF TerminalState
    <3> QED
      BY <3>1, <3>2, <3>3 DEF True
  <2>2. CASE ok = FALSE
    <3>1. r.finalized = FALSE /\ r.phase = "reconcile"
      BY <1>6, <2>2
    <3> QED
      BY <3>1 DEF True
  <2> QED
    BY <2>1, <2>2
<1> QED
  BY <1>1, <1>2, <1>7, <1>8, <1>9, PushHolds

\* A distribution that is answered, rightly or wrongly.
LEMMA DistributeHolds ==
  ASSUME FinalInv, NEW f \in Finalizer, Distribute(f)
  PROVE  FinalInv'
<1>1. call[f].pc = "distribute" /\ DistributionLands(f)
  BY DEF Distribute
<1>2. EscrowOf(f).settled \in Nat /\ EscrowOf(f).deposit - EscrowOf(f).settled \in Nat
  BY <1>1, DistributeRelies, DistributionForward, HasEntry DEF Escrow
<1>3. faults' \in 0..MaxFaults
  BY FaultBounded DEF Distribute
<1>4. CASE Reported(f, EscrowOf(f).settled, EscrowOf(f).deposit - EscrowOf(f).settled)
  <2>1. PICK provider, refund : /\ provider = EscrowOf(f).settled
                                /\ refund = EscrowOf(f).deposit - EscrowOf(f).settled
    OBVIOUS
  <2>2. provider \in Nat /\ refund \in Nat /\ Reported(f, provider, refund)
    BY <1>2, <1>4, <2>1
  <2> QED
    BY <1>1, <1>3, <2>2, ReportedHolds
<1>5. CASE \E provider, refund \in 0..Ceiling : Reported(f, provider, refund)
  <2>1. PICK provider, refund \in 0..Ceiling : Reported(f, provider, refund)
    BY <1>5
  <2>2. provider \in Nat /\ refund \in Nat
    BY ChannelFinalizationAssumption
  <2> QED
    BY <1>1, <1>3, <2>1, <2>2, ReportedHolds
<1> QED
  BY <1>4, <1>5 DEF Distribute

\* A distribution that throws may have landed all the same.
LEMMA DistributeThrowsHolds ==
  ASSUME FinalInv, NEW f \in Finalizer, DistributeThrows(f)
  PROVE  FinalInv'
<1>1. call[f].pc # "idle" /\ Recover(f, "distribute", "retry-distribute")
  BY DEF DistributeThrows
<1>2. Forward
  <2>1. chain' = chain \/ DistributionLands(f)
    BY DEF DistributeThrows
  <2> QED
    BY <1>1, <2>1, ChainAlone, DistributionForward
<1>3. faults' \in 0..MaxFaults
  BY FaultBounded DEF DistributeThrows
<1> QED
  BY <1>1, <1>2, <1>3, RecoverHolds DEF Phase, RecoveryAction

\* A step that moves only the chain keeps what every call relies on.
LEMMA ChainMoves ==
  ASSUME FinalInv, Forward, call' = call, summary' = summary, faults' = faults
  PROVE  FinalInv'
<1>1. Typed' /\ Escrows'
  BY DEF FinalInv, Typed, Forward
<1>2. ASSUME NEW f \in Finalizer
      PROVE  Under(call[f])' /\ AllTrue(summary[f])'
  <2>1. PICK k, q : k = call[f] /\ q = summary[f]
    OBVIOUS
  <2>2. k \in Call /\ Under(k) /\ q \in Seq(Record) /\ AllTrue(q) /\ ChainKept
    BY <2>1 DEF FinalInv, Typed, Calls, Summaries, Forward
  <2>3. Under(k)' /\ AllTrue(q)'
    BY <2>2, UnderStays, AllTrueStays
  <2> QED
    BY <2>1, <2>3
<1> QED
  BY <1>1, <1>2 DEF FinalInv, Calls, Summaries

\* Every step keeps the invariant.
LEMMA Inductive == FinalInv /\ [Next]_vars => FinalInv'
<1> SUFFICES ASSUME FinalInv, [Next]_vars
             PROVE  FinalInv'
  OBVIOUS
<1>1. CASE Environment
  BY <1>1, EnvironmentForward, ChainMoves DEF Environment
<1>2. ASSUME NEW f \in Finalizer, Step(f)
      PROVE  FinalInv'
  BY <1>2, BeginHolds, InspectThrowsHolds, InspectHolds, SkipSealHolds, SealHolds,
     SealThrowsHolds, DistributeHolds, DistributeThrowsHolds DEF Step
<1>3. CASE UNCHANGED vars
  <2>1. chain' = chain /\ call' = call /\ summary' = summary /\ faults' = faults
    BY <1>3 DEF vars
  <2> QED
    BY <2>1, ChainAlone, ChainMoves
<1> QED
  BY <1>1, <1>2, <1>3 DEF Next

-----------------------------------------------------------------------------
(* What it says.                                                           *)

\* The inductive invariant holds in every reachable state.
THEOREM Invariant == Spec => []FinalInv
<1>1. Init => FinalInv
  BY InitHolds
<1>2. FinalInv /\ [Next]_vars => FinalInv'
  BY Inductive
<1> QED
  BY <1>1, <1>2, PTL DEF Spec

\* Every variable keeps its type, and a call in progress never runs out of
\* channels before it returns (finalizeTaskChannels).
THEOREM TypeCorrect == Spec => []TypeOK
<1>1. FinalInv => TypeOK
  BY DEF FinalInv, Typed, Calls, Under, TypeOK
<1> QED
  BY <1>1, Invariant, PTL

\* Nothing is distributed (finalizeProviderChannel) but a channel sealed for
\* good at the spend that was authorized, over the deposit that was reserved.
THEOREM OnlyAuthorizedIsDistributed == Spec => []DistributesAuthorized
<1>1. FinalInv => DistributesAuthorized
  <2> SUFFICES ASSUME FinalInv, NEW f \in Finalizer, call[f].pc = "distribute"
               PROVE  /\ EscrowOf(f).state \in {"sealed"} \cup TerminalState
                      /\ EscrowOf(f).settled = Entered(f).authorized
                      /\ EscrowOf(f).deposit = Ceiling
    BY DEF DistributesAuthorized
  <2> QED
    BY DistributeRelies DEF Closed
<1> QED
  BY <1>1, Invariant, PTL

\* What a true finalized record says, entry by entry.
LEMMA RecordSays ==
  ASSUME FinalInv, NEW records \in Seq(Record), AllTrue(records), NEW i \in 1..Len(records)
  PROVE  LET r == records[i]
             x == chain[r.entry.channel]
         IN  /\ r \in Record /\ r.finalized \in BOOLEAN
             /\ x.paid \in Nat /\ x.refunded \in Nat /\ r.provider \in Nat /\ r.refund \in Nat
             /\ r.entry.authorized \in Nat
             /\ r.finalized = TRUE =>
                  /\ r.provider = r.entry.authorized /\ r.refund = Ceiling - r.entry.authorized
                  /\ x.paid = r.entry.authorized /\ x.refunded = Ceiling - r.entry.authorized
             /\ r.finalized = FALSE /\ r.phase # "reconcile" => r.provider = 0 /\ r.refund = 0
<1>1. PICK r : r = records[i]
  OBVIOUS
<1>2. r \in Record
  BY <1>1
<1>3. True(r)
  BY <1>1 DEF AllTrue
<1>4. r.entry \in Entry /\ r.finalized \in BOOLEAN /\ r.provider \in Nat /\ r.refund \in Nat
  BY <1>2 DEF Record
<1>5. chain[r.entry.channel] \in Escrow
  BY <1>4 DEF Entry, FinalInv, Typed
<1> QED
  BY <1>1, <1>2, <1>3, <1>4, <1>5 DEF True, Entry, Escrow

\* Paid, recovered and unresolved amounts add up to the budget, unless a wrong
\* report is among the records.
LEMMA BudgetAddsUp ==
  ASSUME FinalInv, NEW records \in Seq(Record), AllTrue(records),
         \A r \in Range(records) : r.phase # "reconcile"
  PROVE  Reconciled(records) + UnresolvedEscrow(records) = Budget
<1> DEFINE n == Len(records)
           a == [i \in DOMAIN records |-> records[i].provider]
           b == [i \in DOMAIN records |-> records[i].refund]
           c == [i \in DOMAIN records |-> IF records[i].finalized THEN 0 ELSE Ceiling]
<1>1. DOMAIN records = 1..n /\ n \in Nat /\ Ceiling \in Nat /\ Budget \in Nat
  BY ChannelFinalizationAssumption
<1>2. \A i \in 1..n : a[i] \in Nat /\ b[i] \in Nat /\ c[i] \in Nat
                    /\ a[i] + b[i] + c[i] = Ceiling
  <2> TAKE i \in 1..n
  <2>1. records[i].phase # "reconcile"
    BY <1>1 DEF Range
  <2>2. /\ a[i] = records[i].provider /\ b[i] = records[i].refund
        /\ c[i] = IF records[i].finalized THEN 0 ELSE Ceiling
    BY <1>1
  <2>3. PICK r, x, p, q, u : /\ r = records[i] /\ x = chain[r.entry.channel]
                             /\ p = a[i] /\ q = b[i] /\ u = c[i]
    OBVIOUS
  <2>4. /\ r.phase # "reconcile" /\ p = r.provider /\ q = r.refund
        /\ u = IF r.finalized THEN 0 ELSE Ceiling
    BY <2>1, <2>2, <2>3
  <2> HIDE DEF a, b, c
  <2>5. /\ r.finalized \in BOOLEAN /\ r.provider \in Nat /\ r.refund \in Nat
        /\ r.entry.authorized \in Nat
        /\ r.finalized = TRUE =>
             r.provider = r.entry.authorized /\ r.refund = Ceiling - r.entry.authorized
        /\ r.finalized = FALSE /\ r.phase # "reconcile" => r.provider = 0 /\ r.refund = 0
    BY <2>3, RecordSays
  <2>6. PICK w : w = r.entry.authorized
    OBVIOUS
  <2>7. p \in Nat /\ q \in Nat /\ w \in Nat
    BY <2>4, <2>5, <2>6
  <2>8. CASE r.finalized = TRUE
    <3>1. p = w /\ q = Ceiling - w /\ u = 0
      BY <2>4, <2>5, <2>6, <2>8
    <3>2. u \in Nat /\ p + q + u = Ceiling
      BY <1>1, <2>7, <3>1
    <3> QED
      BY <2>3, <2>7, <3>2
  <2>9. CASE r.finalized = FALSE
    <3>1. p = 0 /\ q = 0 /\ u = Ceiling
      BY <2>4, <2>5, <2>9
    <3>2. u \in Nat /\ p + q + u = Ceiling
      BY <1>1, <3>1
    <3> QED
      BY <2>3, <2>7, <3>2
  <2> QED
    BY <2>5, <2>8, <2>9
<1>3. /\ a = [i \in DOMAIN records |-> a[i]] /\ b = [i \in DOMAIN records |-> b[i]]
      /\ c = [i \in DOMAIN records |-> c[i]]
  OBVIOUS
<1>4. /\ Total(a) = ProviderPaid(records) /\ Total(b) = ChannelRefund(records)
      /\ Total(c) = UnresolvedEscrow(records)
  BY DEF ProviderPaid, ChannelRefund, UnresolvedEscrow
<1> HIDE DEF a, b, c, n
<1>5. /\ a \in Amounts /\ b \in Amounts /\ c \in Amounts
      /\ Len(a) = n /\ Len(b) = n /\ Len(c) = n
  BY <1>1, <1>2, <1>3, OnePerRecord DEF n
<1>6. Split(a, b, c, Ceiling, n)
  BY <1>2 DEF Split
<1>7. /\ Total(a) \in Nat /\ Total(b) \in Nat /\ Total(c) \in Nat
      /\ Total(a) + Total(b) + Total(c) = Times(Ceiling, n)
  BY <1>1, <1>5, <1>6, SplitsAddUp
<1>8. PICK reserved : reserved = Times(Ceiling, n)
  OBVIOUS
<1>9. reserved \in Nat
  BY <1>1, <1>8 DEF Times
<1>10. Reconciled(records) = Total(a) + (Total(b) + (Budget - reserved))
  BY <1>4, <1>8 DEF Reconciled, TotalRecovered, Reserved, Times, n
<1>11. PICK p, q, u : p = Total(a) /\ q = Total(b) /\ u = Total(c)
  OBVIOUS
<1>12. p \in Nat /\ q \in Nat /\ u \in Nat /\ p + q + u = reserved
  BY <1>7, <1>8, <1>11
<1>13. (p + (q + (Budget - reserved))) + u = Budget
  BY <1>1, <1>9, <1>12
<1> QED
  BY <1>4, <1>10, <1>11, <1>13

\* A task is only reported reconciled when its channels have paid what was
\* authorized and returned the rest.
LEMMA ReconciledIsTrue ==
  ASSUME FinalInv, NEW records \in Seq(Record), AllTrue(records), IsReconciled(records)
  PROVE  LET Paid == Total([i \in DOMAIN records |-> chain[records[i].entry.channel].paid])
             Refunded == Total([i \in DOMAIN records |-> chain[records[i].entry.channel].refunded])
         IN  Paid = AuthorizedSpend(records) /\ Paid + Refunded = Reserved(records)
<1> DEFINE n == Len(records)
           a == [i \in DOMAIN records |-> chain[records[i].entry.channel].paid]
           b == [i \in DOMAIN records |-> chain[records[i].entry.channel].refunded]
           c == [i \in DOMAIN records |-> 0]
<1>1. DOMAIN records = 1..n /\ n \in Nat /\ Ceiling \in Nat
  BY ChannelFinalizationAssumption
<1>2. \A i \in 1..n : /\ a[i] \in Nat /\ b[i] \in Nat /\ c[i] = 0
                     /\ a[i] = records[i].entry.authorized
                     /\ a[i] + b[i] + c[i] = Ceiling
  <2> TAKE i \in 1..n
  <2>1. records[i].finalized = TRUE
    <3>1. records[i].finalized
      BY <1>1 DEF IsReconciled, IsFullyFinalized, Range
    <3> QED
      BY <3>1, RecordSays
  <2>2. /\ a[i] = chain[records[i].entry.channel].paid
        /\ b[i] = chain[records[i].entry.channel].refunded /\ c[i] = 0
    BY <1>1
  <2>3. PICK r, x, p, q : /\ r = records[i] /\ x = chain[r.entry.channel]
                          /\ p = a[i] /\ q = b[i]
    OBVIOUS
  <2>4. r.finalized = TRUE /\ p = x.paid /\ q = x.refunded /\ c[i] = 0
    BY <2>1, <2>2, <2>3
  <2> HIDE DEF a, b, c
  <2>5. PICK w : w = r.entry.authorized
    OBVIOUS
  <2>6. /\ x.paid \in Nat /\ x.refunded \in Nat /\ w \in Nat
        /\ x.paid = w /\ x.refunded = Ceiling - w
    BY <2>3, <2>4, <2>5, RecordSays
  <2>7. p \in Nat /\ q \in Nat /\ p = w /\ p + q + 0 = Ceiling
    BY <1>1, <2>4, <2>6
  <2> QED
    BY <2>3, <2>4, <2>5, <2>7
<1>3. /\ a = [i \in DOMAIN records |-> a[i]] /\ b = [i \in DOMAIN records |-> b[i]]
      /\ c = [i \in DOMAIN records |-> c[i]]
  OBVIOUS
<1>4. a = [i \in DOMAIN records |-> records[i].entry.authorized]
  BY <1>1, <1>2
<1>5. Total(a) = AuthorizedSpend(records)
  BY <1>4 DEF AuthorizedSpend
<1> HIDE DEF a, b, c, n
<1>6. \A i \in 1..n : a[i] \in Nat /\ b[i] \in Nat /\ c[i] \in Nat
  BY <1>2
<1>7. /\ a \in Amounts /\ b \in Amounts /\ c \in Amounts
      /\ Len(a) = n /\ Len(b) = n /\ Len(c) = n
  BY <1>1, <1>3, <1>6, OnePerRecord DEF n
<1>8. Split(a, b, c, Ceiling, n)
  BY <1>2 DEF Split
<1>9. Total(c) = 0
  BY <1>2, <1>7, ZerosAddUp
<1>10. /\ Total(a) \in Nat /\ Total(b) \in Nat /\ Total(c) \in Nat
      /\ Total(a) + Total(b) + Total(c) = Times(Ceiling, n)
  BY <1>1, <1>7, <1>8, SplitsAddUp
<1>11. Total(a) + Total(b) = Ceiling * n
  BY <1>9, <1>10 DEF Times
<1> QED
  BY <1>5, <1>11 DEF a, b, n, Reserved

\* Every record and every sum a caller gets is true of the chain, whatever the
\* adapter answers and whoever works on the same channels meanwhile.
THEOREM CallersAreToldTheTruth == Spec => []SummariesAreTrue
<1>1. FinalInv => FinalizedIsPaid
  <2> SUFFICES ASSUME FinalInv, NEW f \in Finalizer,
                      NEW r \in Range(call[f].records) \cup Range(summary[f]), r.finalized
               PROVE  LET x == chain[r.entry.channel]
                      IN  /\ x.state \in TerminalState
                          /\ r.provider = x.paid /\ x.paid = r.entry.authorized
                          /\ r.refund = x.refunded /\ x.refunded = Ceiling - r.entry.authorized
    BY DEF FinalizedIsPaid
  <2>1. /\ call[f].records \in Seq(Record) /\ AllTrue(call[f].records)
        /\ summary[f] \in Seq(Record) /\ AllTrue(summary[f])
    BY DEF FinalInv, Typed, Calls, Summaries, Under, Call
  <2>2. \A q \in Seq(Record) : AllTrue(q) => \A y \in Range(q) : y \in Record /\ True(y)
    BY DEF AllTrue, Range
  <2>3. r \in Record /\ True(r)
    BY <2>1, <2>2
  <2>4. r.finalized = TRUE
    BY <2>3 DEF Record
  <2> QED
    BY <2>3, <2>4 DEF True
<1>2. FinalInv => EveryAtomicAccounted
  <2> SUFFICES ASSUME FinalInv
               PROVE  EveryAtomicAccounted
    OBVIOUS
  <2>1. \A f \in Finalizer : summary[f] \in Seq(Record) /\ AllTrue(summary[f])
    BY DEF FinalInv, Typed, Summaries
  <2> QED
    BY <2>1, BudgetAddsUp, ReconciledIsTrue DEF EveryAtomicAccounted
<1> QED
  BY <1>1, <1>2, Invariant, PTL DEF SummariesAreTrue
-----------------------------------------------------------------------------
(* The gateway: the inductive invariant. *)

\* At most one transaction was broadcast.
Attempts == {<<>>} \cup {<<status>> : status \in TxStatus}

\* A caller that may settle has broadcast nothing; one that polls has, and no
\* answer yet; one that was answered has its payment on the chain.
Careful(c) ==
  /\ sent[c] \in Attempts
  /\ pc[c] \in {"start", "initialize", "settle"} => sent[c] = <<>>
  /\ pc[c] = "poll" => sent[c] # <<>> /\ NeedsPolling(result[c])
  /\ pc[c] = "answered" => sent[c] = <<"landed">>

RetryInv == GatewayTypeOK /\ \A c \in Caller : Careful(c)

-----------------------------------------------------------------------------
(* What a step does to a caller. *)

\* Where a call ended it stays, and what landed stays on the chain.
CallMoves(c) ==
  /\ Careful(c)'
  /\ pc[c] \in {"answered", "thrown"} => pc'[c] = pc[c]
  /\ sent[c] = <<"landed">> => sent'[c] = sent[c]

\* A step of one caller leaves the others alone.
Only(c) ==
  \A d \in Caller \ {c} : pc'[d] = pc[d] /\ result'[d] = result[d] /\ sent'[d] = sent[d]

\* The variables settleWithSafeRetry writes keep their types.
LoopTyped ==
  /\ pc' \in [Caller -> CallPlace] /\ result' \in [Caller -> Result]
  /\ retry' \in [Caller -> 0..MaxRetries] /\ poll' \in [Caller -> 0..MaxPolls - 1]

\* No attempt, or one, is a sequence of attempts.
LEMMA Attempted ==
  /\ <<>> \in Attempts /\ <<>> \in Seq(TxStatus)
  /\ \A status \in TxStatus :
       /\ <<status>> \in Attempts /\ <<status>> \in Seq(TxStatus) /\ <<status>> # <<>>
       /\ Append(<<>>, status) = <<status>> /\ DOMAIN <<status>> = {1} /\ <<status>>[1] = status
       /\ Len(<<status>>) = 1
<1>1. <<>> \in Attempts /\ <<>> \in Seq(TxStatus)
  BY DEF Attempts
<1>2. ASSUME NEW status \in TxStatus
      PROVE  /\ <<status>> \in Attempts /\ <<status>> \in Seq(TxStatus) /\ <<status>> # <<>>
             /\ Append(<<>>, status) = <<status>> /\ DOMAIN <<status>> = {1}
             /\ <<status>>[1] = status /\ Len(<<status>>) = 1
  <2>1. <<status>> \in Attempts
    BY DEF Attempts
  <2>2. /\ <<status>> \in Seq(TxStatus) /\ Len(<<status>>) = 1 /\ <<status>>[1] = status
        /\ Append(<<>>, status) = <<status>>
    OBVIOUS
  <2>3. DOMAIN <<status>> = 1..1 /\ <<status>> # <<>>
    BY <2>2
  <2> QED
    BY <2>1, <2>2, <2>3
<1> QED
  BY <1>1, <1>2

\* settleWithSafeRetry settles again only what was not broadcast, and answers
\* only what succeeded.
LEMMA RecoveredMoves ==
  ASSUME GatewayTypeOK, NEW c \in Caller, NEW r \in Result, Recovered(c, r)
  PROVE  /\ LoopTyped
         /\ \A d \in Caller \ {c} : pc'[d] = pc[d] /\ result'[d] = result[d]
         /\ \/ pc'[c] = "settle" /\ r.signature = FALSE
            \/ pc'[c] = "answered" /\ r.success = TRUE
            \/ pc'[c] = "thrown"
<1>1. /\ pc \in [Caller -> CallPlace] /\ result \in [Caller -> Result] /\ MaxPolls \in Nat \ {0}
      /\ retry \in [Caller -> 0..MaxRetries] /\ poll \in [Caller -> 0..MaxPolls - 1]
      /\ MaxRetries \in Nat
  BY SettlementRetryAssumption DEF GatewayTypeOK
<1>2. result' = [result EXCEPT ![c] = r] /\ poll' = [poll EXCEPT ![c] = 0]
  BY DEF Recovered
<1>3. result' \in [Caller -> Result] /\ \A d \in Caller \ {c} : result'[d] = result[d]
  BY <1>1, <1>2
<1>4. poll' \in [Caller -> 0..MaxPolls - 1]
  <2>1. 0 \in 0..MaxPolls - 1
    BY <1>1
  <2> QED
    BY <1>1, <1>2, <2>1
<1>5. CASE /\ IsTransientRpcRateLimit(r) /\ retry[c] < MaxRetries
           /\ retry' = [retry EXCEPT ![c] = @ + 1] /\ Goto(c, "settle")
  <2>1. retry[c] + 1 \in 0..MaxRetries
    BY <1>1, <1>5
  <2>2. retry' \in [Caller -> 0..MaxRetries]
    BY <1>1, <1>5, <2>1
  <2>3. pc' \in [Caller -> CallPlace] /\ pc'[c] = "settle" /\ \A d \in Caller \ {c} : pc'[d] = pc[d]
    BY <1>1, <1>5 DEF Goto, CallPlace
  <2>4. r.signature = FALSE
    BY <1>5 DEF IsTransientRpcRateLimit, Result
  <2> QED
    BY <1>3, <1>4, <2>2, <2>3, <2>4 DEF LoopTyped
<1>6. CASE /\ Goto(c, IF r.success /\ r.signature THEN "answered" ELSE "thrown")
           /\ UNCHANGED retry
  <2>1. pc' \in [Caller -> CallPlace] /\ pc'[c] \in {"answered", "thrown"}
        /\ \A d \in Caller \ {c} : pc'[d] = pc[d]
    BY <1>1, <1>6 DEF Goto, CallPlace
  <2>2. pc'[c] = "answered" => r.success = TRUE
    BY <1>1, <1>6 DEF Goto, Result
  <2> QED
    BY <1>1, <1>3, <1>4, <1>6, <2>1, <2>2 DEF LoopTyped
<1> QED
  BY <1>5, <1>6 DEF Recovered

\* A call that ends with an error, or only goes elsewhere.
LEMMA GoneTyped ==
  ASSUME GatewayTypeOK, NEW c \in Caller, NEW place \in CallPlace, Goto(c, place),
         UNCHANGED <<retry, poll, result>>
  PROVE  /\ LoopTyped /\ pc'[c] = place
         /\ \A d \in Caller \ {c} : pc'[d] = pc[d] /\ result'[d] = result[d]
<1>1. pc \in [Caller -> CallPlace]
  BY DEF GatewayTypeOK
<1>2. pc' = [pc EXCEPT ![c] = place]
  BY DEF Goto
<1> QED
  BY <1>1, <1>2 DEF GatewayTypeOK, LoopTyped

\* What a caller knows of its result, by what it was.
LEMMA SettledMoves ==
  ASSUME GatewayTypeOK, NEW c \in Caller, NEW r \in Result, SettleReturned(c, r)
  PROVE  /\ LoopTyped
         /\ \A d \in Caller \ {c} : pc'[d] = pc[d] /\ result'[d] = result[d]
         /\ \/ pc'[c] = "poll" /\ NeedsPolling(result'[c]) /\ r.signature = TRUE
            \/ pc'[c] = "settle" /\ r.signature = FALSE
            \/ pc'[c] = "answered" /\ r.success = TRUE
            \/ pc'[c] = "thrown"
<1>1. CASE /\ NeedsPolling(r) /\ result' = [result EXCEPT ![c] = r]
           /\ poll' = [poll EXCEPT ![c] = 0] /\ Goto(c, "poll") /\ UNCHANGED retry
  <2>1. /\ pc \in [Caller -> CallPlace] /\ result \in [Caller -> Result] /\ 0 \in 0..MaxPolls - 1
        /\ poll \in [Caller -> 0..MaxPolls - 1] /\ retry \in [Caller -> 0..MaxRetries]
    BY SettlementRetryAssumption DEF GatewayTypeOK
  <2>2. result' \in [Caller -> Result] /\ result'[c] = r
        /\ \A d \in Caller \ {c} : result'[d] = result[d]
    BY <1>1, <2>1
  <2>3. pc' \in [Caller -> CallPlace] /\ pc'[c] = "poll" /\ \A d \in Caller \ {c} : pc'[d] = pc[d]
    BY <1>1, <2>1 DEF Goto, CallPlace
  <2>4. poll' \in [Caller -> 0..MaxPolls - 1] /\ retry' \in [Caller -> 0..MaxRetries]
    BY <1>1, <2>1
  <2>5. r.signature = TRUE
    BY <1>1 DEF NeedsPolling, Result
  <2> QED
    BY <1>1, <2>2, <2>3, <2>4, <2>5 DEF LoopTyped
<1>2. CASE Recovered(c, r)
  BY <1>2, RecoveredMoves
<1> QED
  BY <1>1, <1>2 DEF SettleReturned

-----------------------------------------------------------------------------
(* One step of one caller. *)

\* facilitator.settle broadcasts for a caller that has broadcast nothing.
LEMMA SettleMoves ==
  ASSUME RetryInv, NEW c \in Caller, Settle(c)
  PROVE  GatewayTypeOK' /\ Only(c) /\ CallMoves(c)
<1>1. /\ GatewayTypeOK /\ pc[c] = "settle" /\ sent[c] = <<>> /\ UNCHANGED <<ready, inits>>
      /\ sent \in [Caller -> Seq(TxStatus)]
  BY DEF RetryInv, GatewayTypeOK, Careful, Settle
<1>2. TxStatus = {"pending", "landed", "failed", "dropped"}
  BY DEF TxStatus
\* What was broadcast.
<1>3. ASSUME NEW status \in TxStatus, Broadcast(c, status)
      PROVE  /\ sent' \in [Caller -> Seq(TxStatus)] /\ sent'[c] = <<status>>
             /\ \A d \in Caller \ {c} : sent'[d] = sent[d]
  <2>1. sent' = [sent EXCEPT ![c] = <<status>>]
    BY <1>1, <1>3, Attempted DEF Broadcast
  <2> QED
    BY <1>1, <2>1, Attempted
<1>4. ASSUME UNCHANGED sent
      PROVE  /\ sent' \in [Caller -> Seq(TxStatus)] /\ sent'[c] = <<>>
             /\ \A d \in Caller \ {c} : sent'[d] = sent[d]
  BY <1>1, <1>4
\* What was learned of it.
<1>5. ASSUME LoopTyped, sent' \in [Caller -> Seq(TxStatus)], sent'[c] \in Attempts,
             \A d \in Caller \ {c} : pc'[d] = pc[d] /\ result'[d] = result[d] /\ sent'[d] = sent[d],
             pc'[c] \in {"poll", "settle", "answered", "thrown"},
             pc'[c] = "settle" => sent'[c] = <<>>,
             pc'[c] = "poll" => sent'[c] # <<>> /\ NeedsPolling(result'[c]),
             pc'[c] = "answered" => sent'[c] = <<"landed">>
      PROVE  GatewayTypeOK' /\ Only(c) /\ CallMoves(c)
  <2>1. GatewayTypeOK'
    BY <1>1, <1>5 DEF GatewayTypeOK, LoopTyped
  <2>2. Only(c)
    BY <1>5 DEF Only
  <2>3. <<"landed">> # <<>>
    BY <1>2, Attempted
  <2>4. Careful(c)'
    BY <1>5 DEF Careful, NeedsPolling
  <2> QED
    BY <1>1, <2>1, <2>2, <2>3, <2>4 DEF CallMoves
<1>6. CASE Broadcast(c, "landed") /\ SettleReturned(c, Confirmed)
  <2>1. Confirmed \in Result /\ Confirmed.signature = TRUE
    BY DEF Confirmed, Result
  <2>2. sent'[c] = <<"landed">> /\ <<"landed">> \in Attempts /\ <<"landed">> # <<>>
    BY <1>2, <1>3, <1>6, Attempted
  <2> QED
    BY <1>1, <1>2, <1>3, <1>5, <1>6, <2>1, <2>2, SettledMoves
<1>7. ASSUME NEW limited \in BOOLEAN, UNCHANGED sent,
             SettleReturned(c, [NoResult EXCEPT !.limited = limited])
      PROVE  GatewayTypeOK' /\ Only(c) /\ CallMoves(c)
  <2> DEFINE r == [NoResult EXCEPT !.limited = limited]
  <2>1. r \in Result /\ r.signature = FALSE /\ r.success = FALSE
    BY DEF NoResult, Result
  <2> HIDE DEF r
  <2>2. SettleReturned(c, r)
    BY <1>7 DEF r
  <2> QED
    BY <1>1, <1>4, <1>5, <1>7, <2>1, <2>2, SettledMoves, Attempted
<1>8. ASSUME NEW limited \in BOOLEAN, NEW status \in {"pending", "failed"}, Broadcast(c, status),
             SettleReturned(c, [success |-> FALSE, signature |-> TRUE, limited |-> limited])
      PROVE  GatewayTypeOK' /\ Only(c) /\ CallMoves(c)
  <2> DEFINE r == [success |-> FALSE, signature |-> TRUE, limited |-> limited]
  <2>1. r \in Result /\ r.signature = TRUE /\ r.success = FALSE
    BY DEF Result
  <2> HIDE DEF r
  <2>2. SettleReturned(c, r)
    BY <1>8 DEF r
  <2>3. status \in TxStatus
    BY <1>2
  <2> QED
    BY <1>1, <1>3, <1>5, <1>8, <2>1, <2>2, <2>3, SettledMoves, Attempted
<1>9. CASE /\ UNCHANGED sent \/ Broadcast(c, "pending")
           /\ Goto(c, "thrown") /\ UNCHANGED <<retry, poll, result>>
  <2>1. "thrown" \in CallPlace
    BY DEF CallPlace
  <2> QED
    BY <1>1, <1>2, <1>3, <1>4, <1>5, <1>9, <2>1, GoneTyped, Attempted
<1> QED
  BY <1>6, <1>7, <1>8, <1>9 DEF Settle

\* What a caller does while its transaction is on its way.
LEMMA PollMoves ==
  ASSUME RetryInv, NEW c \in Caller, Poll(c) \/ PollLimited(c) \/ PollThrows(c)
  PROVE  GatewayTypeOK' /\ Only(c) /\ CallMoves(c)
<1>1. /\ GatewayTypeOK /\ pc[c] = "poll" /\ sent[c] # <<>> /\ sent[c] \in Attempts
      /\ NeedsPolling(result[c]) /\ result[c] \in Result
      /\ sent \in [Caller -> Seq(TxStatus)] /\ UNCHANGED <<ready, inits, sent>>
  BY DEF RetryInv, GatewayTypeOK, Careful, Poll, PollLimited, PollThrows
<1>2. ASSUME LoopTyped, \A d \in Caller \ {c} : pc'[d] = pc[d] /\ result'[d] = result[d],
             \/ pc'[c] = "answered" /\ sent[c] = <<"landed">>
             \/ pc'[c] = "poll" /\ NeedsPolling(result'[c])
             \/ pc'[c] = "thrown"
      PROVE  GatewayTypeOK' /\ Only(c) /\ CallMoves(c)
  <2>1. GatewayTypeOK'
    BY <1>1, <1>2 DEF GatewayTypeOK, LoopTyped
  <2>2. Only(c)
    BY <1>1, <1>2 DEF Only
  <2>3. Careful(c)'
    BY <1>1, <1>2 DEF Careful, NeedsPolling
  <2> QED
    BY <1>1, <2>1, <2>2, <2>3 DEF CallMoves
<1>3. result[c].signature = TRUE /\ result[c].success = FALSE
  BY <1>1 DEF NeedsPolling, Result
<1>4. ASSUME PollAgain(c) PROVE GatewayTypeOK' /\ Only(c) /\ CallMoves(c)
  <2>1. CASE /\ poll[c] + 1 < MaxPolls /\ poll' = [poll EXCEPT ![c] = @ + 1]
             /\ UNCHANGED <<pc, retry, result>>
    <3>1. poll \in [Caller -> 0..MaxPolls - 1] /\ MaxPolls \in Nat
      BY <1>1, SettlementRetryAssumption DEF GatewayTypeOK
    <3>2. poll[c] + 1 \in 0..MaxPolls - 1
      BY <2>1, <3>1
    <3>3. poll' \in [Caller -> 0..MaxPolls - 1]
      BY <2>1, <3>1, <3>2
    <3>4. LoopTyped
      BY <1>1, <2>1, <3>3 DEF LoopTyped, GatewayTypeOK
    <3> QED
      BY <1>1, <1>2, <2>1, <3>4
  <2>2. CASE Recovered(c, result[c])
    BY <1>1, <1>2, <1>3, <2>2, RecoveredMoves
  <2> QED
    BY <1>4, <2>1, <2>2 DEF PollAgain
<1>5. CASE LastStatus(c) = "landed" /\ Recovered(c, Confirmed)
  <2>1. Confirmed \in Result /\ Confirmed.signature = TRUE
    BY DEF Confirmed, Result
  <2>2. sent[c] = <<"landed">>
    <3>1. PICK status \in TxStatus : sent[c] = <<status>>
      BY <1>1 DEF Attempts
    <3> QED
      BY <1>5, <3>1, Attempted DEF LastStatus
  <2> QED
    BY <1>1, <1>2, <1>5, <2>1, <2>2, RecoveredMoves
<1>6. CASE Goto(c, "thrown") /\ UNCHANGED <<retry, poll, result>>
  <2>1. "thrown" \in CallPlace
    BY DEF CallPlace
  <2> QED
    BY <1>1, <1>2, <1>6, <2>1, GoneTyped
<1>7. CASE PollThrows(c)
  BY <1>6, <1>7 DEF PollThrows
<1> QED
  BY <1>4, <1>5, <1>6, <1>7 DEF Poll, PollLimited

\* What comes before it may settle.
LEMMA StartMoves ==
  ASSUME RetryInv, NEW c \in Caller, CallInitialize(c) \/ Validated(c)
  PROVE  GatewayTypeOK' /\ Only(c) /\ CallMoves(c)
<1>1. /\ GatewayTypeOK /\ pc[c] \in {"start", "initialize"} /\ sent[c] = <<>>
      /\ UNCHANGED <<inits, retry, poll, result, sent>>
  BY DEF RetryInv, Careful, CallInitialize, Validated
<1>2. PICK place \in {"initialize", "settle", "thrown"} : Goto(c, place)
  BY DEF CallInitialize, Validated
<1>3. place \in CallPlace
  BY DEF CallPlace
<1>4. /\ LoopTyped /\ pc'[c] = place
      /\ \A d \in Caller \ {c} : pc'[d] = pc[d] /\ result'[d] = result[d]
  BY <1>1, <1>2, <1>3, GoneTyped
<1>5. ready' \in Ready
  BY <1>1 DEF CallInitialize, Validated, GatewayTypeOK, Ready
<1>6. GatewayTypeOK'
  BY <1>1, <1>4, <1>5 DEF GatewayTypeOK, LoopTyped
<1>7. Only(c)
  BY <1>1, <1>4 DEF Only
<1>8. Careful(c)'
  BY <1>1, <1>2, <1>4, Attempted DEF Careful
<1> QED
  BY <1>1, <1>6, <1>7, <1>8, Attempted DEF CallMoves, TxStatus

\* The chain decides on what it has not decided yet.
LEMMA DecideMoves ==
  ASSUME RetryInv, NEW c \in Caller, Decide(c)
  PROVE  GatewayTypeOK' /\ Only(c) /\ CallMoves(c)
<1>1. /\ GatewayTypeOK /\ Careful(c) /\ UNCHANGED <<ready, inits, pc, retry, poll, result>>
      /\ sent \in [Caller -> Seq(TxStatus)]
  BY DEF RetryInv, GatewayTypeOK, Decide
<1>2. PICK i \in DOMAIN sent[c], status \in {"landed", "failed", "dropped"} :
        sent[c][i] = "pending" /\ sent' = [sent EXCEPT ![c][i] = status]
  BY DEF Decide
<1>3. status \in TxStatus /\ "landed" \in TxStatus
  BY DEF TxStatus
<1>4. sent[c] = <<"pending">> /\ i = 1
  <2>1. sent[c] # <<>>
    BY <1>2
  <2>2. PICK old \in TxStatus : sent[c] = <<old>>
    BY <1>1, <2>1 DEF Careful, Attempts
  <2> QED
    BY <1>2, <2>2, Attempted
<1>5. sent' = [sent EXCEPT ![c] = <<status>>]
  <2>1. [sent[c] EXCEPT ![i] = status] = <<status>>
    BY <1>4
  <2> QED
    BY <1>2, <2>1
<1>6. sent' \in [Caller -> Seq(TxStatus)] /\ sent'[c] = <<status>>
      /\ \A d \in Caller \ {c} : sent'[d] = sent[d]
  BY <1>1, <1>3, <1>5, Attempted
<1>7. GatewayTypeOK'
  BY <1>1, <1>6 DEF GatewayTypeOK
<1>8. Only(c)
  BY <1>1, <1>6 DEF Only
<1>9. sent[c] # <<"landed">> /\ sent[c] # <<>>
  BY <1>3, <1>4, Attempted
<1>10. Careful(c)'
  <2>1. <<status>> \in Attempts /\ <<status>> # <<>>
    BY <1>3, Attempted
  <2> QED
    BY <1>1, <1>6, <1>9, <2>1 DEF Careful, NeedsPolling
<1> QED
  BY <1>1, <1>7, <1>8, <1>9, <1>10 DEF CallMoves

-----------------------------------------------------------------------------
(* The invariant holds, and each step moves every caller as it may. *)

\* Every step of the gateway moves every call as it may.
LEMMA Steps ==
  ASSUME RetryInv, [GatewayNext]_gateway
  PROVE  GatewayTypeOK' /\ \A c \in Caller : CallMoves(c)
<1> DEFINE Goal == GatewayTypeOK' /\ \A c \in Caller : CallMoves(c)
<1> SUFFICES Goal
  OBVIOUS
<1>1. ASSUME NEW c \in Caller, UNCHANGED sent,
             pc'[c] = pc[c] \/ (pc[c] = "initialize" /\ pc'[c] = "thrown"),
             result'[c] = result[c]
      PROVE  CallMoves(c)
  <2>1. Careful(c)
    BY DEF RetryInv
  <2>2. Careful(c)'
    BY <1>1, <2>1 DEF Careful, NeedsPolling
  <2> QED
    BY <1>1, <2>2 DEF CallMoves
<1>2. ASSUME NEW c \in Caller, GatewayTypeOK' /\ Only(c) /\ CallMoves(c) PROVE Goal
  <2>1. ASSUME NEW d \in Caller PROVE CallMoves(d)
    <3>1. CASE d = c
      BY <1>2, <3>1
    <3>2. CASE d # c
      <4>1. pc'[d] = pc[d] /\ result'[d] = result[d] /\ sent'[d] = sent[d] /\ Careful(d)
        BY <1>2, <3>2 DEF Only, RetryInv
      <4>2. Careful(d)'
        BY <4>1 DEF Careful, NeedsPolling
      <4> QED
        BY <4>1, <4>2 DEF CallMoves
    <3> QED
      BY <3>1, <3>2
  <2> QED
    BY <1>2, <2>1
<1>3. ASSUME NEW c \in Caller, Run(c) \/ Decide(c) PROVE Goal
  <2>1. GatewayTypeOK' /\ Only(c) /\ CallMoves(c)
    BY <1>3, StartMoves, SettleMoves, PollMoves, DecideMoves DEF Run
  <2> HIDE DEF Goal
  <2> QED
    BY <1>2, <2>1
<1>4. ASSUME InitializeResolves \/ UNCHANGED gateway PROVE Goal
  <2>1. GatewayTypeOK'
    BY <1>4 DEF RetryInv, GatewayTypeOK, InitializeResolves, gateway, Ready
  <2>2. UNCHANGED <<pc, result, sent>>
    BY <1>4 DEF InitializeResolves, gateway
  <2> QED
    BY <1>1, <2>1, <2>2
<1>5. ASSUME InitializeRejects PROVE Goal
  <2>1. pc \in [Caller -> CallPlace] /\ "thrown" \in CallPlace /\ inits \in 0..MaxInits /\ MaxInits \in Nat
    BY SettlementRetryAssumption DEF RetryInv, GatewayTypeOK, CallPlace
  <2>2. pc' = [c \in Caller |-> IF pc[c] = "initialize" THEN "thrown" ELSE pc[c]]
        /\ inits < MaxInits /\ inits' = inits + 1 /\ ready' = "undefined"
        /\ UNCHANGED <<retry, poll, result, sent>>
    BY <1>5 DEF InitializeRejects
  <2>3. pc' \in [Caller -> CallPlace] /\ inits' \in 0..MaxInits
    BY <2>1, <2>2
  <2>4. GatewayTypeOK'
    BY <2>2, <2>3 DEF RetryInv, GatewayTypeOK, Ready
  <2>5. ASSUME NEW c \in Caller PROVE CallMoves(c)
    <3>1. pc'[c] = pc[c] \/ (pc[c] = "initialize" /\ pc'[c] = "thrown")
      BY <2>2
    <3> QED
      BY <1>1, <2>2, <3>1
  <2> QED
    BY <2>4, <2>5
<1> HIDE DEF Goal
<1> QED
  BY <1>3, <1>4, <1>5 DEF GatewayNext

\* The invariant holds before the first call.
LEMMA Initially == GatewayInit => RetryInv
<1> SUFFICES ASSUME GatewayInit PROVE RetryInv
  OBVIOUS
<1>1. GatewayTypeOK
  BY SettlementRetryAssumption, Attempted DEF GatewayInit, GatewayTypeOK, Ready, CallPlace, Result, NoResult
<1>2. ASSUME NEW c \in Caller PROVE Careful(c)
  BY Attempted DEF GatewayInit, Careful
<1> QED
  BY <1>1, <1>2 DEF RetryInv

\* So the invariant always holds.
LEMMA GatewayInvariant == GatewaySpec => []RetryInv
<1>1. RetryInv /\ [GatewayNext]_gateway => RetryInv'
  BY Steps DEF RetryInv, CallMoves
<1> QED
  BY <1>1, Initially, PTL DEF GatewaySpec

-----------------------------------------------------------------------------
(* What it says. *)

\* Every variable keeps its type, and the loops of settleWithSafeRetry and
\* recoverRateLimitedBroadcast keep their bounds.
THEOREM GatewayTypeCorrect == GatewaySpec => []GatewayTypeOK
<1>1. RetryInv => GatewayTypeOK
  BY DEF RetryInv
<1> QED
  BY <1>1, GatewayInvariant, PTL

\* However the RPC mixes 429s into settling and confirming, at most one
\* transaction is broadcast for a payment (settleWithSafeRetry).
THEOREM OneBroadcastPerPayment == GatewaySpec => []NeverRebroadcasts
<1>1. RetryInv => NeverRebroadcasts
  <2> SUFFICES ASSUME RetryInv, NEW c \in Caller PROVE Len(sent[c]) <= 1
    BY DEF NeverRebroadcasts
  <2>1. sent[c] = <<>> \/ \E status \in TxStatus : sent[c] = <<status>>
    BY DEF RetryInv, Careful, Attempts
  <2>2. CASE sent[c] = <<>>
    BY <2>2
  <2>3. ASSUME NEW status \in TxStatus, sent[c] = <<status>> PROVE Len(sent[c]) <= 1
    BY <2>3, Attempted
  <2> QED
    BY <2>1, <2>2, <2>3
<1> QED
  BY <1>1, GatewayInvariant, PTL

\* How many landed, of one transaction at most.
LEMMA LandedCount ==
  ASSUME NEW c \in Caller, sent[c] \in Attempts
  PROVE  /\ Landed(c) = IF sent[c] = <<"landed">> THEN 1 ELSE 0
<1>1. CASE sent[c] = <<>>
  <2>1. {i \in DOMAIN sent[c] : sent[c][i] = "landed"} = {}
    BY <1>1
  <2>2. sent[c] # <<"landed">>
    BY <1>1, Attempted DEF TxStatus
  <2> QED
    BY <2>1, <2>2, FS_EmptySet DEF Landed
<1>2. ASSUME NEW status \in TxStatus, sent[c] = <<status>>
      PROVE  Landed(c) = IF sent[c] = <<"landed">> THEN 1 ELSE 0
  <2>1. DOMAIN sent[c] = {1} /\ sent[c][1] = status
    BY <1>2, Attempted
  <2>2. CASE status = "landed"
    <3>1. {i \in DOMAIN sent[c] : sent[c][i] = "landed"} = {1}
      BY <2>1, <2>2
    <3> QED
      BY <1>2, <2>2, <3>1, FS_Singleton DEF Landed
  <2>3. CASE status # "landed"
    <3>1. {i \in DOMAIN sent[c] : sent[c][i] = "landed"} = {}
      BY <2>1, <2>3
    <3>2. sent[c] # <<"landed">>
      BY <2>1, <2>3, Attempted DEF TxStatus
    <3> QED
      BY <3>1, <3>2, FS_EmptySet DEF Landed
  <2> QED
    BY <2>2, <2>3
<1> QED
  BY <1>1, <1>2 DEF Attempts

\* The calls of the gateway implement ClaimPromise: a payment reaches the chain
\* at most once, an answer means that it did, and a call ends once.
THEOREM ImplementsPromise == GatewaySpec => ImplementsClaimPromise
<1> DEFINE landed == [c \in Caller |-> Landed(c)]
           outcome == [c \in Caller |->
                         IF pc[c] \in {"answered", "thrown"} THEN pc[c] ELSE "running"]
<1>1. GatewayInit => Promise!Init
  <2> SUFFICES ASSUME GatewayInit PROVE Promise!Init
    OBVIOUS
  <2>1. ASSUME NEW c \in Caller PROVE Landed(c) = 0
    <3>1. sent[c] = <<>> /\ <<>> \in Attempts /\ <<>> # <<"landed">>
      BY Attempted DEF GatewayInit, TxStatus
    <3> QED
      BY <3>1, LandedCount
  <2>2. landed = [c \in Caller |-> 0]
    BY <2>1
  <2>3. outcome = [c \in Caller |-> "running"]
    BY DEF GatewayInit
  <2> QED
    BY <2>2, <2>3 DEF Promise!Init
<1>2. RetryInv /\ GatewayNext => Promise!Next
  <2> SUFFICES ASSUME RetryInv, GatewayNext PROVE Promise!Next
    OBVIOUS
  <2>1. \A c \in Caller : CallMoves(c) /\ Careful(c)
    BY Steps DEF RetryInv
  <2>2. ASSUME NEW c \in Caller
        PROVE  /\ Landed(c) = IF sent[c] = <<"landed">> THEN 1 ELSE 0
               /\ Landed(c)' = IF sent'[c] = <<"landed">> THEN 1 ELSE 0
    <3>1. sent[c] \in Attempts /\ (sent[c] \in Attempts)'
      BY <2>1 DEF CallMoves, Careful
    <3>2. Landed(c) = IF sent[c] = <<"landed">> THEN 1 ELSE 0
      BY <3>1, LandedCount
    <3>3. (Landed(c) = IF sent[c] = <<"landed">> THEN 1 ELSE 0)'
      BY <3>1, LandedCount, PTL
    <3> QED
      BY <3>2, <3>3
  <2>3. landed' \in [Caller -> 0..1]
    BY <2>2
  <2>4. outcome' \in [Caller -> {"running", "answered", "thrown"}]
    OBVIOUS
  <2>5. ASSUME NEW c \in Caller
        PROVE  /\ landed[c] <= landed'[c]
               /\ outcome[c] # "running" => outcome'[c] = outcome[c]
               /\ outcome'[c] = "answered" => landed'[c] = 1
    <3>1. landed[c] = Landed(c) /\ landed'[c] = Landed(c)'
      OBVIOUS
    <3>2. sent[c] = <<"landed">> => sent'[c] = <<"landed">>
      BY <2>1 DEF CallMoves
    <3>3. outcome'[c] = "answered" => sent'[c] = <<"landed">>
      BY <2>1 DEF CallMoves, Careful
    <3>4. outcome[c] # "running" => outcome'[c] = outcome[c]
      BY <2>1 DEF CallMoves
    <3>5. landed[c] <= landed'[c]
      BY <2>2, <3>1, <3>2
    <3> QED
      BY <2>2, <3>1, <3>3, <3>4, <3>5
  <2> QED
    BY <2>3, <2>4, <2>5 DEF Promise!Next
<1>3. UNCHANGED gateway => UNCHANGED <<landed, outcome>>
  BY DEF gateway, Landed
<1>4. RetryInv /\ [GatewayNext]_gateway => [Promise!Next]_<<landed, outcome>>
  BY <1>2, <1>3
<1> QED
  BY <1>1, <1>4, GatewayInvariant, PTL DEF GatewaySpec, Promise!Spec, ImplementsClaimPromise
=============================================================================
