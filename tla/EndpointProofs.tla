--------------------------- MODULE EndpointProofs ---------------------------
(***************************************************************************)
(* What the API's endpoints promise: the rate limiter, for any rate,       *)
(* window and table size; the faucet, for any caps and number of requests  *)
(* in flight; and the verdicts of POST /scan, for any text.  The three     *)
(* share no state and no lemma.                                            *)
(***************************************************************************)
EXTENDS RateLimit, Faucet, ScanVerdict, FiniteSetTheorems, SequenceTheorems,
        WellFoundedInduction, TLAPS

-----------------------------------------------------------------------------
(* RateLimit: what is served in a window                                   *)

\* Division by a window: the quotients of two times a window apart are the
\* same or next to each other, and a later time has no smaller one.
LEMMA Quotients ==
    ASSUME NEW m \in Nat \ {0}, NEW a \in Nat, NEW b \in Nat, a <= b
    PROVE  /\ a \div m \in Nat /\ b \div m \in Nat
           /\ a \div m <= b \div m
           /\ b <= a + m - 1 => b \div m \in {a \div m, (a \div m) + 1}
<1>1. a = m * (a \div m) + (a % m)
  OBVIOUS
<1>2. b = m * (b \div m) + (b % m)
  OBVIOUS
<1>3. a % m \in 0..(m - 1) /\ b % m \in 0..(m - 1)
  OBVIOUS
<1>4. a \div m \in Int /\ b \div m \in Int
  OBVIOUS
<1>5. PICK p \in Int, q \in Int, r \in 0..(m - 1), s \in 0..(m - 1) :
         p = a \div m /\ q = b \div m /\ r = a % m /\ s = b % m
  BY <1>3, <1>4
<1>6. a = m * p + r /\ b = m * q + s
  BY <1>1, <1>2, <1>5
<1>7. \A d \in Int : d >= 1 => m * d >= m
  OBVIOUS
<1>8. \A d \in Int : d <= -1 => m * d <= -m
  OBVIOUS
<1>9. \A d \in Int : d >= 2 => m * d >= m + m
  OBVIOUS
<1>10. m * (q - p) = m * q - m * p /\ m * q \in Int /\ m * p \in Int
  OBVIOUS
<1>11. PICK d \in Int : d = q - p
  OBVIOUS
<1>12. m * d = m * q - m * p
  BY <1>10, <1>11
<1>13. p <= q
  <2>1. d >= 0
    BY <1>6, <1>8, <1>10, <1>12
  <2> QED BY <1>11, <2>1
<1>14. b <= a + m - 1 => q \in {p, p + 1}
  <2>1. b <= a + m - 1 => d < 2
    BY <1>6, <1>9, <1>10, <1>12
  <2> QED BY <1>11, <1>13, <2>1
<1>15. p >= 0 /\ q >= 0
  <2>1. p <= -1 => m * p <= -m
    BY <1>8
  <2>2. p >= 0
    BY <1>6, <1>10, <2>1
  <2> QED BY <1>13, <2>2
<1> QED BY <1>5, <1>13, <1>14, <1>15

\* A request as the history keeps it.
AskedRecord == [ip : Clients \cup {Unnamed}, at : Nat, served : BOOLEAN]

RateTypeOK ==
    /\ clock \in Nat
    /\ reboots \in Nat
    /\ asked \in Seq(AskedRecord)
    /\ \A n \in DOMAIN asked : asked[n].at <= clock
    /\ \A k \in DOMAIN hits : hits[k] \in Nat /\ k.window \in 0..Window

\* The requests of an address served in the window w.
ServedIn(ip, w) ==
    {n \in DOMAIN asked : asked[n].ip = ip /\ asked[n].at \div WINDOW = w /\ asked[n].served}

\* How much of the rate of the window w the map knows to be used: all of it
\* when the window is over.
Used(ip, w) ==
    LET key == [ip |-> ip, window |-> w]
    IN  IF w < Window THEN RATE
        ELSE IF key \notin DOMAIN hits THEN 0
        ELSE IF hits[key] < RATE THEN hits[key] ELSE RATE

\* What was served in a window, or in two in a row, is what the map says was
\* used of it, and the rate once more for each restart.
QuotaKept(ip, w) ==
    /\ Cardinality(ServedIn(ip, w)) <= Used(ip, w) + RATE * reboots
    /\ Cardinality(ServedIn(ip, w)) + Cardinality(ServedIn(ip, w + 1))
          <= RATE + Used(ip, w + 1) + RATE * reboots

\* The inductive invariant.
RateInv ==
    /\ RateTypeOK
    /\ \A ip \in Clients, w \in Nat : QuotaKept(ip, w)

\* The window the clock is in.
LEMMA WindowType == ASSUME RateTypeOK PROVE Window \in Nat
<1>1. clock \in Nat /\ clock <= clock /\ WINDOW \in Nat \ {0}
  BY RateAssumption DEF RateTypeOK
<1>2. clock \div WINDOW \in Nat
  BY <1>1, Quotients
<1> QED BY <1>2 DEF Window

\* At most the rate of a window is known to be used.
LEMMA UsedRange ==
    ASSUME RateTypeOK, NEW ip, NEW w \in Nat
    PROVE  Used(ip, w) \in 0..RATE
BY WindowType, RateAssumption DEF Used, RateTypeOK

\* Only so many requests were served.
LEMMA ServedFinite ==
    ASSUME asked \in Seq(AskedRecord), NEW ip, NEW w
    PROVE  IsFiniteSet(ServedIn(ip, w)) /\ Cardinality(ServedIn(ip, w)) \in Nat
<1>1. DOMAIN asked = 1..Len(asked) /\ Len(asked) \in Nat
  BY LenProperties
<1>2. IsFiniteSet(1..Len(asked))
  BY <1>1, FS_Interval
<1>3. ServedIn(ip, w) \in SUBSET (1..Len(asked))
  BY <1>1 DEF ServedIn
<1> QED BY <1>2, <1>3, FS_Subset, FS_CardinalityType

\* Nothing was served in a window that has not begun.
LEMMA NothingAhead ==
    ASSUME RateTypeOK, NEW ip, NEW w \in Nat, w > Window
    PROVE  Cardinality(ServedIn(ip, w)) = 0
<1>1. ASSUME NEW n \in DOMAIN asked PROVE asked[n].at \div WINDOW # w
  <2>1. asked[n].at \in Nat /\ asked[n].at <= clock
    <3>1. asked[n] \in AskedRecord
      BY ElementOfSeq, LenProperties DEF RateTypeOK
    <3> QED BY <3>1 DEF RateTypeOK, AskedRecord
  <2>2. asked[n].at \div WINDOW \in Nat /\ asked[n].at \div WINDOW <= clock \div WINDOW
    BY <2>1, Quotients, RateAssumption DEF RateTypeOK
  <2> QED BY <2>2, WindowType DEF Window
<1>2. ServedIn(ip, w) = {}
  BY <1>1 DEF ServedIn
<1> QED BY <1>2, FS_EmptySet

\* Nothing was asked yet.
LEMMA RateInitInv == RateInit => RateInv
<1> SUFFICES ASSUME RateInit PROVE RateInv
  OBVIOUS
<1>1. DOMAIN hits = {} /\ asked = <<>> /\ clock = 0 /\ reboots = 0
  BY DEF RateInit, NoHits
<1>2. RateTypeOK
  BY <1>1 DEF RateTypeOK
<1>3. ASSUME NEW ip \in Clients, NEW w \in Nat PROVE QuotaKept(ip, w)
  <2>1. ServedIn(ip, w) = {} /\ ServedIn(ip, w + 1) = {}
    BY <1>1 DEF ServedIn
  <2>2. Cardinality(ServedIn(ip, w)) = 0 /\ Cardinality(ServedIn(ip, w + 1)) = 0
    BY <2>1, FS_EmptySet
  <2>3. Used(ip, w) \in 0..RATE /\ Used(ip, w + 1) \in 0..RATE
    BY <1>2, UsedRange
  <2>4. RATE * reboots = 0 /\ RATE \in Nat
    BY <1>1, RateAssumption
  <2> QED BY <2>2, <2>3, <2>4 DEF QuotaKept
<1> QED BY <1>2, <1>3 DEF RateInv

\* One more request.
LEMMA AskedGrows ==
    ASSUME asked \in Seq(AskedRecord), NEW e \in AskedRecord, asked' = Append(asked, e),
           NEW ip, NEW w
    PROVE  /\ e.ip = ip /\ e.at \div WINDOW = w /\ e.served =>
                Cardinality(ServedIn(ip, w)') = Cardinality(ServedIn(ip, w)) + 1
           /\ ~ (e.ip = ip /\ e.at \div WINDOW = w /\ e.served) =>
                ServedIn(ip, w)' = ServedIn(ip, w)
<1> DEFINE n == Len(asked) + 1
<1>1. /\ DOMAIN asked = 1..Len(asked) /\ Len(asked) \in Nat
      /\ DOMAIN asked' = 1..n /\ asked'[n] = e
      /\ \A i \in 1..Len(asked) : asked'[i] = asked[i]
  BY AppendProperties, LenProperties
<1>2. DOMAIN asked' = DOMAIN asked \cup {n} /\ n \notin DOMAIN asked
      /\ \A i \in DOMAIN asked : asked'[i] = asked[i]
  BY <1>1
<1> HIDE DEF n
<1>3. CASE e.ip = ip /\ e.at \div WINDOW = w /\ e.served
  <2>1. ServedIn(ip, w)' = ServedIn(ip, w) \cup {n} /\ n \notin ServedIn(ip, w)
    BY <1>1, <1>2, <1>3 DEF ServedIn
  <2>2. IsFiniteSet(ServedIn(ip, w))
    BY ServedFinite
  <2>3. Cardinality(ServedIn(ip, w) \cup {n}) = Cardinality(ServedIn(ip, w)) + 1
    BY <2>1, <2>2, FS_AddElement
  <2> QED BY <1>3, <2>1, <2>3
<1>4. CASE ~ (e.ip = ip /\ e.at \div WINDOW = w /\ e.served)
  <2>1. ServedIn(ip, w)' = ServedIn(ip, w)
    BY <1>1, <1>2, <1>4 DEF ServedIn
  <2> QED BY <1>4, <2>1
<1> QED BY <1>3, <1>4

\* What a request does to the map: what is known to be used of a window never
\* shrinks, and a request counted within the rate uses one more of its own.
LEMMA AskCounts ==
    ASSUME RateTypeOK, NEW asker \in Clients \cup {Unnamed}, Ask(asker),
           NEW ip \in Clients, NEW w \in Nat
    PROVE  /\ Used(ip, w)' >= Used(ip, w)
           /\ (ip = asker /\ w = Window /\ Counted(KeyOf(asker))[KeyOf(asker)] <= RATE) =>
                Used(ip, w)' = Used(ip, w) + 1
<1> DEFINE key   == [ip |-> ip, window |-> w]
           table == Counted(KeyOf(asker))
<1>1. /\ Window' = Window
      /\ hits' = hits \/ hits' = Purged(table)
      /\ asker \in Clients => hits' = Purged(table)
  BY RateAssumption DEF Ask, Window
<1>2. /\ DOMAIN table = DOMAIN hits \cup {KeyOf(asker)}
      /\ \A k \in DOMAIN hits : k # KeyOf(asker) => table[k] = hits[k]
      /\ KeyOf(asker) \in DOMAIN hits => table[KeyOf(asker)] = hits[KeyOf(asker)] + 1
      /\ KeyOf(asker) \notin DOMAIN hits => table[KeyOf(asker)] = 1
  BY DEF Counted, RateTypeOK
<1>3. /\ \A k \in DOMAIN hits : hits[k] \in Nat /\ k.window \in 0..Window
      /\ KeyOf(asker).window = Window /\ KeyOf(asker).ip = asker
      /\ key.window = w /\ key.ip = ip
  BY DEF RateTypeOK, KeyOf
<1>4. /\ DOMAIN Purged(table) \subseteq DOMAIN table
      /\ \A k \in DOMAIN Purged(table) : Purged(table)[k] = table[k]
      /\ \A k \in DOMAIN table : k.window = Window => k \in DOMAIN Purged(table)
  BY DEF Purged
<1>5. Window \in Nat /\ RATE \in Nat
  BY WindowType, RateAssumption
<1>6. CASE w < Window
  BY <1>1, <1>5, <1>6 DEF Used
<1>7. CASE w > Window
  <2>1. key \notin DOMAIN hits
    BY <1>3, <1>5, <1>7
  <2>2. Used(ip, w) = 0
    BY <1>5, <1>7, <2>1 DEF Used
  <2>3. key \notin DOMAIN hits'
    BY <1>1, <1>2, <1>3, <1>4, <1>5, <1>7, <2>1
  <2>4. Used(ip, w)' = 0
    BY <1>1, <1>5, <1>7, <2>3 DEF Used
  <2> QED BY <1>5, <1>7, <2>2, <2>4
<1>8. CASE w = Window
  <2>1. CASE hits' = hits /\ asker \notin Clients
    BY <1>1, <1>5, <1>8, <2>1, UsedRange DEF Used
  <2>2. CASE hits' = Purged(table)
    <3>1. CASE ip = asker
      <4>1. key = KeyOf(asker)
        BY <1>8, <3>1 DEF KeyOf
      <4>2. key \in DOMAIN hits' /\ hits'[key] = table[key]
        BY <1>2, <1>3, <1>4, <2>2, <4>1
      <4>3. Used(ip, w)' = IF table[key] < RATE THEN table[key] ELSE RATE
        BY <1>1, <1>5, <1>8, <4>2 DEF Used
      <4>4. Used(ip, w) = IF key \notin DOMAIN hits THEN 0
                          ELSE IF hits[key] < RATE THEN hits[key] ELSE RATE
        BY <1>5, <1>8 DEF Used
      <4>5. /\ key \in DOMAIN hits => table[key] = hits[key] + 1 /\ hits[key] \in Nat
            /\ key \notin DOMAIN hits => table[key] = 1
        BY <1>2, <1>3, <4>1
      <4> HIDE DEF key, table
      <4>6. CASE key \in DOMAIN hits
        BY <1>5, <4>1, <4>3, <4>4, <4>5, <4>6 DEF table
      <4>7. CASE key \notin DOMAIN hits
        BY <1>5, <4>1, <4>3, <4>4, <4>5, <4>7 DEF table
      <4> QED BY <4>6, <4>7
    <3>2. CASE ip # asker
      <4>1. key # KeyOf(asker)
        BY <1>3, <3>2
      <4>2. key \in DOMAIN hits' <=> key \in DOMAIN hits
        BY <1>2, <1>3, <1>4, <1>8, <2>2, <4>1
      <4>3. key \in DOMAIN hits => hits'[key] = hits[key]
        BY <1>2, <1>3, <1>4, <1>8, <2>2, <4>1
      <4>4. Used(ip, w)' = Used(ip, w)
        BY <1>1, <1>5, <1>8, <4>2, <4>3 DEF Used
      <4> QED BY <3>2, <4>4, UsedRange
    <3> QED BY <3>1, <3>2
  <2> QED BY <1>1, <2>1, <2>2
<1> QED BY <1>5, <1>6, <1>7, <1>8

\* A request keeps the types.
LEMMA AskType ==
    ASSUME RateTypeOK, NEW asker \in Clients \cup {Unnamed}, Ask(asker)
    PROVE  RateTypeOK'
<1> DEFINE table == Counted(KeyOf(asker))
           e     == asked'[Len(asked')]
<1>1. PICK b \in BOOLEAN : asked' = Append(asked, [ip |-> asker, at |-> clock, served |-> b])
  BY DEF Ask
<1>2. [ip |-> asker, at |-> clock, served |-> b] \in AskedRecord
  BY DEF AskedRecord, RateTypeOK
<1>3. asked' \in Seq(AskedRecord) /\ DOMAIN asked' = 1..(Len(asked) + 1)
      /\ DOMAIN asked = 1..Len(asked) /\ Len(asked) \in Nat
      /\ asked'[Len(asked) + 1] = [ip |-> asker, at |-> clock, served |-> b]
      /\ \A i \in 1..Len(asked) : asked'[i] = asked[i]
  BY <1>1, <1>2, AppendProperties, LenProperties DEF RateTypeOK
<1>4. \A n \in DOMAIN asked' : asked'[n].at <= clock
  <2> SUFFICES ASSUME NEW n \in DOMAIN asked' PROVE asked'[n].at <= clock
    OBVIOUS
  <2>1. CASE n \in DOMAIN asked
    BY <1>3, <2>1 DEF RateTypeOK
  <2>2. CASE n = Len(asked) + 1
    BY <1>3, <2>2 DEF RateTypeOK
  <2> QED BY <1>3, <2>1, <2>2
<1>5. UNCHANGED <<clock, reboots>> /\ (hits' = hits \/ hits' = Purged(table))
  BY DEF Ask
<1>6. \A k \in DOMAIN table : table[k] \in Nat /\ k.window \in 0..Window
  <2>1. Window \in Nat /\ KeyOf(asker).window = Window
    BY WindowType DEF KeyOf
  <2> QED BY <2>1 DEF Counted, RateTypeOK
<1>7. \A k \in DOMAIN Purged(table) : k \in DOMAIN table /\ Purged(table)[k] = table[k]
  BY DEF Purged
<1> HIDE DEF table
<1>8. \A k \in DOMAIN hits' : hits'[k] \in Nat /\ k.window \in 0..Window
  BY <1>5, <1>6, <1>7 DEF RateTypeOK
<1>9. Window' = Window
  BY <1>5 DEF Window
<1> QED BY <1>3, <1>4, <1>5, <1>8, <1>9 DEF RateTypeOK

\* A request served is counted; one that is not counted is nobody's.
LEMMA AskInv ==
    ASSUME RateInv, NEW asker \in Clients \cup {Unnamed}, Ask(asker)
    PROVE  RateInv'
<1> DEFINE free  == limiter = "rl" /\ asker = Unnamed
           table == Counted(KeyOf(asker))
           e     == [ip |-> asker, at |-> clock, served |-> free \/ table[KeyOf(asker)] <= RATE]
<1>1. RateTypeOK /\ RateTypeOK' /\ asked \in Seq(AskedRecord)
  BY AskType DEF RateInv, RateTypeOK
<1>2. asked' = Append(asked, e) /\ e \in AskedRecord
  <2>1. asked' = Append(asked, e)
    BY DEF Ask
  <2>2. (free \/ table[KeyOf(asker)] <= RATE) \in BOOLEAN
    OBVIOUS
  <2>3. clock \in Nat
    BY <1>1 DEF RateTypeOK
  <2> QED BY <2>1, <2>2, <2>3 DEF AskedRecord
<1>3. e.ip = asker /\ e.at \div WINDOW = Window
  BY DEF Window
<1>4. asker \in Clients /\ e.served => Counted(KeyOf(asker))[KeyOf(asker)] <= RATE
  BY RateAssumption
<1> HIDE DEF e
<1>5. Window' = Window /\ reboots' = reboots /\ Window \in Nat /\ RATE \in Nat
      /\ RATE * reboots \in Nat
  BY <1>1, WindowType, RateAssumption DEF Ask, Window, RateTypeOK
<1>6. ASSUME NEW ip \in Clients, NEW w \in Nat PROVE QuotaKept(ip, w)'
  <2> DEFINE S(v) == Cardinality(ServedIn(ip, v))
             T(v) == Cardinality(ServedIn(ip, v)')
             mine == ip = asker /\ e.served
  <2>1. w + 1 \in Nat
    OBVIOUS
  <2>2. \A v \in Nat : S(v) \in Nat /\ Used(ip, v) \in 0..RATE /\ Used(ip, v)' \in 0..RATE
    <3> TAKE v \in Nat
    <3>1. S(v) \in Nat /\ Used(ip, v) \in 0..RATE
      BY <1>1, ServedFinite, UsedRange
    <3>2. Used(ip, v)' \in 0..RATE
      BY <1>1, <1>5, RateAssumption DEF Used, RateTypeOK
    <3> QED BY <3>1, <3>2
  <2>3. \A v \in Nat : v > Window => S(v) = 0
    BY <1>1, NothingAhead
  <2>4. \A v \in Nat : Used(ip, v)' >= Used(ip, v)
                       /\ (mine /\ v = Window => Used(ip, v)' = Used(ip, v) + 1)
    BY <1>1, <1>4, AskCounts
  <2>5. \A v \in Nat : T(v) = IF mine /\ v = Window THEN S(v) + 1 ELSE S(v)
    BY <1>1, <1>2, <1>3, AskedGrows
  <2>6. /\ S(w) <= Used(ip, w) + RATE * reboots
        /\ S(w) + S(w + 1) <= RATE + Used(ip, w + 1) + RATE * reboots
    BY DEF RateInv, QuotaKept
  <2> HIDE DEF S, T, mine
  <2>7. T(w) <= Used(ip, w)' + RATE * reboots
    BY <1>5, <2>2, <2>4, <2>5, <2>6
  <2>8. T(w) + T(w + 1) <= RATE + Used(ip, w + 1)' + RATE * reboots
    <3>1. CASE mine /\ w = Window
      <4>1. T(w + 1) = 0
        BY <1>5, <2>1, <2>3, <2>5, <3>1
      <4> QED BY <1>5, <2>1, <2>2, <2>5, <2>7, <4>1
    <3>2. CASE mine /\ w + 1 = Window
      BY <1>5, <2>1, <2>2, <2>4, <2>5, <2>6, <3>2
    <3>3. CASE ~ mine \/ (w # Window /\ w + 1 # Window)
      <4>1. T(w) = S(w) /\ T(w + 1) = S(w + 1)
        BY <2>1, <2>5, <3>3
      <4> QED BY <1>5, <2>1, <2>2, <2>4, <2>6, <4>1
    <3> QED BY <3>1, <3>2, <3>3
  <2> QED BY <1>5, <2>7, <2>8 DEF QuotaKept, S, T
<1> QED BY <1>1, <1>6 DEF RateInv

\* Steps that serve nobody keep the quota if nothing used is forgotten, or if
\* they are counted as a restart.
LEMMA NobodyServed ==
    ASSUME RateInv, RateTypeOK', UNCHANGED asked, reboots' >= reboots,
           \A ip \in Clients, w \in Nat :
               Used(ip, w)' >= Used(ip, w) \/ reboots' >= reboots + 1
    PROVE  RateInv'
<1>1. RateTypeOK
  BY DEF RateInv
<1>2. ASSUME NEW ip \in Clients, NEW w \in Nat PROVE QuotaKept(ip, w)'
  <2>1. ServedIn(ip, w)' = ServedIn(ip, w) /\ ServedIn(ip, w + 1)' = ServedIn(ip, w + 1)
    BY DEF ServedIn
  <2>2. /\ Used(ip, w) \in 0..RATE /\ Used(ip, w + 1) \in 0..RATE
        /\ Used(ip, w)' \in 0..RATE /\ Used(ip, w + 1)' \in 0..RATE
    <3>1. Used(ip, w) \in 0..RATE /\ Used(ip, w + 1) \in 0..RATE
      BY <1>1, UsedRange
    <3>2. Window' \in Nat
      <4>1. clock' \in Nat /\ clock' <= clock' /\ WINDOW \in Nat \ {0}
        BY RateAssumption DEF RateTypeOK
      <4>2. clock' \div WINDOW \in Nat
        BY <4>1, Quotients
      <4> QED BY <4>2 DEF Window
    <3> QED BY <3>1, <3>2, RateAssumption DEF Used, RateTypeOK
  <2>3. /\ RATE * reboots \in Nat /\ RATE * reboots' \in Nat
        /\ RATE * reboots' >= RATE * reboots
        /\ reboots' >= reboots + 1 => RATE * reboots' >= RATE + RATE * reboots
    <3>1. PICK d \in Nat : reboots' = reboots + d
      <4>1. /\ reboots \in Nat /\ reboots' \in Nat
            /\ reboots' - reboots \in Nat /\ reboots' = reboots + (reboots' - reboots)
        BY <1>1 DEF RateTypeOK
      <4> QED BY <4>1
    <3>2. RATE * reboots' = RATE * reboots + RATE * d /\ RATE * d \in Nat
          /\ RATE * reboots \in Nat /\ RATE * reboots' \in Nat
      BY <1>1, <3>1, RateAssumption DEF RateTypeOK
    <3>3. d >= 1 => RATE * d >= RATE
      BY RateAssumption
    <3>4. reboots' >= reboots + 1 => d >= 1
      BY <1>1, <3>1 DEF RateTypeOK
    <3>5. RATE \in Nat
      BY RateAssumption
    <3>6. PICK x \in Nat, y \in Nat, z \in Nat :
             x = RATE * reboots /\ y = RATE * d /\ z = RATE * reboots'
      BY <3>2
    <3> QED BY <3>2, <3>3, <3>4, <3>5, <3>6
  <2>4. /\ Used(ip, w)' + RATE * reboots' >= Used(ip, w) + RATE * reboots
        /\ Used(ip, w + 1)' + RATE * reboots' >= Used(ip, w + 1) + RATE * reboots
    BY <2>2, <2>3, RateAssumption
  <2>5. /\ Cardinality(ServedIn(ip, w)) \in Nat /\ Cardinality(ServedIn(ip, w + 1)) \in Nat
        /\ QuotaKept(ip, w)
    BY <1>1, ServedFinite DEF RateInv, RateTypeOK
  <2> QED BY <2>1, <2>2, <2>3, <2>4, <2>5, RateAssumption DEF QuotaKept
<1> QED BY <1>2 DEF RateInv

\* When a window ends, all of its rate counts as used.
LEMMA TickInv == ASSUME RateInv, RateTick PROVE RateInv'
<1>1. RateTypeOK /\ clock' = clock + 1 /\ UNCHANGED <<hits, asked, reboots>>
  BY DEF RateInv, RateTick
<1>2. Window \in Nat /\ Window' \in Nat /\ Window <= Window'
  <2>1. clock \in Nat /\ clock' \in Nat /\ clock <= clock' /\ WINDOW \in Nat \ {0}
    BY <1>1, RateAssumption DEF RateTypeOK
  <2>2. clock \div WINDOW \in Nat /\ clock' \div WINDOW \in Nat
        /\ clock \div WINDOW <= clock' \div WINDOW
    BY <2>1, Quotients
  <2> QED BY <2>2 DEF Window
<1>3. RateTypeOK'
  <2>1. clock' \in Nat /\ \A n \in DOMAIN asked : asked[n].at <= clock'
    <3>1. \A n \in DOMAIN asked : asked[n].at \in Nat
      <4> TAKE n \in DOMAIN asked
      <4>1. asked[n] \in AskedRecord
        BY <1>1, ElementOfSeq, LenProperties DEF RateTypeOK
      <4> QED BY <4>1 DEF AskedRecord
    <3> QED BY <1>1, <3>1 DEF RateTypeOK
  <2>2. \A k \in DOMAIN hits : hits[k] \in Nat /\ k.window \in 0..Window'
    <3> SUFFICES ASSUME NEW k \in DOMAIN hits PROVE k.window \in 0..Window' /\ hits[k] \in Nat
      OBVIOUS
    <3>1. k.window \in 0..Window /\ hits[k] \in Nat
      BY <1>1 DEF RateTypeOK
    <3> QED BY <1>2, <3>1
  <2> QED BY <1>1, <2>1, <2>2 DEF RateTypeOK
<1>4. ASSUME NEW ip \in Clients, NEW w \in Nat PROVE Used(ip, w)' >= Used(ip, w)
  <2>1. Used(ip, w) \in 0..RATE
    BY <1>1, UsedRange
  <2>2. CASE w < Window'
    BY <2>1, <2>2, RateAssumption DEF Used
  <2>3. CASE ~ (w < Window')
    <3>1. ~ (w < Window)
      BY <1>2, <2>3
    <3>2. Used(ip, w)' = Used(ip, w)
      BY <1>1, <2>3, <3>1 DEF Used
    <3> QED BY <2>1, <3>2
  <2> QED BY <2>2, <2>3
<1>5. reboots' >= reboots
  BY <1>1 DEF RateTypeOK
<1> QED BY <1>1, <1>3, <1>4, <1>5, NobodyServed

\* A restart forgets at most what one window allows.
LEMMA RebootInv == ASSUME RateInv, Reboot PROVE RateInv'
<1>1. RateTypeOK /\ hits' = NoHits /\ reboots' = reboots + 1 /\ UNCHANGED <<clock, asked>>
  BY DEF RateInv, Reboot
<1>2. DOMAIN hits' = {}
  BY <1>1 DEF NoHits
<1>3. RateTypeOK'
  BY <1>1, <1>2 DEF RateTypeOK
<1>4. reboots' >= reboots /\ reboots' >= reboots + 1
  BY <1>1 DEF RateTypeOK
<1> QED BY <1>1, <1>3, <1>4, NobodyServed

\* Nothing happens.
LEMMA RateStutterInv == ASSUME RateInv, UNCHANGED rateVars PROVE RateInv'
<1>1. UNCHANGED <<limiter, hits, clock, asked, reboots>> /\ RateTypeOK
  BY DEF rateVars, RateInv
<1>2. RateTypeOK'
  BY <1>1 DEF RateTypeOK, Window
<1>3. \A ip, w : Used(ip, w)' = Used(ip, w) /\ ServedIn(ip, w)' = ServedIn(ip, w)
  BY <1>1 DEF Used, ServedIn, Window
<1> QED BY <1>1, <1>2, <1>3 DEF RateInv, QuotaKept

\* Each step keeps the invariant.
LEMMA RateNextInv == RateInv /\ [RateNext]_rateVars => RateInv'
BY AskInv, TickInv, RebootInv, RateStutterInv DEF RateNext

\* In any stretch as long as a window, wherever it begins, an address is served
\* at most twice the rate, and as much again after each restart: for any rate,
\* window, table size and number of clients.
THEOREM ServedPerMinuteHolds == RateSpec => []ServedPerMinute
<1>1. RateInv => ServedPerMinute
  <2> SUFFICES ASSUME RateInv, NEW ip \in Clients, NEW from \in 0..clock
               PROVE  Cardinality(ServedWithin(ip, from, from + WINDOW - 1)) <= RATE * (2 + reboots)
    BY DEF ServedPerMinute
  <2> DEFINE w == from \div WINDOW
             A == ServedIn(ip, w)
             B == ServedIn(ip, w + 1)
             C == ServedWithin(ip, from, from + WINDOW - 1)
  <2>1. RateTypeOK /\ asked \in Seq(AskedRecord) /\ clock \in Nat /\ reboots \in Nat
        /\ from \in Nat /\ WINDOW \in Nat \ {0} /\ RATE \in Nat
    BY RateAssumption DEF RateInv, RateTypeOK
  <2>2. w \in Nat
    BY <2>1, Quotients
  <2>3. C \subseteq A \cup B
    <3> SUFFICES ASSUME NEW n \in C PROVE n \in A \cup B
      OBVIOUS
    <3>1. n \in DOMAIN asked /\ asked[n].ip = ip /\ asked[n].served
          /\ asked[n].at \in from..(from + WINDOW - 1)
      BY DEF ServedWithin
    <3>2. asked[n].at \in Nat /\ from <= asked[n].at /\ asked[n].at <= from + WINDOW - 1
      BY <2>1, <3>1
    <3>3. asked[n].at \div WINDOW \in {w, w + 1}
      BY <2>1, <3>2, Quotients
    <3> QED BY <3>1, <3>3 DEF ServedIn
  <2> HIDE DEF w, A, B, C
  <2>4. IsFiniteSet(A) /\ IsFiniteSet(B) /\ Cardinality(A) \in Nat /\ Cardinality(B) \in Nat
    BY <2>1, ServedFinite DEF A, B
  <2>5. IsFiniteSet(A \cup B)
        /\ Cardinality(A \cup B) = Cardinality(A) + Cardinality(B) - Cardinality(A \cap B)
    BY <2>4, FS_Union
  <2>6. Cardinality(A \cap B) \in Nat
    <3>1. IsFiniteSet(A \cap B)
      BY <2>4, FS_Subset
    <3> QED BY <3>1, FS_CardinalityType
  <2>7. IsFiniteSet(C) /\ Cardinality(C) <= Cardinality(A \cup B)
    BY <2>3, <2>5, FS_Subset
  <2>8. Cardinality(C) \in Nat
    BY <2>7, FS_CardinalityType
  <2>9. Cardinality(A) + Cardinality(B) <= RATE + Used(ip, w + 1) + RATE * reboots
    BY <2>2 DEF RateInv, QuotaKept, A, B
  <2>10. Used(ip, w + 1) \in 0..RATE
    <3>1. w + 1 \in Nat
      BY <2>2
    <3> QED BY <2>1, <3>1, UsedRange
  <2>11. RATE * (2 + reboots) = RATE + RATE + RATE * reboots /\ RATE * reboots \in Nat
    BY <2>1
  <2> QED BY <2>1, <2>4, <2>5, <2>6, <2>7, <2>8, <2>9, <2>10, <2>11 DEF C
<1> QED BY <1>1, RateInitInv, RateNextInv, PTL DEF RateSpec

-----------------------------------------------------------------------------
(* Faucet: what is granted in a day, and to an address                     *)

Working == [pc : {"balance", "send", "record"}, to : Addresses, ip : Ips, asked : Nat]
Grant   == [to : Addresses, ip : Ips, at : Nat]
Payment == [to : Addresses, asked : Nat, no : Nat]

FaucetTypeOK ==
    /\ grants \in SUBSET Grant /\ IsFiniteSet(grants)
    /\ handlers \in [Handlers -> {Idle} \cup Working]
    /\ sends \in [Addresses -> Nat]
    /\ paid \in SUBSET Payment /\ IsFiniteSet(paid)
    /\ now \in Nat
    /\ mishaps \in Nat

\* Grants of the last day to the addresses of I, and requests of theirs that
\* were let through and are not over.
Recent(I)   == {g \in Since(now - DAY) : g.ip \in I}
InFlight(I) == {h \in Handlers : handlers[h] # Idle /\ handlers[h].ip \in I}

\* The grants recorded and those that may still be: all requests in flight but
\* one may have been let through when there was room for one grant.
CapKept(I, cap) ==
    Cardinality(Recent(I)) + Cardinality(InFlight(I)) <= cap + Cardinality(Handlers) - 1

\* Requests that are about to send an address gas, and those that have and
\* are about to record it.
Sending(a)   == {h \in Handlers : handlers[h] # Idle /\ handlers[h].pc # "record" /\ handlers[h].to = a}
Recording(a) == {h \in Handlers : handlers[h] # Idle /\ handlers[h].pc = "record" /\ handlers[h].to = a}

HasRow(a) == \E g \in grants : g.to = a

\* Before an address has its row, each transfer is one about to be recorded or
\* one of a mishap; once it has, only the requests let through before send more.
SendsKept(a) ==
    IF HasRow(a)
    THEN sends[a] + Cardinality(Sending(a)) <= Cardinality(Handlers) + Cardinality(Handlers) * mishaps
    ELSE sends[a] <= Cardinality(Recording(a)) + Cardinality(Handlers) * mishaps

\* Of the requests let through after w: the gas paid for them, those that may
\* still pay some, and those whose address has no row yet.
Paid(w)   == {p \in paid : p.asked > w}
Unpaid(w) == {h \in Handlers : handlers[h] # Idle /\ handlers[h].pc # "record" /\ handlers[h].asked > w}
Open(w)   == {h \in Handlers : handlers[h] # Idle /\ handlers[h].asked > w /\ ~ HasRow(handlers[h].to)}

\* A row stands for as many transfers as requests were in flight when it was
\* written, a mishap likewise; the rest are still to have their row written.
GasKept(w) ==
    LET gas == Cardinality(Paid(w)) + Cardinality(Unpaid(w))
    IN  /\ gas <= Cardinality(Handlers) * (Cardinality(Since(w)) + mishaps) + Cardinality(Open(w))
        /\ gas <= Cardinality(Handlers) * (FAUCET_DAILY + mishaps)

\* Transfers are numbered, and requests were let through in the past.
PaidOK ==
    /\ \A p \in paid : p.no <= sends[p.to]
    /\ \A h \in Handlers : handlers[h] # Idle => handlers[h].asked <= now

\* The inductive invariant.
FaucetInv ==
    /\ FaucetTypeOK
    /\ PaidOK
    /\ \A w \in Int : w >= now - DAY => GasKept(w)
    /\ \A ip \in Ips : CapKept({ip}, FAUCET_PER_IP)
    /\ \A a \in Addresses : SendsKept(a)

-----------------------------------------------------------------------------

\* Sets of grants and of handlers are finite.
LEMMA FaucetCounts ==
    ASSUME FaucetTypeOK
    PROVE  /\ Cardinality(Handlers) \in Nat \ {0}
           /\ \A S \in SUBSET Handlers : IsFiniteSet(S) /\ Cardinality(S) \in Nat
                                         /\ Cardinality(S) <= Cardinality(Handlers)
           /\ \A S \in SUBSET grants : IsFiniteSet(S) /\ Cardinality(S) \in Nat
<1>1. \A S \in SUBSET Handlers : IsFiniteSet(S) /\ Cardinality(S) <= Cardinality(Handlers)
  BY FS_Subset, FaucetAssumption
<1>2. \A S \in SUBSET grants : IsFiniteSet(S)
  BY FS_Subset DEF FaucetTypeOK
<1>3. Cardinality(Handlers) \in Nat /\ Cardinality(Handlers) # 0
  BY FS_CardinalityType, FS_EmptySet, FaucetAssumption
<1> QED BY <1>1, <1>2, <1>3, FS_CardinalityType

LEMMA IdleIsNotWorking == ASSUME NEW w \in Working PROVE w # Idle
<1>1. DOMAIN w = {"pc", "to", "ip", "asked"}
  BY DEF Working
<1>2. DOMAIN Idle = {"pc"}
  BY DEF Idle
<1>3. "to" \in DOMAIN w /\ "to" \notin DOMAIN Idle
  BY <1>1, <1>2
<1> QED BY <1>3

\* What a handler at work holds.
LEMMA AtWork ==
    ASSUME FaucetTypeOK, NEW h \in Handlers, NEW pc \in {"balance", "send", "record"},
           At(h, pc), NEW next \in {"balance", "send", "record"}
    PROVE  /\ handlers[h] \in Working /\ handlers[h] # Idle /\ handlers[h].pc = pc
           /\ [handlers[h] EXCEPT !.pc = next] \in Working
           /\ [handlers[h] EXCEPT !.pc = next].pc = next
           /\ [handlers[h] EXCEPT !.pc = next].to = handlers[h].to
           /\ [handlers[h] EXCEPT !.pc = next].ip = handlers[h].ip
           /\ [handlers[h] EXCEPT !.pc = next].asked = handlers[h].asked
<1>1. handlers[h] \in {Idle} \cup Working /\ handlers[h].pc = pc
  BY DEF FaucetTypeOK, At
<1>2. handlers[h] # Idle
  BY <1>1 DEF Idle
<1> QED BY <1>1, <1>2 DEF Working

\* A request is let through.
LEMMA RequestMoves ==
    ASSUME FaucetTypeOK, NEW h \in Handlers, NEW a \in Addresses, NEW ip \in Ips,
           Request(h, a, ip)
    PROVE  /\ FaucetTypeOK'
           /\ handlers[h] = Idle
           /\ handlers' = [handlers EXCEPT ![h] = [pc |-> "balance", to |-> a, ip |-> ip, asked |-> now]]
           /\ UNCHANGED <<grants, sends, paid, now, mishaps>>
           /\ [pc |-> "balance", to |-> a, ip |-> ip, asked |-> now] \in Working
<1> DEFINE w == [pc |-> "balance", to |-> a, ip |-> ip, asked |-> now]
<1>1. w \in Working
  BY DEF Working, FaucetTypeOK
<1>2. handlers[h] = Idle
  <2>1. handlers[h] \in {Idle} \cup Working /\ handlers[h].pc = "idle"
    BY DEF FaucetTypeOK, Request, At
  <2> QED BY <2>1 DEF Working
<1>3. handlers' = [handlers EXCEPT ![h] = w]
  BY DEF Request, Moves
<1>4. UNCHANGED <<grants, sends, paid, now, mishaps>>
  BY DEF Request
<1> HIDE DEF w
<1>5. handlers' \in [Handlers -> {Idle} \cup Working]
  BY <1>1, <1>3 DEF FaucetTypeOK
<1> QED BY <1>1, <1>2, <1>3, <1>4, <1>5 DEF FaucetTypeOK, w

\* A handler takes a step: which requests are in flight, sending or recording
\* changes for it alone.
LEMMA HandlerMoves ==
    ASSUME FaucetTypeOK, NEW h \in Handlers, NEW v \in {Idle} \cup Working,
           handlers' = [handlers EXCEPT ![h] = v], NEW I, NEW a
    PROVE  /\ InFlight(I)' =
                (InFlight(I) \ {h}) \cup (IF v # Idle /\ v.ip \in I THEN {h} ELSE {})
           /\ \A w : Unpaid(w)' =
                (Unpaid(w) \ {h})
                    \cup (IF v # Idle /\ v.pc # "record" /\ v.asked > w THEN {h} ELSE {})
           /\ grants' = grants => \A w : Open(w)' =
                (Open(w) \ {h}) \cup (IF v # Idle /\ v.asked > w /\ ~ HasRow(v.to) THEN {h} ELSE {})
           /\ Sending(a)' =
                (Sending(a) \ {h}) \cup (IF v # Idle /\ v.pc # "record" /\ v.to = a THEN {h} ELSE {})
           /\ Recording(a)' =
                (Recording(a) \ {h}) \cup (IF v # Idle /\ v.pc = "record" /\ v.to = a THEN {h} ELSE {})
<1>1. handlers'[h] = v /\ \A k \in Handlers : k # h => handlers'[k] = handlers[k]
  BY DEF FaucetTypeOK
<1>2. InFlight(I)' = (InFlight(I) \ {h}) \cup (IF v # Idle /\ v.ip \in I THEN {h} ELSE {})
  BY <1>1 DEF InFlight
<1>3. Sending(a)' =
         (Sending(a) \ {h}) \cup (IF v # Idle /\ v.pc # "record" /\ v.to = a THEN {h} ELSE {})
  BY <1>1 DEF Sending
<1>4. Recording(a)' =
         (Recording(a) \ {h}) \cup (IF v # Idle /\ v.pc = "record" /\ v.to = a THEN {h} ELSE {})
  BY <1>1 DEF Recording
<1>5. \A w : Unpaid(w)' =
         (Unpaid(w) \ {h}) \cup (IF v # Idle /\ v.pc # "record" /\ v.asked > w THEN {h} ELSE {})
  BY <1>1 DEF Unpaid
<1>6. grants' = grants => \A w : Open(w)' =
         (Open(w) \ {h}) \cup (IF v # Idle /\ v.asked > w /\ ~ HasRow(v.to) THEN {h} ELSE {})
  BY <1>1 DEF Open, HasRow
<1> QED BY <1>2, <1>3, <1>4, <1>5, <1>6

LEMMA Subsets ==
    ASSUME FaucetTypeOK, NEW I, NEW a
    PROVE  /\ Recent(I) \in SUBSET grants
           /\ InFlight(I) \in SUBSET Handlers
           /\ Sending(a) \in SUBSET Handlers /\ Recording(a) \in SUBSET Handlers
           /\ Sending(a) \cap Recording(a) = {}
BY DEF Recent, Since, InFlight, Sending, Recording

\* A step after which no more grants are recent and no more requests in flight
\* keeps a cap.
LEMMA CapNotReached ==
    ASSUME FaucetTypeOK, NEW I, NEW cap \in Nat, CapKept(I, cap),
           Recent(I)' \subseteq Recent(I), InFlight(I)' \subseteq InFlight(I)
    PROVE  CapKept(I, cap)'
<1>1. IsFiniteSet(Recent(I)) /\ IsFiniteSet(InFlight(I))
  BY Subsets, FaucetCounts
<1>2. /\ IsFiniteSet(Recent(I)') /\ IsFiniteSet(InFlight(I)')
      /\ Cardinality(Recent(I)') <= Cardinality(Recent(I))
      /\ Cardinality(InFlight(I)') <= Cardinality(InFlight(I))
  BY <1>1, FS_Subset
<1>3. /\ Cardinality(Recent(I)) \in Nat /\ Cardinality(InFlight(I)) \in Nat
      /\ Cardinality(Recent(I)') \in Nat /\ Cardinality(InFlight(I)') \in Nat
      /\ Cardinality(Handlers) \in Nat
  BY <1>1, <1>2, FS_CardinalityType, FaucetCounts
<1> QED BY <1>2, <1>3 DEF CapKept

\* A request that was let through found room for one more grant.
LEMMA RequestKeepsCap ==
    ASSUME FaucetTypeOK, NEW h \in Handlers, NEW a \in Addresses, NEW ip \in Ips,
           Request(h, a, ip), NEW I, NEW cap \in Nat, CapKept(I, cap),
           ip \in I => Cardinality(Recent(I)) < cap
    PROVE  CapKept(I, cap)'
<1> DEFINE v == [pc |-> "balance", to |-> a, ip |-> ip, asked |-> now]
<1>1. /\ FaucetTypeOK' /\ v \in Working /\ v.ip = ip
      /\ handlers' = [handlers EXCEPT ![h] = v]
      /\ UNCHANGED <<grants, sends, paid, now, mishaps>>
  BY RequestMoves
<1> HIDE DEF v
<1>2. Recent(I)' = Recent(I)
  BY <1>1 DEF Recent, Since
<1>3. CASE ip \in I
  <2>1. InFlight(I)' \in SUBSET Handlers
    BY DEF InFlight
  <2>2. Cardinality(InFlight(I)') \in Nat /\ Cardinality(InFlight(I)') <= Cardinality(Handlers)
        /\ Cardinality(Handlers) \in Nat /\ Cardinality(Recent(I)) \in Nat
    BY <2>1, FaucetCounts, Subsets
  <2> QED BY <1>2, <1>3, <2>2 DEF CapKept
<1>4. CASE ip \notin I
  <2>1. InFlight(I)' \subseteq InFlight(I)
    <3>1. InFlight(I)' = (InFlight(I) \ {h}) \cup (IF v # Idle /\ v.ip \in I THEN {h} ELSE {})
      BY <1>1, HandlerMoves
    <3> QED BY <1>1, <1>4, <3>1
  <2> QED BY <1>2, <2>1, CapNotReached
<1> QED BY <1>3, <1>4

\* A grant is recorded by a request in flight.
LEMMA RecordKeepsCap ==
    ASSUME FaucetTypeOK, NEW h \in Handlers, Record(h),
           NEW I, NEW cap \in Nat, CapKept(I, cap)
    PROVE  CapKept(I, cap)'
<1> DEFINE g == [to |-> handlers[h].to, ip |-> handlers[h].ip, at |-> now]
<1>1. /\ handlers' = [handlers EXCEPT ![h] = Idle]
      /\ grants' = grants \/ grants' = grants \cup {g}
      /\ now' = now
  BY DEF Record, Moves
<1>2. InFlight(I)' = InFlight(I) \ {h}
  <2>1. InFlight(I)' = (InFlight(I) \ {h}) \cup (IF Idle # Idle /\ Idle.ip \in I THEN {h} ELSE {})
    BY <1>1, HandlerMoves
  <2> QED BY <2>1
<1>3. g.ip = handlers[h].ip
  OBVIOUS
<1> HIDE DEF g
<1>4. CASE grants' = grants \/ g.ip \notin I
  <2>1. Recent(I)' = Recent(I)
    BY <1>1, <1>4 DEF Recent, Since
  <2> QED BY <1>2, <2>1, CapNotReached
<1>5. CASE grants' = grants \cup {g} /\ g.ip \in I
  <2>1. h \in InFlight(I)
    BY <1>3, <1>5 DEF InFlight, Record, At, Idle
  <2>2. Recent(I)' \subseteq Recent(I) \cup {g}
    BY <1>1, <1>5 DEF Recent, Since
  <2>3. IsFiniteSet(Recent(I)) /\ IsFiniteSet(InFlight(I))
        /\ Cardinality(Recent(I)) \in Nat /\ Cardinality(InFlight(I)) \in Nat
        /\ Cardinality(Handlers) \in Nat
    BY Subsets, FaucetCounts
  <2>4. IsFiniteSet(Recent(I) \cup {g})
        /\ Cardinality(Recent(I) \cup {g}) <= Cardinality(Recent(I)) + 1
    <3>1. IsFiniteSet(Recent(I) \cup {g})
          /\ Cardinality(Recent(I) \cup {g})
                = IF g \in Recent(I) THEN Cardinality(Recent(I)) ELSE Cardinality(Recent(I)) + 1
      BY <2>3, FS_AddElement
    <3> QED BY <2>3, <3>1
  <2>5. IsFiniteSet(Recent(I)') /\ Cardinality(Recent(I)') <= Cardinality(Recent(I) \cup {g})
    BY <2>2, <2>4, FS_Subset
  <2>6. Cardinality(Recent(I)') \in Nat /\ Cardinality(Recent(I) \cup {g}) \in Nat
    BY <2>4, <2>5, FS_CardinalityType
  <2>7. Cardinality(InFlight(I)') = Cardinality(InFlight(I)) - 1
    BY <1>2, <2>1, <2>3, FS_RemoveElement
  <2> QED BY <2>3, <2>4, <2>5, <2>6, <2>7 DEF CapKept
<1> QED BY <1>1, <1>4, <1>5

\* Multiplying by one more.
LEMMA OneMoreTime ==
    ASSUME NEW n \in Nat, NEW m \in Nat
    PROVE  n * m \in Nat /\ n * (m + 1) = n + n * m /\ n * (1 + m) = n + n * m
OBVIOUS

LEMMA TimesKeepsOrder ==
    ASSUME NEW n \in Nat, NEW a \in Nat, NEW b \in Nat, a <= b
    PROVE  n * a \in Nat /\ n * b \in Nat /\ n * a <= n * b
<1>1. PICK c \in Nat : b = a + c
  <2>1. b - a \in Nat /\ b = a + (b - a)
    OBVIOUS
  <2> QED BY <2>1
<1>2. n * (a + c) = n * a + n * c /\ n * a \in Nat /\ n * c \in Nat
  OBVIOUS
<1> QED BY <1>1, <1>2

\* The numbers GasKept speaks of.
LEMMA GasCounts ==
    ASSUME FaucetTypeOK, NEW w
    PROVE  /\ IsFiniteSet(Paid(w)) /\ Cardinality(Paid(w)) \in Nat
           /\ IsFiniteSet(Unpaid(w)) /\ Cardinality(Unpaid(w)) \in Nat
           /\ IsFiniteSet(Open(w)) /\ Cardinality(Open(w)) \in 0..Cardinality(Handlers)
           /\ IsFiniteSet(Since(w)) /\ Cardinality(Since(w)) \in Nat
           /\ Cardinality(Handlers) \in Nat \ {0} /\ mishaps \in Nat
<1>1. IsFiniteSet(Paid(w)) /\ Cardinality(Paid(w)) \in Nat
  <2>1. Paid(w) \in SUBSET paid
    BY DEF Paid
  <2> QED BY <2>1, FS_Subset, FS_CardinalityType DEF FaucetTypeOK
<1>2. Unpaid(w) \in SUBSET Handlers /\ Open(w) \in SUBSET Handlers /\ Since(w) \in SUBSET grants
  BY DEF Unpaid, Open, Since
<1> QED BY <1>1, <1>2, FaucetCounts DEF FaucetTypeOK

LEMMA GasCountsNext ==
    ASSUME FaucetTypeOK', NEW w
    PROVE  /\ Cardinality(Paid(w)') \in Nat
           /\ Cardinality(Unpaid(w)') \in Nat
           /\ Cardinality(Open(w)') \in Nat
<1>1. Paid(w)' \in SUBSET paid' /\ IsFiniteSet(paid')
  BY DEF Paid, FaucetTypeOK
<1>2. Unpaid(w)' \in SUBSET Handlers /\ Open(w)' \in SUBSET Handlers
  BY DEF Unpaid, Open
<1> QED BY <1>1, <1>2, FS_Subset, FS_CardinalityType, FaucetAssumption

\* A set less an element, or one more.
LEMMA OneElement ==
    ASSUME NEW S, IsFiniteSet(S), NEW e
    PROVE  /\ Cardinality(S) \in Nat
           /\ Cardinality(S \ {e}) = Cardinality(S) - (IF e \in S THEN 1 ELSE 0)
           /\ Cardinality(S \cup {e}) = Cardinality(S) + (IF e \in S THEN 0 ELSE 1)
<1>1. Cardinality(S) \in Nat
  BY FS_CardinalityType
<1>2. e \notin S => S \ {e} = S
  OBVIOUS
<1>3. Cardinality(S \ {e}) = Cardinality(S) - (IF e \in S THEN 1 ELSE 0)
  BY <1>1, <1>2, FS_RemoveElement
<1>4. Cardinality(S \cup {e}) = Cardinality(S) + (IF e \in S THEN 0 ELSE 1)
  BY <1>1, FS_AddElement
<1> QED BY <1>1, <1>3, <1>4

\* No row and no mishap more: the gas paid and still to pay falls at least as
\* much as the requests whose row is to be written.
LEMMA GasStays ==
    ASSUME FaucetTypeOK, FaucetTypeOK', NEW w, GasKept(w), mishaps' = mishaps,
           Cardinality(Since(w)') = Cardinality(Since(w)),
           NEW k \in Nat,
           Cardinality(Paid(w)') + Cardinality(Unpaid(w)') + k
                = Cardinality(Paid(w)) + Cardinality(Unpaid(w)),
           Cardinality(Open(w)) <= Cardinality(Open(w)') + k
    PROVE  GasKept(w)'
<1> DEFINE R  == Cardinality(Since(w))
           bound == Cardinality(Handlers) * (R + mishaps)
           most == Cardinality(Handlers) * (FAUCET_DAILY + mishaps)
<1>1. /\ Cardinality(Paid(w)) \in Nat /\ Cardinality(Unpaid(w)) \in Nat
      /\ Cardinality(Open(w)) \in Nat /\ R \in Nat
      /\ Cardinality(Handlers) \in Nat /\ mishaps \in Nat
  BY GasCounts
<1>2. /\ Cardinality(Paid(w)') \in Nat /\ Cardinality(Unpaid(w)') \in Nat
      /\ Cardinality(Open(w)') \in Nat
  BY GasCountsNext
<1>3. bound \in Nat /\ most \in Nat
  BY <1>1, TimesKeepsOrder, FaucetAssumption
<1>4. /\ Cardinality(Paid(w)) + Cardinality(Unpaid(w)) <= bound + Cardinality(Open(w))
      /\ Cardinality(Paid(w)) + Cardinality(Unpaid(w)) <= most
  BY DEF GasKept
<1>5. bound' = bound /\ most' = most
  OBVIOUS
<1> HIDE DEF bound, most
<1>6. /\ Cardinality(Paid(w)') + Cardinality(Unpaid(w)') <= bound + Cardinality(Open(w)')
      /\ Cardinality(Paid(w)') + Cardinality(Unpaid(w)') <= most
  BY <1>1, <1>2, <1>3, <1>4
<1> QED BY <1>5, <1>6 DEF GasKept, bound, most, R

\* A row or a mishap more.
LEMMA GasRises ==
    ASSUME FaucetTypeOK, FaucetTypeOK', NEW w, GasKept(w),
           \/ mishaps' = mishaps /\ Cardinality(Since(w)') = Cardinality(Since(w)) + 1
           \/ mishaps' = mishaps + 1 /\ Cardinality(Since(w)') = Cardinality(Since(w)),
           Cardinality(Paid(w)') + Cardinality(Unpaid(w)')
                <= Cardinality(Paid(w)) + Cardinality(Unpaid(w))
    PROVE  GasKept(w)'
<1> DEFINE H  == Cardinality(Handlers)
           n  == Cardinality(Since(w)) + mishaps
           m  == FAUCET_DAILY + mishaps
           n1 == Cardinality(Since(w)') + mishaps'
           m1 == FAUCET_DAILY + mishaps'
<1>1. /\ Cardinality(Paid(w)) \in Nat /\ Cardinality(Unpaid(w)) \in Nat
      /\ Cardinality(Open(w)) \in 0..H /\ Cardinality(Since(w)) \in Nat
      /\ H \in Nat /\ mishaps \in Nat
  BY GasCounts
<1>2. /\ Cardinality(Paid(w)') \in Nat /\ Cardinality(Unpaid(w)') \in Nat
      /\ Cardinality(Open(w)') \in Nat
  BY GasCountsNext
<1>3. n \in Nat /\ n1 = n + 1 /\ m \in Nat /\ m1 \in Nat /\ m <= m1
  BY <1>1, FaucetAssumption
<1>4. /\ Cardinality(Paid(w)) + Cardinality(Unpaid(w)) <= H * n + Cardinality(Open(w))
      /\ Cardinality(Paid(w)) + Cardinality(Unpaid(w)) <= H * m
  BY DEF GasKept
<1> HIDE DEF n, m, n1, m1, H
<1>5. H * n1 = H + H * n /\ H * n \in Nat
  BY <1>1, <1>3, OneMoreTime
<1>6. H * m \in Nat /\ H * m1 \in Nat /\ H * m <= H * m1
  BY <1>1, <1>3, TimesKeepsOrder
<1>7. /\ Cardinality(Paid(w)') + Cardinality(Unpaid(w)') <= H * n1 + Cardinality(Open(w)')
      /\ Cardinality(Paid(w)') + Cardinality(Unpaid(w)') <= H * m1
  BY <1>1, <1>2, <1>4, <1>5, <1>6
<1> QED BY <1>7 DEF GasKept, H, n1, m1

\* A request is let through: there was room for one more row in the day, and
\* its address has none.
LEMMA RequestKeepsGas ==
    ASSUME FaucetTypeOK, NEW h \in Handlers, NEW a \in Addresses, NEW ip \in Ips,
           Request(h, a, ip), NEW w \in Int, w >= now - DAY, GasKept(w)
    PROVE  GasKept(w)'
<1> DEFINE v == [pc |-> "balance", to |-> a, ip |-> ip, asked |-> now]
<1>1. /\ FaucetTypeOK' /\ v \in Working /\ v.asked = now /\ v.to = a /\ v.pc = "balance"
      /\ handlers[h] = Idle /\ handlers' = [handlers EXCEPT ![h] = v]
      /\ UNCHANGED <<grants, sends, paid, now, mishaps>>
  BY RequestMoves
<1> HIDE DEF v
<1>2. v # Idle /\ ~ HasRow(a)
  BY <1>1, IdleIsNotWorking DEF Request, HasRow
<1>3. h \notin Unpaid(w) /\ h \notin Open(w)
  BY <1>1 DEF Unpaid, Open
<1>4. Since(w)' = Since(w) /\ Paid(w)' = Paid(w)
  BY <1>1 DEF Since, Paid
<1>5. /\ Unpaid(w)' = (Unpaid(w) \ {h})
                \cup (IF v # Idle /\ v.pc # "record" /\ v.asked > w THEN {h} ELSE {})
      /\ Open(w)' = (Open(w) \ {h})
                \cup (IF v # Idle /\ v.asked > w /\ ~ HasRow(v.to) THEN {h} ELSE {})
  <2>1. FaucetTypeOK /\ v \in {Idle} \cup Working /\ grants' = grants
    BY <1>1
  <2>2. handlers' = [handlers EXCEPT ![h] = v]
    BY <1>1
  <2>3. Unpaid(w)' = (Unpaid(w) \ {h})
                \cup (IF v # Idle /\ v.pc # "record" /\ v.asked > w THEN {h} ELSE {})
    BY <2>1, <2>2, HandlerMoves
  <2>4. Open(w)' = (Open(w) \ {h})
                \cup (IF v # Idle /\ v.asked > w /\ ~ HasRow(v.to) THEN {h} ELSE {})
    BY <2>1, <2>2, HandlerMoves
  <2> QED BY <2>3, <2>4
<1>6. /\ Cardinality(Paid(w)) \in Nat /\ Cardinality(Unpaid(w)) \in Nat
      /\ Cardinality(Open(w)) \in Nat /\ Cardinality(Since(w)) \in Nat
      /\ Cardinality(Handlers) \in Nat /\ mishaps \in Nat
      /\ IsFiniteSet(Unpaid(w)) /\ IsFiniteSet(Open(w))
  BY GasCounts
<1>7. CASE now > w
  <2>1. Unpaid(w)' = Unpaid(w) \cup {h} /\ Open(w)' = Open(w) \cup {h}
    BY <1>1, <1>2, <1>3, <1>5, <1>7
  <2>2. /\ Cardinality(Unpaid(w)') = Cardinality(Unpaid(w)) + 1
        /\ Cardinality(Open(w)') = Cardinality(Open(w)) + 1
    BY <1>3, <1>6, <2>1, FS_AddElement
  <2>3. Cardinality(Open(w)') <= Cardinality(Handlers)
    <3>1. Open(w)' \in SUBSET Handlers
      BY DEF Open
    <3> QED BY <3>1, FaucetCounts
  <2>4. Cardinality(Since(w)) < FAUCET_DAILY
    <3>1. \A g \in grants : g.at > w => g.at > now - DAY
      BY <1>1, FaucetAssumption DEF FaucetTypeOK, Grant
    <3>2. Since(w) \subseteq Since(now - DAY)
      BY <3>1 DEF Since
    <3>3. IsFiniteSet(Since(now - DAY)) /\ Cardinality(Since(now - DAY)) \in Nat
      BY GasCounts
    <3>4. Cardinality(Since(w)) <= Cardinality(Since(now - DAY))
      BY <3>2, <3>3, FS_Subset
    <3> QED BY <1>6, <3>3, <3>4, FaucetAssumption DEF Request
  <2> DEFINE H == Cardinality(Handlers)
             n == Cardinality(Since(w)) + mishaps
             m == FAUCET_DAILY + mishaps
  <2>5. n \in Nat /\ m \in Nat /\ n + 1 <= m /\ n + 1 \in Nat
    BY <1>6, <2>4, FaucetAssumption
  <2>6. Cardinality(Paid(w)) + Cardinality(Unpaid(w)) <= H * n + Cardinality(Open(w))
    BY DEF GasKept
  <2>7. (n' = n /\ m' = m /\ H' = H)
    BY <1>1, <1>4
  <2> HIDE DEF n, m, H
  <2>8. H \in Nat
    BY <1>6 DEF H
  <2>9. H * (n + 1) = H + H * n /\ H * n \in Nat /\ H * (n + 1) <= H * m /\ H * m \in Nat
    BY <2>5, <2>8, OneMoreTime, TimesKeepsOrder
  <2>10. /\ Cardinality(Paid(w)) + Cardinality(Unpaid(w)') <= H * n + Cardinality(Open(w)')
         /\ Cardinality(Paid(w)) + Cardinality(Unpaid(w)') <= H * m
    <3>1. Cardinality(Open(w)') <= H
      BY <2>3 DEF H
    <3> QED BY <1>6, <2>2, <2>6, <2>8, <2>9, <3>1
  <2> QED BY <1>4, <2>7, <2>10 DEF GasKept, n, m, H
<1>8. CASE ~ (now > w)
  <2>1. Unpaid(w)' = Unpaid(w) /\ Open(w)' = Open(w)
    BY <1>1, <1>3, <1>5, <1>8
  <2> QED BY <1>1, <1>4, <1>6, <2>1, GasStays
<1> QED BY <1>7, <1>8

\* A request that has not paid ends without a transfer.
LEMMA EndKeepsGas ==
    ASSUME FaucetTypeOK, FaucetTypeOK', NEW h \in Handlers, handlers[h].pc # "record",
           handlers' = [handlers EXCEPT ![h] = Idle],
           UNCHANGED <<grants, paid, mishaps>>, NEW w, GasKept(w)
    PROVE  GasKept(w)'
<1>1. Unpaid(w)' = Unpaid(w) \ {h} /\ Open(w)' = Open(w) \ {h}
  <2>1. /\ Unpaid(w)' = (Unpaid(w) \ {h})
                \cup (IF Idle # Idle /\ Idle.pc # "record" /\ Idle.asked > w THEN {h} ELSE {})
        /\ Open(w)' = (Open(w) \ {h})
                \cup (IF Idle # Idle /\ Idle.asked > w /\ ~ HasRow(Idle.to) THEN {h} ELSE {})
    BY HandlerMoves
  <2> QED BY <2>1
<1>2. Since(w)' = Since(w) /\ Paid(w)' = Paid(w)
  BY DEF Since, Paid
<1>3. h \in Open(w) => h \in Unpaid(w)
  BY DEF Unpaid, Open
<1>4. /\ IsFiniteSet(Unpaid(w)) /\ IsFiniteSet(Open(w))
      /\ Cardinality(Paid(w)) \in Nat /\ Cardinality(Unpaid(w)) \in Nat
      /\ Cardinality(Open(w)) \in Nat
  BY GasCounts
<1> DEFINE k == IF h \in Unpaid(w) THEN 1 ELSE 0
<1>5. k \in Nat /\ Cardinality(Unpaid(w)') = Cardinality(Unpaid(w)) - k
  BY <1>1, <1>4, OneElement
<1>6. Cardinality(Open(w)) <= Cardinality(Open(w)') + k
  <2>1. Cardinality(Open(w)') = Cardinality(Open(w)) - (IF h \in Open(w) THEN 1 ELSE 0)
    BY <1>1, <1>4, OneElement
  <2> QED BY <1>3, <1>4, <2>1
<1> HIDE DEF k
<1>7. Cardinality(Paid(w)') + Cardinality(Unpaid(w)') + k = Cardinality(Paid(w)) + Cardinality(Unpaid(w))
  BY <1>2, <1>4, <1>5
<1> QED BY <1>2, <1>5, <1>6, <1>7, GasStays

\* A request pays: what it may still pay becomes what is paid.
LEMMA TransferKeepsGas ==
    ASSUME FaucetTypeOK, FaucetTypeOK', PaidOK, NEW h \in Handlers, At(h, "send"),
           NEW v \in {Idle} \cup Working, handlers' = [handlers EXCEPT ![h] = v],
           grants' = grants,
           paid' = paid \cup {[to |-> handlers[h].to, asked |-> handlers[h].asked,
                               no |-> sends[handlers[h].to] + 1]},
           \/ v = [handlers[h] EXCEPT !.pc = "record"] /\ mishaps' = mishaps
           \/ v = Idle /\ mishaps' = mishaps + 1,
           NEW w, GasKept(w)
    PROVE  GasKept(w)'
<1> DEFINE on == [handlers[h] EXCEPT !.pc = "record"]
           p  == [to |-> handlers[h].to, asked |-> handlers[h].asked,
                  no |-> sends[handlers[h].to] + 1]
<1>1. /\ handlers[h] # Idle /\ handlers[h].pc = "send" /\ handlers[h] \in Working
      /\ on \in Working /\ on.pc = "record" /\ on.to = handlers[h].to
      /\ on.asked = handlers[h].asked
  BY AtWork
<1>2. on # Idle
  BY <1>1, IdleIsNotWorking
<1>3. p \notin paid
  <2>1. p.no = sends[p.to] + 1 /\ sends[p.to] \in Nat
    BY <1>1 DEF Working, FaucetTypeOK
  <2> QED BY <2>1 DEF PaidOK
<1>4. p.asked = handlers[h].asked
  OBVIOUS
<1> HIDE DEF on, p
<1>5. /\ Unpaid(w)' = (Unpaid(w) \ {h})
                \cup (IF v # Idle /\ v.pc # "record" /\ v.asked > w THEN {h} ELSE {})
      /\ Open(w)' = (Open(w) \ {h})
                \cup (IF v # Idle /\ v.asked > w /\ ~ HasRow(v.to) THEN {h} ELSE {})
  BY HandlerMoves
<1>6. v = on \/ v = Idle
  BY DEF on
<1>7. Unpaid(w)' = Unpaid(w) \ {h}
  BY <1>1, <1>5, <1>6
<1>8. h \in Unpaid(w) <=> p.asked > w
  BY <1>1, <1>4 DEF Unpaid
<1>9. Paid(w)' = IF p.asked > w THEN Paid(w) \cup {p} ELSE Paid(w)
  BY DEF Paid, p
<1>10. p \notin Paid(w)
  BY <1>3 DEF Paid
<1>11. /\ IsFiniteSet(Unpaid(w)) /\ IsFiniteSet(Paid(w))
       /\ Cardinality(Paid(w)) \in Nat /\ Cardinality(Unpaid(w)) \in Nat
       /\ Cardinality(Open(w)) \in Nat
  BY GasCounts
<1>12. Cardinality(Paid(w)') + Cardinality(Unpaid(w)') = Cardinality(Paid(w)) + Cardinality(Unpaid(w))
  <2>1. CASE p.asked > w
    <3>1. /\ Cardinality(Paid(w)') = Cardinality(Paid(w)) + 1
          /\ Cardinality(Unpaid(w)') = Cardinality(Unpaid(w)) - 1
      BY <1>7, <1>8, <1>9, <1>10, <1>11, <2>1, OneElement
    <3> QED BY <1>11, <3>1
  <2>2. CASE ~ (p.asked > w)
    <3>1. Unpaid(w)' = Unpaid(w) /\ Paid(w)' = Paid(w)
      BY <1>7, <1>8, <1>9, <2>2
    <3> QED BY <3>1
  <2> QED BY <2>1, <2>2
<1>13. Since(w)' = Since(w)
  BY DEF Since
<1>14. CASE v = on /\ mishaps' = mishaps
  <2>1. h \in Open(w) <=> on.asked > w /\ ~ HasRow(on.to)
    BY <1>1 DEF Open
  <2>2. Open(w)' = Open(w)
    BY <1>2, <1>5, <1>14, <2>1
  <2>3. (Cardinality(Paid(w)') + Cardinality(Unpaid(w)')) + 0
            = Cardinality(Paid(w)) + Cardinality(Unpaid(w))
        /\ Cardinality(Open(w)) <= Cardinality(Open(w)') + 0
    BY <1>11, <1>12, <2>2
  <2> QED BY <1>13, <1>14, <2>3, GasStays
<1>15. CASE v = Idle /\ mishaps' = mishaps + 1
  <2>1. Cardinality(Paid(w)') + Cardinality(Unpaid(w)')
            <= Cardinality(Paid(w)) + Cardinality(Unpaid(w))
    BY <1>11, <1>12
  <2> QED BY <1>13, <1>15, <2>1, GasRises
<1> QED BY <1>14, <1>15 DEF on

\* A row is written, or was there: it stands for those of its address.
LEMMA RecordKeepsGas ==
    ASSUME FaucetTypeOK, FaucetTypeOK', PaidOK, NEW h \in Handlers, Record(h),
           NEW w \in Int, GasKept(w)
    PROVE  GasKept(w)'
<1> DEFINE to == handlers[h].to
           g  == [to |-> to, ip |-> handlers[h].ip, at |-> now]
<1>1. /\ handlers' = [handlers EXCEPT ![h] = Idle] /\ handlers[h].pc = "record"
      /\ UNCHANGED <<sends, paid, now, mishaps>>
      /\ IF HasRow(to) THEN grants' = grants ELSE grants' = grants \cup {g}
  BY DEF Record, Moves, HasRow, At
<1>2. Paid(w)' = Paid(w)
  BY <1>1 DEF Paid
<1>3. Unpaid(w)' = Unpaid(w)
  <2>1. Unpaid(w)' = (Unpaid(w) \ {h})
                \cup (IF Idle # Idle /\ Idle.pc # "record" /\ Idle.asked > w THEN {h} ELSE {})
    BY <1>1, HandlerMoves
  <2>2. h \notin Unpaid(w)
    BY <1>1 DEF Unpaid
  <2> QED BY <2>1, <2>2
<1>4. /\ Cardinality(Paid(w)) \in Nat /\ Cardinality(Unpaid(w)) \in Nat
      /\ Cardinality(Open(w)) \in Nat
      /\ IsFiniteSet(Since(w)) /\ Cardinality(Since(w)) \in Nat
  BY GasCounts
<1>5. g.at = now /\ g.to = to
  OBVIOUS
<1> HIDE DEF to, g
<1>6. CASE HasRow(to)
  <2>1. Open(w)' = (Open(w) \ {h})
            \cup (IF Idle # Idle /\ Idle.asked > w /\ ~ HasRow(Idle.to) THEN {h} ELSE {})
    BY <1>1, <1>6, HandlerMoves
  <2>2. h \notin Open(w)
    BY <1>6 DEF Open, to
  <2>3. Open(w)' = Open(w) /\ Since(w)' = Since(w)
    BY <1>1, <1>6, <2>1, <2>2 DEF Since
  <2>4. (Cardinality(Paid(w)') + Cardinality(Unpaid(w)')) + 0
            = Cardinality(Paid(w)) + Cardinality(Unpaid(w))
        /\ Cardinality(Open(w)) <= Cardinality(Open(w)') + 0
    BY <1>2, <1>3, <1>4, <2>3
  <2> QED BY <1>1, <2>3, <2>4, GasStays
<1>7. CASE ~ HasRow(to) /\ now > w
  <2>1. g \notin Since(w) /\ Since(w)' = Since(w) \cup {g}
    BY <1>1, <1>5, <1>7 DEF Since, HasRow
  <2>2. Cardinality(Since(w)') = Cardinality(Since(w)) + 1
    BY <1>4, <2>1, FS_AddElement
  <2>3. Cardinality(Paid(w)') + Cardinality(Unpaid(w)')
            <= Cardinality(Paid(w)) + Cardinality(Unpaid(w))
    BY <1>2, <1>3, <1>4
  <2> QED BY <1>1, <2>2, <2>3, GasRises
<1>8. CASE ~ HasRow(to) /\ ~ (now > w)
  <2>1. Since(w)' = Since(w)
    BY <1>1, <1>5, <1>8 DEF Since
  <2>2. \A d \in Handlers : handlers[d] # Idle => ~ (handlers[d].asked > w)
    <3>1. \A d \in Handlers : handlers[d] # Idle => handlers[d].asked \in Nat
      BY DEF FaucetTypeOK, Working
    <3> QED BY <1>8, <3>1 DEF PaidOK, FaucetTypeOK
  <2>3. Open(w) = {}
    BY <2>2 DEF Open
  <2>4. Cardinality(Open(w)) = 0
    BY <2>3, FS_EmptySet
  <2>5. Cardinality(Open(w)') \in Nat
    BY GasCountsNext
  <2>6. (Cardinality(Paid(w)') + Cardinality(Unpaid(w)')) + 0
            = Cardinality(Paid(w)) + Cardinality(Unpaid(w))
        /\ Cardinality(Open(w)) <= Cardinality(Open(w)') + 0
    BY <1>2, <1>3, <1>4, <2>4, <2>5
  <2> QED BY <1>1, <2>1, <2>6, GasStays
<1> QED BY <1>6, <1>7, <1>8

\* Nothing GasKept speaks of changes.
LEMMA GasSame ==
    ASSUME NEW w, GasKept(w), UNCHANGED <<grants, handlers, paid, mishaps>>
    PROVE  GasKept(w)'
<1>1. /\ Since(w)' = Since(w) /\ Paid(w)' = Paid(w)
      /\ Unpaid(w)' = Unpaid(w) /\ Open(w)' = Open(w)
  BY DEF Since, Paid, Unpaid, Open, HasRow
<1> QED BY <1>1 DEF GasKept

\* No transfer to a: what was sent stays within its bound if no request stops
\* recording, and none starts sending to an address that has its row.
LEMMA NothingSent ==
    ASSUME FaucetTypeOK, NEW a \in Addresses, SendsKept(a),
           UNCHANGED grants, sends'[a] = sends[a],
           mishaps' = mishaps \/ mishaps' = mishaps + 1,
           Recording(a) \subseteq Recording(a)',
           HasRow(a) => Sending(a)' \subseteq Sending(a)
    PROVE  SendsKept(a)'
<1> DEFINE H == Cardinality(Handlers)
<1>1. IsFiniteSet(Sending(a)) /\ Cardinality(Sending(a)) \in Nat /\ H \in Nat
  BY Subsets, FaucetCounts
<1>2. sends[a] \in Nat /\ mishaps \in Nat /\ mishaps' \in Nat
  BY DEF FaucetTypeOK
<1>3. H * mishaps \in Nat /\ H * mishaps' \in Nat /\ H * mishaps <= H * mishaps'
  <2>1. mishaps' = mishaps + 1 => H * mishaps' = H + H * mishaps
    BY <1>1, <1>2, OneMoreTime
  <2> QED BY <1>1, <1>2, <2>1, OneMoreTime
<1> HIDE DEF H
<1>4. HasRow(a)' = HasRow(a)
  BY DEF HasRow
<1>5. CASE HasRow(a)
  <2>1. IsFiniteSet(Sending(a)') /\ Cardinality(Sending(a)') <= Cardinality(Sending(a))
    BY <1>1, <1>5, FS_Subset
  <2>2. Cardinality(Sending(a)') \in Nat
    BY <2>1, FS_CardinalityType
  <2> QED BY <1>1, <1>2, <1>3, <1>4, <1>5, <2>1, <2>2 DEF SendsKept, H
<1>6. CASE ~ HasRow(a)
  <2>1. Recording(a)' \in SUBSET Handlers
    BY DEF Recording
  <2>2. IsFiniteSet(Recording(a)') /\ Cardinality(Recording(a)') \in Nat
    BY <2>1, FaucetCounts
  <2>3. Cardinality(Recording(a)) \in Nat /\ Cardinality(Recording(a)) <= Cardinality(Recording(a)')
    BY <2>2, FS_Subset, Subsets, FaucetCounts
  <2> QED BY <1>2, <1>3, <1>4, <1>6, <2>2, <2>3 DEF SendsKept, H
<1> QED BY <1>5, <1>6

\* A transfer to a goes out: its request goes on to record it, or the answer is
\* lost.
LEMMA TransferKeepsSends ==
    ASSUME FaucetTypeOK, NEW h \in Handlers, NEW a \in Addresses, SendsKept(a),
           h \in Sending(a), UNCHANGED grants, sends'[a] = sends[a] + 1,
           Sending(a)' = Sending(a) \ {h},
           \/ Recording(a)' = Recording(a) \cup {h} /\ mishaps' = mishaps
           \/ Recording(a)' = Recording(a) /\ mishaps' = mishaps + 1
    PROVE  SendsKept(a)'
<1> DEFINE H == Cardinality(Handlers)
<1>1. /\ IsFiniteSet(Sending(a)) /\ Cardinality(Sending(a)) \in Nat
      /\ IsFiniteSet(Recording(a)) /\ Cardinality(Recording(a)) \in Nat
      /\ H \in Nat \ {0}
  BY Subsets, FaucetCounts
<1>2. Cardinality(Sending(a)') = Cardinality(Sending(a)) - 1
  BY <1>1, FS_RemoveElement
<1>3. h \notin Recording(a)
  BY Subsets
<1>4. \/ Cardinality(Recording(a)') = Cardinality(Recording(a)) + 1 /\ mishaps' = mishaps
      \/ Cardinality(Recording(a)') = Cardinality(Recording(a)) /\ mishaps' = mishaps + 1
  BY <1>1, <1>3, FS_AddElement
<1>5. sends[a] \in Nat /\ mishaps \in Nat /\ H * mishaps \in Nat
      /\ H * (mishaps + 1) = H + H * mishaps
  BY <1>1, OneMoreTime DEF FaucetTypeOK
<1>6. HasRow(a)' = HasRow(a)
  BY DEF HasRow
<1> HIDE DEF H
<1>7. H * mishaps' \in Nat /\ H * mishaps <= H * mishaps'
      /\ (mishaps' = mishaps + 1 => H * mishaps' = H + H * mishaps)
      /\ (mishaps' = mishaps => H * mishaps' = H * mishaps)
  BY <1>1, <1>4, <1>5
<1>8. CASE HasRow(a)
  BY <1>1, <1>2, <1>5, <1>6, <1>7, <1>8 DEF SendsKept, H
<1>9. CASE ~ HasRow(a)
  BY <1>1, <1>4, <1>5, <1>6, <1>7, <1>9 DEF SendsKept, H
<1> QED BY <1>8, <1>9

\* The row of a is there: those that were to record it were not counted as
\* mishaps, and those still sending make up the rest of the requests at most.
LEMMA RowKeepsSends ==
    ASSUME FaucetTypeOK, NEW a \in Addresses, SendsKept(a), ~ HasRow(a), HasRow(a)',
           UNCHANGED <<sends, mishaps>>, Sending(a)' = Sending(a)
    PROVE  SendsKept(a)'
<1>1. /\ IsFiniteSet(Sending(a)) /\ Cardinality(Sending(a)) \in Nat
      /\ IsFiniteSet(Recording(a)) /\ Cardinality(Recording(a)) \in Nat
      /\ Cardinality(Handlers) \in Nat
      /\ Sending(a) \cup Recording(a) \in SUBSET Handlers
      /\ Sending(a) \cap Recording(a) = {}
  BY Subsets, FaucetCounts
<1>2. Cardinality(Sending(a) \cup Recording(a)) = Cardinality(Sending(a)) + Cardinality(Recording(a))
  <2>1. Cardinality(Sending(a) \cap Recording(a)) = 0
    BY <1>1, FS_EmptySet
  <2>2. Cardinality(Sending(a) \cup Recording(a))
           = Cardinality(Sending(a)) + Cardinality(Recording(a)) - Cardinality(Sending(a) \cap Recording(a))
    BY <1>1, FS_Union
  <2> QED BY <1>1, <2>1, <2>2
<1>3. Cardinality(Sending(a) \cup Recording(a)) <= Cardinality(Handlers)
  BY <1>1, FaucetCounts
<1>4. sends[a] \in Nat /\ Cardinality(Handlers) * mishaps \in Nat
  BY <1>1, OneMoreTime DEF FaucetTypeOK
<1> QED BY <1>1, <1>2, <1>3, <1>4 DEF SendsKept

-----------------------------------------------------------------------------
(* The invariant                                                           *)

LEMMA FaucetInitInv == FaucetInit => FaucetInv
<1> SUFFICES ASSUME FaucetInit PROVE FaucetInv
  OBVIOUS
<1>1. FaucetTypeOK
  BY FS_EmptySet, FaucetAssumption DEF FaucetInit, FaucetTypeOK
<1>2. \A h \in Handlers : handlers[h] = Idle
  BY DEF FaucetInit
<1>3. /\ \A I : Recent(I) = {} /\ InFlight(I) = {}
      /\ \A a : Sending(a) = {} /\ Recording(a) = {}
      /\ \A w : Paid(w) = {} /\ Unpaid(w) = {} /\ Open(w) = {} /\ Since(w) = {}
  BY <1>2 DEF FaucetInit, Recent, Since, InFlight, Sending, Recording, Paid, Unpaid, Open
<1>4. Cardinality({}) = 0 /\ Cardinality(Handlers) \in Nat \ {0}
  BY <1>1, FS_EmptySet, FaucetCounts
<1>5. \A I : \A cap \in Nat : CapKept(I, cap)
  BY <1>3, <1>4 DEF CapKept
<1>6. \A a \in Addresses : SendsKept(a)
  <2> TAKE a \in Addresses
  <2>1. ~ HasRow(a) /\ sends[a] = 0 /\ mishaps = 0
    BY DEF FaucetInit, HasRow
  <2>2. Cardinality(Handlers) * 0 = 0
    BY <1>4
  <2> QED BY <1>3, <1>4, <2>1, <2>2 DEF SendsKept
<1>7. PaidOK
  BY <1>2 DEF FaucetInit, PaidOK
<1>8. ASSUME NEW w PROVE GasKept(w)
  <2>1. /\ Cardinality(Handlers) * (0 + 0) = 0
        /\ Cardinality(Handlers) * (FAUCET_DAILY + 0) \in Nat
    BY <1>4, TimesKeepsOrder, FaucetAssumption
  <2>2. mishaps = 0
    BY DEF FaucetInit
  <2> QED BY <1>3, <1>4, <2>1, <2>2 DEF GasKept
<1> QED BY <1>1, <1>5, <1>6, <1>7, <1>8, FaucetAssumption DEF FaucetInv

LEMMA RecentCounts ==
    ASSUME FaucetTypeOK
    PROVE  \A ip : Recent({ip}) = {g \in Since(now - DAY) : g.ip = ip}
BY DEF Recent

LEMMA RequestInv ==
    ASSUME FaucetInv, NEW h \in Handlers, NEW a \in Addresses, NEW ip \in Ips,
           Request(h, a, ip)
    PROVE  FaucetInv'
<1> DEFINE v == [pc |-> "balance", to |-> a, ip |-> ip, asked |-> now]
<1>1. /\ FaucetTypeOK /\ FaucetTypeOK' /\ v \in Working /\ v.pc = "balance" /\ v.to = a
      /\ v.asked = now
      /\ handlers[h] = Idle /\ handlers' = [handlers EXCEPT ![h] = v]
      /\ UNCHANGED <<grants, sends, paid, now, mishaps>>
  BY RequestMoves DEF FaucetInv
<1> HIDE DEF v
<1>2. Cardinality(Recent({ip})) < FAUCET_PER_IP
  BY <1>1, RecentCounts DEF Request
<1>3. PaidOK' /\ (\A w \in Int : w >= now - DAY => GasKept(w))'
  <2>1. PaidOK'
    <3>1. \A d \in Handlers : handlers'[d] = handlers[d] \/ handlers'[d] = v
      BY <1>1 DEF FaucetTypeOK
    <3> QED BY <1>1, <3>1 DEF FaucetInv, PaidOK, FaucetTypeOK
  <2>2. ASSUME NEW w \in Int, w >= now - DAY PROVE GasKept(w)'
    BY <1>1, <2>2, RequestKeepsGas DEF FaucetInv
  <2> QED BY <1>1, <2>1, <2>2
<1>4. ASSUME NEW p \in Ips PROVE CapKept({p}, FAUCET_PER_IP)'
  <2>1. ip \in {p} => Cardinality(Recent({p})) < FAUCET_PER_IP
    BY <1>2
  <2> QED BY <1>1, <2>1, RequestKeepsCap, FaucetAssumption DEF FaucetInv
<1>5. ASSUME NEW b \in Addresses PROVE SendsKept(b)'
  <2>0. FaucetTypeOK /\ v \in {Idle} \cup Working /\ handlers' = [handlers EXCEPT ![h] = v]
    BY <1>1
  <2>1. Recording(b)' = (Recording(b) \ {h}) \cup (IF v # Idle /\ v.pc = "record" /\ v.to = b THEN {h} ELSE {})
    BY <2>0, HandlerMoves
  <2>2. Sending(b)' = (Sending(b) \ {h}) \cup (IF v # Idle /\ v.pc # "record" /\ v.to = b THEN {h} ELSE {})
    BY <2>0, HandlerMoves
  <2>3. h \notin Recording(b)
    BY <1>1 DEF Recording
  <2>4. Recording(b)' = Recording(b)
    BY <1>1, <2>1, <2>3
  <2>5. HasRow(b) => b # a
    BY DEF HasRow, Request
  <2>6. HasRow(b) => Sending(b)' \subseteq Sending(b)
    BY <1>1, <2>2, <2>5
  <2> QED BY <1>1, <2>4, <2>6, NothingSent DEF FaucetInv
<1> QED BY <1>1, <1>3, <1>4, <1>5 DEF FaucetInv

\* A request goes on or ends: the caps of the networks hold.
LEMMA CapsHold ==
    ASSUME FaucetInv, FaucetTypeOK',
           \A I : Recent(I)' \subseteq Recent(I) /\ InFlight(I)' \subseteq InFlight(I)
    PROVE  \A ip \in Ips : CapKept({ip}, FAUCET_PER_IP)'
BY CapNotReached, FaucetAssumption DEF FaucetInv

LEMMA BalanceInv == ASSUME FaucetInv, NEW h \in Handlers, Balance(h) PROVE FaucetInv'
<1> DEFINE on == [handlers[h] EXCEPT !.pc = "send"]
<1>1. /\ FaucetTypeOK /\ UNCHANGED <<grants, sends, paid, now, mishaps>>
      /\ At(h, "balance")
  BY DEF Balance, FaucetInv
<1>2. /\ handlers[h] # Idle /\ handlers[h].pc = "balance"
      /\ on \in Working /\ on.pc = "send" /\ on.to = handlers[h].to /\ on.ip = handlers[h].ip
      /\ on.asked = handlers[h].asked
  BY <1>1, AtWork
<1>3. PICK v \in {Idle} \cup Working : handlers' = [handlers EXCEPT ![h] = v]
                                      /\ (v = Idle \/ v = on)
  BY <1>2 DEF Balance, Moves
<1> HIDE DEF on
<1>4. FaucetTypeOK'
  BY <1>1, <1>3 DEF FaucetTypeOK
<1>5. \A I : Recent(I)' \subseteq Recent(I) /\ InFlight(I)' \subseteq InFlight(I)
  <2> TAKE I
  <2>1. InFlight(I)' = (InFlight(I) \ {h}) \cup (IF v # Idle /\ v.ip \in I THEN {h} ELSE {})
    BY <1>1, <1>3, HandlerMoves
  <2>2. v # Idle /\ v.ip \in I => h \in InFlight(I)
    BY <1>2, <1>3 DEF InFlight
  <2> QED BY <1>1, <2>1, <2>2 DEF Recent, Since
<1>6. ASSUME NEW b \in Addresses PROVE SendsKept(b)'
  <2>1. Recording(b)' = (Recording(b) \ {h}) \cup (IF v # Idle /\ v.pc = "record" /\ v.to = b THEN {h} ELSE {})
    BY <1>1, <1>3, HandlerMoves
  <2>2. Sending(b)' = (Sending(b) \ {h}) \cup (IF v # Idle /\ v.pc # "record" /\ v.to = b THEN {h} ELSE {})
    BY <1>1, <1>3, HandlerMoves
  <2>3. h \notin Recording(b) /\ (v # Idle => v.pc # "record")
    BY <1>2, <1>3 DEF Recording
  <2>4. v # Idle /\ v.to = b => h \in Sending(b)
    BY <1>2, <1>3 DEF Sending
  <2>5. Recording(b)' = Recording(b) /\ Sending(b)' \subseteq Sending(b)
    BY <2>1, <2>2, <2>3, <2>4
  <2> QED BY <1>1, <2>5, NothingSent DEF FaucetInv
<1>7. PaidOK'
  <2>1. \A d \in Handlers : handlers'[d] = handlers[d] \/ (d = h /\ handlers'[d] = v)
    BY <1>1, <1>3 DEF FaucetTypeOK
  <2> QED BY <1>1, <1>2, <1>3, <2>1 DEF FaucetInv, PaidOK
<1>8. ASSUME NEW w \in Int, w >= now - DAY PROVE GasKept(w)'
  <2>1. GasKept(w)
    BY <1>8 DEF FaucetInv
  <2>2. CASE v = Idle
    BY <1>1, <1>2, <1>3, <1>4, <2>1, <2>2, EndKeepsGas
  <2>3. CASE v = on
    <3>1. on # Idle
      BY <1>2, IdleIsNotWorking
    <3>2. /\ Unpaid(w)' = (Unpaid(w) \ {h})
                \cup (IF v # Idle /\ v.pc # "record" /\ v.asked > w THEN {h} ELSE {})
          /\ Open(w)' = (Open(w) \ {h})
                \cup (IF v # Idle /\ v.asked > w /\ ~ HasRow(v.to) THEN {h} ELSE {})
      BY <1>1, <1>3, HandlerMoves
    <3>3. /\ h \in Unpaid(w) <=> on.asked > w
          /\ h \in Open(w) <=> on.asked > w /\ ~ HasRow(on.to)
      BY <1>2 DEF Unpaid, Open
    <3>4. Unpaid(w)' = Unpaid(w) /\ Open(w)' = Open(w)
      BY <1>2, <2>3, <3>1, <3>2, <3>3
    <3>5. Since(w)' = Since(w) /\ Paid(w)' = Paid(w)
      BY <1>1 DEF Since, Paid
    <3> QED BY <1>1, <2>1, <3>4, <3>5 DEF GasKept
  <2> QED BY <1>3, <2>2, <2>3
<1> QED BY <1>1, <1>4, <1>5, <1>6, <1>7, <1>8, CapsHold DEF FaucetInv

LEMMA SendInv == ASSUME FaucetInv, NEW h \in Handlers, Send(h) PROVE FaucetInv'
<1> DEFINE on == [handlers[h] EXCEPT !.pc = "record"]
           to == handlers[h].to
           p  == [to |-> handlers[h].to, asked |-> handlers[h].asked,
                  no |-> sends[handlers[h].to] + 1]
<1>1. /\ FaucetTypeOK /\ UNCHANGED <<grants, now>> /\ At(h, "send") /\ PaidOK
  BY DEF Send, FaucetInv
<1>2. /\ handlers[h] # Idle /\ handlers[h].pc = "send" /\ to \in Addresses
      /\ on \in Working /\ on.pc = "record" /\ on.to = to /\ on.ip = handlers[h].ip
      /\ on.asked = handlers[h].asked /\ handlers[h].asked \in Nat
  BY <1>1, AtWork DEF Working
<1>3. PICK v \in {Idle} \cup Working :
         /\ handlers' = [handlers EXCEPT ![h] = v]
         /\ \/ /\ sends' = [sends EXCEPT ![to] = @ + 1]
               /\ paid' = paid \cup {p}
               /\ \/ v = on /\ mishaps' = mishaps
                  \/ v = Idle /\ mishaps' = mishaps + 1
            \/ v = Idle /\ sends' = sends /\ paid' = paid /\ mishaps' = mishaps
  BY <1>2 DEF Send, Moves
<1>4. on # Idle
  BY <1>2, IdleIsNotWorking
<1>5. FaucetTypeOK'
  <2>1. p \in Payment
    BY <1>1, <1>2 DEF Payment, FaucetTypeOK
  <2> HIDE DEF p, on, to
  <2>2. paid' \in SUBSET Payment /\ IsFiniteSet(paid')
    BY <1>1, <1>3, <2>1, FS_AddElement DEF FaucetTypeOK
  <2>3. /\ handlers' \in [Handlers -> {Idle} \cup Working] /\ sends' \in [Addresses -> Nat]
        /\ mishaps' \in Nat
    BY <1>1, <1>2, <1>3 DEF FaucetTypeOK
  <2> QED BY <1>1, <2>2, <2>3 DEF FaucetTypeOK
<1>9. PaidOK'
  <2>1. \A d \in Handlers : handlers'[d] = handlers[d] \/ (d = h /\ handlers'[d] = v)
    BY <1>1, <1>3 DEF FaucetTypeOK
  <2>2. \A d \in Handlers : handlers'[d] # Idle => handlers'[d].asked <= now'
    <3>1. v = Idle \/ v.asked = handlers[h].asked
      BY <1>2, <1>3
    <3> QED BY <1>1, <1>2, <2>1, <3>1 DEF PaidOK
  <2>3. \A q \in paid : q.no \in Nat /\ q.to \in Addresses /\ sends[q.to] \in Nat
    BY <1>1 DEF FaucetTypeOK, Payment
  <2>4. \A b \in Addresses : sends[b] \in Nat /\ sends'[b] \in Nat /\ sends[b] <= sends'[b]
    BY <1>1, <1>2, <1>3 DEF FaucetTypeOK
  <2>5. ASSUME NEW q \in paid PROVE q.no <= sends'[q.to]
    <3>1. q.no <= sends[q.to]
      BY <1>1 DEF PaidOK
    <3> QED BY <2>3, <2>4, <3>1
  <2>6. sends' # sends => p.no <= sends'[p.to]
    BY <1>1, <1>2, <1>3 DEF FaucetTypeOK
  <2>7. ASSUME NEW q \in paid' PROVE q.no <= sends'[q.to]
    <3>1. CASE q \in paid
      BY <2>5, <3>1
    <3>2. CASE q \notin paid
      <4>1. q = p /\ sends' = [sends EXCEPT ![to] = @ + 1]
        BY <1>3, <3>2
      <4>2. sends'[to] = sends[to] + 1 /\ sends[to] \in Nat
        BY <1>1, <1>2, <4>1 DEF FaucetTypeOK
      <4> QED BY <4>1, <4>2
    <3> QED BY <3>1, <3>2
  <2> QED BY <2>2, <2>7 DEF PaidOK
<1>10. ASSUME NEW w \in Int, w >= now - DAY PROVE GasKept(w)'
  <2>1. GasKept(w)
    BY <1>10 DEF FaucetInv
  <2>2. CASE v = Idle /\ paid' = paid /\ mishaps' = mishaps
    BY <1>1, <1>2, <1>3, <1>5, <2>1, <2>2, EndKeepsGas
  <2>3. CASE paid' = paid \cup {p} /\ ((v = on /\ mishaps' = mishaps) \/ (v = Idle /\ mishaps' = mishaps + 1))
    BY <1>1, <1>3, <1>5, <2>1, <2>3, TransferKeepsGas
  <2> QED BY <1>3, <2>2, <2>3
<1> HIDE DEF on, to, p
<1>6. \A I : Recent(I)' \subseteq Recent(I) /\ InFlight(I)' \subseteq InFlight(I)
  <2> TAKE I
  <2>1. InFlight(I)' = (InFlight(I) \ {h}) \cup (IF v # Idle /\ v.ip \in I THEN {h} ELSE {})
    BY <1>1, <1>3, HandlerMoves
  <2>2. v # Idle /\ v.ip \in I => h \in InFlight(I)
    BY <1>2, <1>3 DEF InFlight
  <2> QED BY <1>1, <2>1, <2>2 DEF Recent, Since
<1>7. ASSUME NEW b \in Addresses PROVE SendsKept(b)'
  <2>1. Recording(b)' = (Recording(b) \ {h}) \cup (IF v # Idle /\ v.pc = "record" /\ v.to = b THEN {h} ELSE {})
    BY <1>1, <1>3, HandlerMoves
  <2>2. Sending(b)' = (Sending(b) \ {h}) \cup (IF v # Idle /\ v.pc # "record" /\ v.to = b THEN {h} ELSE {})
    BY <1>1, <1>3, HandlerMoves
  <2>3. h \notin Recording(b) /\ (h \in Sending(b) <=> to = b)
    BY <1>2 DEF Recording, Sending, to
  <2>4. Sending(b)' = Sending(b) \ {h}
    BY <1>2, <1>3, <2>2
  <2>5. Recording(b)' = IF v = on /\ to = b THEN Recording(b) \cup {h} ELSE Recording(b)
    BY <1>2, <1>3, <1>4, <2>1, <2>3
  <2>6. SendsKept(b)
    BY DEF FaucetInv
  <2>7. CASE b = to /\ sends' # sends
    <3>1. sends'[b] = sends[b] + 1
      BY <1>1, <1>2, <1>3, <2>7 DEF FaucetTypeOK
    <3>2. \/ Recording(b)' = Recording(b) \cup {h} /\ mishaps' = mishaps
          \/ Recording(b)' = Recording(b) /\ mishaps' = mishaps + 1
      BY <1>3, <1>4, <2>5, <2>7
    <3> QED BY <1>1, <2>3, <2>4, <2>6, <2>7, <3>1, <3>2, TransferKeepsSends
  <2>8. CASE b # to \/ sends' = sends
    <3>1. sends'[b] = sends[b]
      BY <1>1, <1>2, <1>3, <2>8 DEF FaucetTypeOK
    <3>2. mishaps' = mishaps \/ mishaps' = mishaps + 1
      BY <1>3
    <3>3. Recording(b)' = Recording(b) \/ mishaps' = mishaps
      BY <1>3, <1>4, <2>5
    <3>4. Recording(b) \subseteq Recording(b)' /\ Sending(b)' \subseteq Sending(b)
      BY <2>4, <2>5
    <3> QED BY <1>1, <1>5, <2>6, <3>1, <3>2, <3>4, NothingSent
  <2> QED BY <2>7, <2>8
<1> QED BY <1>1, <1>5, <1>6, <1>7, <1>9, <1>10, CapsHold DEF FaucetInv

LEMMA RecordInv == ASSUME FaucetInv, NEW h \in Handlers, Record(h) PROVE FaucetInv'
<1> DEFINE to == handlers[h].to
           g  == [to |-> to, ip |-> handlers[h].ip, at |-> now]
<1>1. /\ FaucetTypeOK /\ UNCHANGED <<sends, paid, now, mishaps>> /\ At(h, "record")
      /\ handlers' = [handlers EXCEPT ![h] = Idle] /\ PaidOK
  BY DEF Record, FaucetInv, Moves
<1>2. /\ handlers[h] # Idle /\ handlers[h].pc = "record"
      /\ to \in Addresses /\ handlers[h].ip \in Ips
  BY <1>1, AtWork DEF Working
<1>3. IF HasRow(to) THEN grants' = grants ELSE grants' = grants \cup {g}
  BY DEF Record, HasRow
<1>4. g \in Grant /\ g.to = to
  BY <1>1, <1>2 DEF Grant, FaucetTypeOK
<1> HIDE DEF to, g
<1>5. FaucetTypeOK'
  <2>1. handlers' \in [Handlers -> {Idle} \cup Working]
    BY <1>1 DEF FaucetTypeOK
  <2>2. grants' \in SUBSET Grant /\ IsFiniteSet(grants')
    BY <1>1, <1>3, <1>4, FS_AddElement DEF FaucetTypeOK
  <2> QED BY <1>1, <2>1, <2>2 DEF FaucetTypeOK
<1>6. \A ip \in Ips : CapKept({ip}, FAUCET_PER_IP)'
  BY <1>1, RecordKeepsCap, FaucetAssumption DEF FaucetInv
<1>8. PaidOK'
  <2>1. \A d \in Handlers : handlers'[d] = handlers[d] \/ handlers'[d] = Idle
    BY <1>1 DEF FaucetTypeOK
  <2> QED BY <1>1, <2>1 DEF PaidOK
<1>9. ASSUME NEW w \in Int, w >= now - DAY PROVE GasKept(w)'
  <2>1. GasKept(w)
    BY <1>9 DEF FaucetInv
  <2> QED BY <1>1, <1>5, <2>1, RecordKeepsGas
<1>7. ASSUME NEW b \in Addresses PROVE SendsKept(b)'
  <2>1. SendsKept(b)
    BY DEF FaucetInv
  <2>2. Sending(b)' = Sending(b) /\ (b # to => Recording(b)' = Recording(b))
    <3>1. /\ Sending(b)' = (Sending(b) \ {h}) \cup
                (IF Idle # Idle /\ Idle.pc # "record" /\ Idle.to = b THEN {h} ELSE {})
          /\ Recording(b)' = (Recording(b) \ {h}) \cup
                (IF Idle # Idle /\ Idle.pc = "record" /\ Idle.to = b THEN {h} ELSE {})
      BY <1>1, HandlerMoves
    <3>2. h \notin Sending(b) /\ (b # to => h \notin Recording(b))
      BY <1>2 DEF Sending, Recording, to
    <3> QED BY <3>1, <3>2
  <2>3. CASE HasRow(b)
    <3>1. HasRow(b)'
      BY <1>3, <2>3 DEF HasRow
    <3> QED BY <1>1, <2>1, <2>2, <2>3, <3>1 DEF SendsKept
  <2>4. CASE ~ HasRow(b) /\ b = to
    <3>1. HasRow(b)'
      BY <1>3, <1>4, <2>4 DEF HasRow
    <3> QED BY <1>1, <2>1, <2>2, <2>4, <3>1, RowKeepsSends
  <2>5. CASE ~ HasRow(b) /\ b # to
    <3>1. ~ HasRow(b)'
      BY <1>3, <1>4, <2>5 DEF HasRow
    <3> QED BY <1>1, <2>1, <2>2, <2>5, <3>1 DEF SendsKept
  <2> QED BY <2>3, <2>4, <2>5
<1> QED BY <1>1, <1>5, <1>6, <1>7, <1>8, <1>9 DEF FaucetInv

\* A restart ends every request: as many transfers at most are forgotten.
LEMMA CrashInv == ASSUME FaucetInv, Crash PROVE FaucetInv'
<1>1. /\ FaucetTypeOK /\ UNCHANGED <<grants, sends, paid, now>> /\ mishaps' = mishaps + 1
      /\ handlers' = [k \in Handlers |-> Idle]
  BY DEF Crash, FaucetInv
<1>2. FaucetTypeOK'
  BY <1>1 DEF FaucetTypeOK
<1>3. \A k \in Handlers : handlers'[k] = Idle
  BY <1>1
<1>4. \A I : Recent(I)' \subseteq Recent(I) /\ InFlight(I)' \subseteq InFlight(I)
  BY <1>1, <1>3 DEF Recent, Since, InFlight
<1>5. ASSUME NEW b \in Addresses PROVE SendsKept(b)'
  <2>1. Sending(b)' = {} /\ Recording(b)' = {} /\ HasRow(b)' = HasRow(b)
    BY <1>1, <1>3 DEF Sending, Recording, HasRow
  <2>2. Cardinality(Sending(b)') = 0 /\ Cardinality(Recording(b)') = 0
    BY <2>1, FS_EmptySet
  <2>3. /\ Cardinality(Sending(b)) \in Nat /\ Cardinality(Recording(b)) \in Nat
        /\ Cardinality(Recording(b)) <= Cardinality(Handlers) /\ Cardinality(Handlers) \in Nat
    BY <1>1, Subsets, FaucetCounts
  <2>4. sends[b] \in Nat /\ Cardinality(Handlers) * mishaps \in Nat
        /\ Cardinality(Handlers) * mishaps' = Cardinality(Handlers) + Cardinality(Handlers) * mishaps
    BY <1>1, <2>3, OneMoreTime DEF FaucetTypeOK
  <2>5. SendsKept(b)
    BY DEF FaucetInv
  <2>6. CASE HasRow(b)
    BY <1>1, <2>1, <2>2, <2>3, <2>4, <2>5, <2>6 DEF SendsKept
  <2>7. CASE ~ HasRow(b)
    BY <1>1, <2>1, <2>2, <2>3, <2>4, <2>5, <2>7 DEF SendsKept
  <2> QED BY <2>6, <2>7
<1>6. PaidOK'
  BY <1>1, <1>3 DEF FaucetInv, PaidOK
<1>7. ASSUME NEW w \in Int, w >= now - DAY PROVE GasKept(w)'
  <2>1. GasKept(w)
    BY <1>7 DEF FaucetInv
  <2>2. Unpaid(w)' = {} /\ Paid(w)' = Paid(w) /\ Since(w)' = Since(w)
    BY <1>1, <1>3 DEF Unpaid, Paid, Since
  <2>3. Cardinality(Unpaid(w)') = 0
    BY <2>2, FS_EmptySet
  <2>4. Cardinality(Paid(w)) \in Nat /\ Cardinality(Unpaid(w)) \in Nat
    BY <1>1, GasCounts
  <2>5. Cardinality(Paid(w)') + Cardinality(Unpaid(w)')
            <= Cardinality(Paid(w)) + Cardinality(Unpaid(w))
    BY <2>2, <2>3, <2>4
  <2>6. Cardinality(Since(w)') = Cardinality(Since(w))
    BY <2>2
  <2> QED BY <1>1, <1>2, <2>1, <2>5, <2>6, GasRises
<1> QED BY <1>1, <1>2, <1>4, <1>5, <1>6, <1>7, CapsHold DEF FaucetInv

\* Steps no request takes part in: as time passes, grants only become older.
LEMMA FaucetRestInv ==
    ASSUME FaucetInv,
           \/ FaucetTick
           \/ UNCHANGED faucetVars
    PROVE  FaucetInv'
<1>1. /\ FaucetTypeOK /\ UNCHANGED <<grants, handlers, sends, paid, mishaps>>
      /\ now' = now \/ now' = now + 1
  BY DEF FaucetInv, FaucetTick, faucetVars
<1>3. FaucetTypeOK'
  BY <1>1 DEF FaucetTypeOK
<1>4. \A I : Recent(I)' \subseteq Recent(I) /\ InFlight(I)' \subseteq InFlight(I)
  <2> TAKE I
  <2>1. InFlight(I)' = InFlight(I)
    BY <1>1 DEF InFlight
  <2>2. ASSUME NEW g \in grants, g.at > now' - DAY PROVE g.at > now - DAY
    <3>1. g.at \in Nat
      BY <1>1 DEF FaucetTypeOK, Grant
    <3> QED BY <1>1, <2>2, <3>1, FaucetAssumption DEF FaucetTypeOK
  <2>3. Recent(I)' \subseteq Recent(I)
    BY <1>1, <2>2 DEF Recent, Since
  <2> QED BY <2>1, <2>3
<1>5. ASSUME NEW b \in Addresses PROVE SendsKept(b)'
  <2>1. Sending(b)' = Sending(b) /\ Recording(b)' = Recording(b)
    BY <1>1 DEF Sending, Recording
  <2> QED BY <1>1, <2>1, NothingSent DEF FaucetInv
<1>6. PaidOK'
  <2>1. now \in Nat /\ \A d \in Handlers : handlers[d] # Idle => handlers[d].asked \in Nat
    BY <1>1 DEF FaucetTypeOK, Working
  <2> QED BY <1>1, <2>1 DEF FaucetInv, PaidOK
<1>7. ASSUME NEW w \in Int, w >= now' - DAY PROVE GasKept(w)'
  <2>1. w >= now - DAY
    BY <1>1, <1>7, FaucetAssumption DEF FaucetTypeOK
  <2>2. GasKept(w)
    BY <2>1 DEF FaucetInv
  <2> QED BY <1>1, <2>2, GasSame
<1> QED BY <1>3, <1>4, <1>5, <1>6, <1>7, CapsHold DEF FaucetInv

LEMMA FaucetNextInv == FaucetInv /\ [FaucetNext]_faucetVars => FaucetInv'
BY RequestInv, BalanceInv, SendInv, RecordInv, CrashInv, FaucetRestInv DEF FaucetNext

\* The gas paid for the requests of a day stays within the daily cap times the
\* requests in flight at once, but for mishaps, and a network's rows exceed its
\* cap by the other requests in flight at most: for any caps, addresses and
\* networks, and however long the transfers take.
THEOREM CapsOvershootByFlightHolds == FaucetSpec => []CapsOvershootByFlight
<1>1. FaucetInv => CapsOvershootByFlight
  <2> SUFFICES ASSUME FaucetInv PROVE CapsOvershootByFlight
    OBVIOUS
  <2>1. FaucetTypeOK
    BY DEF FaucetInv
  <2>2. Cardinality({p \in paid : p.asked > now - DAY})
            <= Cardinality(Handlers) * (FAUCET_DAILY + mishaps)
    <3> DEFINE w == now - DAY
    <3>1. w \in Int /\ w >= now - DAY
      BY <2>1, FaucetAssumption DEF FaucetTypeOK
    <3>2. GasKept(w)
      BY <3>1 DEF FaucetInv
    <3>3. Cardinality(Paid(w)) \in Nat /\ Cardinality(Unpaid(w)) \in Nat
      BY <2>1, GasCounts
    <3>4. Cardinality(Handlers) * (FAUCET_DAILY + mishaps) \in Nat
      BY <2>1, FaucetCounts, TimesKeepsOrder, FaucetAssumption DEF FaucetTypeOK
    <3>5. Cardinality(Paid(w)) <= Cardinality(Handlers) * (FAUCET_DAILY + mishaps)
      BY <3>2, <3>3, <3>4 DEF GasKept
    <3> QED BY <3>5 DEF Paid
  <2>3. ASSUME NEW ip \in Ips
        PROVE  Cardinality({g \in Since(now - DAY) : g.ip = ip})
                  <= FAUCET_PER_IP + Cardinality(Handlers) - 1
    <3>1. Recent({ip}) = {g \in Since(now - DAY) : g.ip = ip}
      BY <2>1, RecentCounts
    <3>2. /\ Cardinality(Recent({ip})) \in Nat /\ Cardinality(InFlight({ip})) \in Nat
          /\ Cardinality(Handlers) \in Nat
      BY <2>1, Subsets, FaucetCounts
    <3>3. CapKept({ip}, FAUCET_PER_IP)
      BY DEF FaucetInv
    <3>4. FAUCET_PER_IP \in Nat
      BY FaucetAssumption
    <3>5. Cardinality(Recent({ip})) <= FAUCET_PER_IP + Cardinality(Handlers) - 1
      BY <3>2, <3>3, <3>4 DEF CapKept
    <3> QED BY <3>1, <3>5
  <2> QED BY <2>2, <2>3 DEF CapsOvershootByFlight
<1> QED BY <1>1, FaucetInitInv, FaucetNextInv, PTL DEF FaucetSpec

\* An address is sent gas at most once per request in flight at once, and that
\* many times more for each lost answer or restart.
THEOREM GrantsPerAddressBoundedHolds == FaucetSpec => []GrantsPerAddressBounded
<1>1. FaucetInv => GrantsPerAddressBounded
  <2> SUFFICES ASSUME FaucetInv, NEW a \in Addresses
               PROVE  sends[a] <= Cardinality(Handlers) * (1 + mishaps)
    BY DEF GrantsPerAddressBounded
  <2>1. FaucetTypeOK /\ SendsKept(a)
    BY DEF FaucetInv
  <2>2. /\ Cardinality(Sending(a)) \in Nat /\ Cardinality(Recording(a)) \in Nat
        /\ Cardinality(Recording(a)) <= Cardinality(Handlers) /\ Cardinality(Handlers) \in Nat
    BY <2>1, Subsets, FaucetCounts
  <2>3. /\ sends[a] \in Nat /\ Cardinality(Handlers) * mishaps \in Nat
        /\ Cardinality(Handlers) * (1 + mishaps) = Cardinality(Handlers) + Cardinality(Handlers) * mishaps
    BY <2>1, <2>2, OneMoreTime DEF FaucetTypeOK
  <2> QED BY <2>1, <2>2, <2>3 DEF SendsKept
<1> QED BY <1>1, FaucetInitInv, FaucetNextInv, PTL DEF FaucetSpec

-----------------------------------------------------------------------------
(* The scanner's verdicts (ScanVerdict)                                    *)

\* Chunks of text, and the texts a publisher can write.
Chunk == [kind : ChunkKinds, mcp : SUBSET (1..10), skill : SUBSET (1..40), like : Nat]

TextOK(text) ==
    /\ text \in Seq(Chunk)
    /\ \A i \in DOMAIN text :
          (text[i].kind = "name" /\ BUILTIN_NAME \in text[i].mcp) => text[i].mcp = {BUILTIN_NAME}

AllFindings(text) == ChunkFindings(text) \union NameFindings(text) \union SkillFindings(text)

\* The findings of a severity of at least t.
NumAtLeast(findings, t) == Cardinality({f \in findings : t <= f.sev})

Weighed(findings) == IsFiniteSet(findings) /\ \A f \in findings : f.sev \in 0..100

-----------------------------------------------------------------------------
(* Severities                                                              *)

LEMMA McpSevs ==
    /\ DOMAIN McpSev = 1..10
    /\ McpSev[1] = 95 /\ McpSev[2] = 92 /\ McpSev[3] = 30 /\ McpSev[4] = 88 /\ McpSev[5] = 85
    /\ McpSev[6] = 82 /\ McpSev[7] = 78 /\ McpSev[8] = 20 /\ McpSev[9] = 70 /\ McpSev[10] = 65
BY DEF McpSev

LEMMA SkillSevs ==
    /\ DOMAIN SkillSev = 1..40
    /\ \A r \in 1..40 : SkillSev[r] \in 0..100
    /\ \A r \in 1..40 : SkillSev[r] < 40 => r \in 34..40
BY DEF SkillSev

\* The least of some rules is one of them and no greater than any.
LEMMA Smallest ==
    ASSUME NEW S \in SUBSET (1..10), S # {}
    PROVE  Min(S) \in S /\ \A r \in S : Min(S) <= r
<1> DEFINE Less == {ss \in Nat \X Nat : ss[1] < ss[2]}
<1>1. IsWellFoundedOn(Less, Nat)
  BY NatLessThanWellFounded DEF OpToRel
<1>2. S \subseteq Nat
  OBVIOUS
<1>3. PICK m \in S : \A k \in S : ~ (<<k, m>> \in Less)
  <2> HIDE DEF Less
  <2> QED BY <1>1, <1>2, WFMin
<1>4. \A k \in S : m <= k
  <2> TAKE k \in S
  <2>1. k \in Nat /\ m \in Nat
    BY <1>2
  <2>2. ~ (k < m)
    BY <1>3, <2>1
  <2> QED BY <2>1, <2>2
<1> QED BY <1>4 DEF Min

\* Of what matches a chunk, the first is reported.
LEMMA Reported ==
    ASSUME NEW c \in Chunk, Matching(c) # {},
           (c.kind = "name" /\ BUILTIN_NAME \in c.mcp) => c.mcp = {BUILTIN_NAME}
    PROVE  /\ Matching(c) \in SUBSET (1..9)
           /\ Min(Matching(c)) \in Matching(c)
           /\ \A r \in Matching(c) : Min(Matching(c)) <= r
           /\ 3 \in Matching(c) => Matching(c) = {3}
<1>1. Matching(c) \in SUBSET (1..9)
  BY DEF Matching, Applies, NEAR_NAME, Chunk
<1>2. 3 \in Matching(c) => Matching(c) = {3}
  BY DEF Matching, Applies, BUILTIN_NAME
<1> QED BY <1>1, <1>2, Smallest

\* The counts the scanners make, as numbers of findings from a severity up.
LEMMA Counts ==
    ASSUME NEW F, Weighed(F)
    PROVE  /\ \A t \in Nat : NumAtLeast(F, t) \in Nat
           /\ \A s, t \in Nat : s <= t => NumAtLeast(F, t) <= NumAtLeast(F, s)
           /\ \A t \in 0..100 : (\E f \in F : t <= f.sev) <=> NumAtLeast(F, t) > 0
           /\ Crits(F) = NumAtLeast(F, 90)
           /\ Highs(F) = NumAtLeast(F, 70) - NumAtLeast(F, 90)
           /\ Mediums(F) = NumAtLeast(F, 40) - NumAtLeast(F, 70)
           /\ Lows(F) = NumAtLeast(F, 0) - NumAtLeast(F, 40)
<1> DEFINE A(t) == {f \in F : t <= f.sev}
<1>1. \A t : A(t) \in SUBSET F /\ IsFiniteSet(A(t)) /\ Cardinality(A(t)) \in Nat
  BY FS_Subset, FS_CardinalityType DEF Weighed
<1>2. \A f \in F : f.sev \in 0..100
  BY DEF Weighed
<1>3. \A s, t \in Nat : s <= t => A(t) \subseteq A(s)
  BY <1>2
<1>4. \A s, t \in Nat : s <= t => Cardinality(A(t)) <= Cardinality(A(s))
  BY <1>1, <1>3, FS_Subset
<1>5. \A t : Cardinality(A(t)) > 0 <=> A(t) # {}
  BY <1>1, FS_EmptySet
<1>6. ASSUME NEW lo \in Nat, NEW hi \in Nat, lo <= hi
      PROVE  Count(F, lo, hi) = Cardinality(A(lo)) - Cardinality(A(hi))
  <2> DEFINE B == {f \in F : lo <= f.sev /\ f.sev < hi}
  <2>1. B \cup A(hi) = A(lo) /\ B \cap A(hi) = {}
    BY <1>2, <1>6
  <2>2. IsFiniteSet(B) /\ Cardinality(B) \in Nat
    BY FS_Subset, FS_CardinalityType DEF Weighed
  <2>5. Count(F, lo, hi) = Cardinality(B)
    BY DEF Count
  <2> HIDE DEF A, B
  <2>3. Cardinality(B \cup A(hi)) = Cardinality(B) + Cardinality(A(hi)) - Cardinality(B \cap A(hi))
    BY <1>1, <2>2, FS_Union
  <2>4. Cardinality(B \cap A(hi)) = 0
    BY <2>1, FS_EmptySet
  <2>6. Cardinality(A(lo)) = Cardinality(B) + Cardinality(A(hi)) - 0
    BY <2>1, <2>3, <2>4
  <2>7. Cardinality(A(lo)) \in Nat /\ Cardinality(A(hi)) \in Nat
    BY <1>1
  <2> QED BY <2>2, <2>5, <2>6, <2>7
<1>7. Cardinality(A(101)) = 0
  <2>1. A(101) = {}
    BY <1>2
  <2> QED BY <2>1, FS_EmptySet
<1>8. \A t \in 0..100 : (\E f \in F : t <= f.sev) <=> A(t) # {}
  OBVIOUS
<1>9. \A t : NumAtLeast(F, t) = Cardinality(A(t))
  BY DEF NumAtLeast
<1> HIDE DEF A
<1>10. /\ Crits(F) = Cardinality(A(90)) - Cardinality(A(101))
       /\ Highs(F) = Cardinality(A(70)) - Cardinality(A(90))
       /\ Mediums(F) = Cardinality(A(40)) - Cardinality(A(70))
       /\ Lows(F) = Cardinality(A(0)) - Cardinality(A(40))
  BY <1>6 DEF Crits, Highs, Mediums, Lows
<1>11. \A t : NumAtLeast(F, t) \in Nat
  BY <1>1, <1>9
<1>12. \A s, t \in Nat : s <= t => NumAtLeast(F, t) <= NumAtLeast(F, s)
  BY <1>4, <1>9
<1>13. \A t \in 0..100 : (\E f \in F : t <= f.sev) <=> NumAtLeast(F, t) > 0
  BY <1>5, <1>8, <1>9
<1>14. /\ Crits(F) = NumAtLeast(F, 90)
       /\ Highs(F) = NumAtLeast(F, 70) - NumAtLeast(F, 90)
       /\ Mediums(F) = NumAtLeast(F, 40) - NumAtLeast(F, 70)
       /\ Lows(F) = NumAtLeast(F, 0) - NumAtLeast(F, 40)
  BY <1>1, <1>7, <1>9, <1>10
<1> QED BY <1>11, <1>12, <1>13, <1>14

LEMMA ScoreIs ==
    ASSUME NEW F, Weighed(F)
    PROVE  \E x \in Nat :
             /\ x = 15 * NumAtLeast(F, 90) + 8 * NumAtLeast(F, 70)
                      + 5 * NumAtLeast(F, 40) + 2 * NumAtLeast(F, 0)
             /\ Score(F) = IF x < 100 THEN x ELSE 100
<1>1. PICK a \in Nat, b \in Nat, c \in Nat, d \in Nat :
         /\ a = NumAtLeast(F, 90) /\ b = NumAtLeast(F, 70)
         /\ c = NumAtLeast(F, 40) /\ d = NumAtLeast(F, 0)
         /\ a <= b /\ b <= c /\ c <= d
         /\ Crits(F) = a /\ Highs(F) = b - a /\ Mediums(F) = c - b /\ Lows(F) = d - c
  BY Counts
<1> DEFINE x == 30 * Crits(F) + 15 * Highs(F) + 7 * Mediums(F) + 2 * Lows(F)
<1>2. x \in Nat /\ x = 15 * a + 8 * b + 5 * c + 2 * d
  BY <1>1
<1>3. Score(F) = Min({100, x})
  BY DEF Score
<1> HIDE DEF x
<1>4. Min({100, x}) = IF x < 100 THEN x ELSE 100
  BY <1>2 DEF Min
<1> QED BY <1>1, <1>2, <1>3, <1>4

\* FS_Image speaks of an operator: the sets it is needed for, one by one.
LEMMA FiniteImage ==
    ASSUME NEW S, IsFiniteSet(S), NEW g, DOMAIN g = S
    PROVE  /\ IsFiniteSet({g[x] : x \in S})
           /\ Cardinality({g[x] : x \in S}) \in Nat
           /\ Cardinality({g[x] : x \in S}) <= Cardinality(S)
<1> DEFINE h == [x \in S |-> g[x]]
           T == {g[x] : x \in S}
<1>1. h \in Surjection(S, T)
  BY DEF Surjection
<1> HIDE DEF h
<1>2. IsFiniteSet(T) /\ Cardinality(T) <= Cardinality(S)
  <2> HIDE DEF T
  <2> QED BY <1>1, FS_Surjection
<1> QED BY <1>2, FS_CardinalityType

\* Of two sets of findings of which the second has, where the first has one,
\* one at least as severe, the second has at least as many of any severity.
LEMMA AtLeastGrows ==
    ASSUME NEW F, NEW G, Weighed(F), Weighed(G),
           \A f, g \in F : f.at = g.at => f = g,
           \A f \in F : \E g \in G : g.at = f.at /\ f.sev <= g.sev
    PROVE  \A t \in Nat : NumAtLeast(F, t) <= NumAtLeast(G, t)
<1> TAKE t \in Nat
<1> DEFINE A == {f \in F : t <= f.sev}
           B == {g \in G : t <= g.sev}
           h == [f \in A |-> CHOOSE g \in B : g.at = f.at]
<1>1. \A f \in A : \E g \in B : g.at = f.at
  <2> TAKE f \in A
  <2>1. PICK g \in G : g.at = f.at /\ f.sev <= g.sev
    OBVIOUS
  <2>2. f.sev \in 0..100 /\ g.sev \in 0..100
    BY DEF Weighed
  <2> QED BY <2>1, <2>2
<1>2. \A f \in A : h[f] \in B /\ h[f].at = f.at
  BY <1>1
<1>3. h \in [A -> B]
  BY <1>2
<1>4. \A f, g \in A : h[f] = h[g] => f = g
  <2> HIDE DEF h
  <2> QED BY <1>2
<1>5. h \in Injection(A, B)
  <2> HIDE DEF h, A, B
  <2> QED BY <1>3, <1>4 DEF Injection, IsInjective
<1>6. IsFiniteSet(B)
  BY FS_Subset DEF Weighed
<1>7. Cardinality(A) <= Cardinality(B)
  <2> HIDE DEF h, A, B
  <2> QED BY <1>5, <1>6, FS_Injection
<1> QED BY <1>7 DEF NumAtLeast

-----------------------------------------------------------------------------
(* From counts to verdicts                                                 *)

LEMMA Verdicts ==
    /\ ToVerdict("SAFE") = 1 /\ ToVerdict("MEDIUM") = 2
    /\ ToVerdict("HIGH") = 2 /\ ToVerdict("CRITICAL") = 3
BY DEF ToVerdict, CLEAN, WARN, CRITICAL

\* The counts that decide a verdict.
Tally == [crit : Nat, high : Nat, medium : Nat, strong : Nat, all : Nat]

TallyOf(findings) ==
    [crit |-> NumAtLeast(findings, 90), high |-> NumAtLeast(findings, 70),
     medium |-> NumAtLeast(findings, 40), strong |-> NumAtLeast(findings, 60),
     all |-> NumAtLeast(findings, 0)]

Weight(n) == 15 * n.crit + 8 * n.high + 5 * n.medium + 2 * n.all

LEMMA TallyIs ==
    ASSUME NEW F, Weighed(F)
    PROVE  LET n == TallyOf(F)
           IN  /\ n \in Tally
               /\ n.crit <= n.high /\ n.high <= n.medium /\ n.medium <= n.all
               /\ Crits(F) = n.crit /\ Highs(F) = n.high - n.crit
               /\ Mediums(F) = n.medium - n.high /\ Lows(F) = n.all - n.medium
               /\ n.strong > 0 <=> \E f \in F : f.sev >= 60
               /\ Score(F) >= 15 <=> Weight(n) >= 15
<1> DEFINE n == TallyOf(F)
<1>1. n \in Tally
  BY Counts DEF TallyOf, Tally
<1>2. n.crit <= n.high /\ n.high <= n.medium /\ n.medium <= n.all
  BY Counts DEF TallyOf
<1>3. /\ Crits(F) = n.crit /\ Highs(F) = n.high - n.crit
      /\ Mediums(F) = n.medium - n.high /\ Lows(F) = n.all - n.medium
  BY Counts DEF TallyOf
<1>4. n.strong > 0 <=> \E f \in F : f.sev >= 60
  <2>1. n.strong > 0 <=> \E f \in F : 60 <= f.sev
    BY Counts DEF TallyOf
  <2> QED BY <2>1 DEF Weighed
<1>5. Score(F) >= 15 <=> Weight(n) >= 15
  BY ScoreIs DEF TallyOf, Weight
<1> QED BY <1>1, <1>2, <1>3, <1>4, <1>5

LEMMA VerdictIs ==
    ASSUME NEW F, Weighed(F)
    PROVE  LET n == TallyOf(F)
           IN  /\ n.crit > 0 => McpLevel(F) = "CRITICAL" /\ SkillLevel(F) = "CRITICAL"
               /\ n.crit = 0 =>
                    /\ n.high > 2 \/ n.strong > 0 \/ (n.medium > 0 /\ Weight(n) >= 15)
                         => McpLevel(F) \in {"HIGH", "MEDIUM"}
                    /\ ~ (n.high > 2 \/ n.strong > 0 \/ (n.medium > 0 /\ Weight(n) >= 15))
                         => McpLevel(F) = "SAFE"
                    /\ n.high > 2 \/ Weight(n) >= 15 => SkillLevel(F) \in {"HIGH", "MEDIUM"}
                    /\ ~ (n.high > 2 \/ Weight(n) >= 15) => SkillLevel(F) = "SAFE"
<1> DEFINE n == TallyOf(F)
<1>1. /\ n \in Tally
      /\ n.crit <= n.high /\ n.high <= n.medium /\ n.medium <= n.all
      /\ Crits(F) = n.crit /\ Highs(F) = n.high - n.crit
      /\ Mediums(F) = n.medium - n.high /\ Lows(F) = n.all - n.medium
      /\ n.strong > 0 <=> \E f \in F : f.sev >= 60
      /\ Score(F) >= 15 <=> Weight(n) >= 15
  BY TallyIs
<1> HIDE DEF n
<1>2. n.crit \in Nat /\ n.high \in Nat /\ n.medium \in Nat /\ n.strong \in Nat
  BY <1>1 DEF Tally
<1>3. CASE n.crit > 0
  BY <1>1, <1>2, <1>3 DEF McpLevel, SkillLevel, n
<1>4. CASE n.crit = 0
  <2>1. Crits(F) = 0 /\ Highs(F) = n.high /\ Mediums(F) + Highs(F) = n.medium
    BY <1>1, <1>2, <1>4
  <2>2. McpLevel(F) = IF n.high > 2 THEN "HIGH"
                      ELSE IF n.strong > 0 \/ (n.medium > 0 /\ Weight(n) >= 15) THEN "MEDIUM"
                      ELSE "SAFE"
    BY <1>1, <2>1 DEF McpLevel
  <2>3. SkillLevel(F) = IF n.high > 2 THEN "HIGH"
                        ELSE IF Weight(n) >= 15 THEN "MEDIUM" ELSE "SAFE"
    BY <1>1, <2>1 DEF SkillLevel
  <2> QED BY <1>2, <1>4, <2>2, <2>3 DEF n
<1> QED BY <1>2, <1>3, <1>4 DEF n

\* More findings of every severity never make a verdict milder, and a
\* manifest's rules for the level are no milder than a skill's: on seven
\* informational findings, which are all there are, the scores alone decide.
LEMMA VerdictGrows ==
    ASSUME NEW F, NEW G, Weighed(F), Weighed(G),
           \A t \in Nat : NumAtLeast(F, t) <= NumAtLeast(G, t)
    PROVE  /\ ToVerdict(McpLevel(F)) <= ToVerdict(McpLevel(G))
           /\ ToVerdict(SkillLevel(F)) <= ToVerdict(SkillLevel(G))
           /\ Lows(F) <= 7 => ToVerdict(SkillLevel(F)) <= ToVerdict(McpLevel(G))
<1> DEFINE n == TallyOf(F)
           k == TallyOf(G)
<1>1. n \in Tally /\ k \in Tally
  BY TallyIs
<1>2. /\ n.crit <= k.crit /\ n.high <= k.high /\ n.medium <= k.medium
      /\ n.strong <= k.strong /\ n.all <= k.all
  BY DEF TallyOf
<1>3. n.crit <= n.high /\ n.high <= n.medium /\ n.medium <= n.all /\ Lows(F) = n.all - n.medium
  BY TallyIs
<1>4. /\ n.crit > 0 => McpLevel(F) = "CRITICAL" /\ SkillLevel(F) = "CRITICAL"
      /\ n.crit = 0 =>
                    /\ n.high > 2 \/ n.strong > 0 \/ (n.medium > 0 /\ Weight(n) >= 15)
                         => McpLevel(F) \in {"HIGH", "MEDIUM"}
                    /\ ~ (n.high > 2 \/ n.strong > 0 \/ (n.medium > 0 /\ Weight(n) >= 15))
                         => McpLevel(F) = "SAFE"
                    /\ n.high > 2 \/ Weight(n) >= 15 => SkillLevel(F) \in {"HIGH", "MEDIUM"}
                    /\ ~ (n.high > 2 \/ Weight(n) >= 15) => SkillLevel(F) = "SAFE"
  BY VerdictIs
<1>5. /\ k.crit > 0 => McpLevel(G) = "CRITICAL" /\ SkillLevel(G) = "CRITICAL"
      /\ k.crit = 0 =>
                    /\ k.high > 2 \/ k.strong > 0 \/ (k.medium > 0 /\ Weight(k) >= 15)
                         => McpLevel(G) \in {"HIGH", "MEDIUM"}
                    /\ ~ (k.high > 2 \/ k.strong > 0 \/ (k.medium > 0 /\ Weight(k) >= 15))
                         => McpLevel(G) = "SAFE"
                    /\ k.high > 2 \/ Weight(k) >= 15 => SkillLevel(G) \in {"HIGH", "MEDIUM"}
                    /\ ~ (k.high > 2 \/ Weight(k) >= 15) => SkillLevel(G) = "SAFE"
  BY VerdictIs
<1> HIDE DEF n, k
<1>6. /\ n.crit \in Nat /\ n.high \in Nat /\ n.medium \in Nat /\ n.strong \in Nat /\ n.all \in Nat
      /\ k.crit \in Nat /\ k.high \in Nat /\ k.medium \in Nat /\ k.strong \in Nat /\ k.all \in Nat
  BY <1>1 DEF Tally
<1>7. Weight(n) >= 15 => Weight(k) >= 15
  BY <1>2, <1>6 DEF Weight
<1>8. n.crit = 0 /\ Lows(F) <= 7 /\ Weight(n) >= 15 => n.medium > 0
  BY <1>3, <1>6 DEF Weight
<1>9. CASE k.crit > 0
  BY <1>4, <1>5, <1>6, <1>9, Verdicts
<1>10. CASE k.crit = 0
  <2>1. n.crit = 0
    BY <1>2, <1>6, <1>10
  <2>2. McpLevel(F) = "SAFE" \/ McpLevel(G) \in {"HIGH", "MEDIUM"}
    BY <1>2, <1>4, <1>5, <1>6, <1>7, <1>10, <2>1
  <2>3. SkillLevel(F) = "SAFE" \/ SkillLevel(G) \in {"HIGH", "MEDIUM"}
    BY <1>2, <1>4, <1>5, <1>6, <1>7, <1>10, <2>1
  <2>4. Lows(F) <= 7 => SkillLevel(F) = "SAFE" \/ McpLevel(G) \in {"HIGH", "MEDIUM"}
    BY <1>2, <1>4, <1>5, <1>6, <1>7, <1>8, <1>10, <2>1
  <2>5. /\ McpLevel(F) \in {"SAFE", "HIGH", "MEDIUM"} /\ SkillLevel(F) \in {"SAFE", "HIGH", "MEDIUM"}
        /\ McpLevel(G) \in {"SAFE", "HIGH", "MEDIUM"} /\ SkillLevel(G) \in {"SAFE", "HIGH", "MEDIUM"}
    BY <1>4, <1>5, <1>10, <2>1
  <2> QED BY <2>2, <2>3, <2>4, <2>5, Verdicts
<1> QED BY <1>6, <1>9, <1>10

-----------------------------------------------------------------------------
(* The findings of a text                                                  *)

LEMMA ChunkOf ==
    ASSUME NEW text, TextOK(text), NEW i \in DOMAIN text
    PROVE  /\ text[i] \in Chunk /\ text[i].like \in Nat /\ text[i].skill \subseteq 1..40
           /\ text[i].mcp \subseteq 1..10 /\ text[i].kind \in ChunkKinds
<1>1. text[i] \in Chunk
  BY DEF TextOK
<1> QED BY <1>1 DEF Chunk

LEMMA Rules ==
    IsFiniteSet(1..40) /\ IsFiniteSet(34..40) /\ Cardinality(34..40) = 7
<1>1. \A m, n \in Int : IsFiniteSet(m..n) /\ Cardinality(m..n) = IF m > n THEN 0 ELSE n - m + 1
  BY FS_Interval
<1>2. PICK h \in Int : h = 34
  OBVIOUS
<1>3. PICK n \in Int : n = 40
  OBVIOUS
<1>4. /\ IsFiniteSet(1..n) /\ IsFiniteSet(h..n)
      /\ Cardinality(h..n) = IF h > n THEN 0 ELSE n - h + 1
  BY <1>1
<1>5. 7 = IF h > n THEN 0 ELSE n - h + 1
  BY <1>2, <1>3
<1>6. IsFiniteSet(1..40)
  BY <1>3, <1>4, Zenon
<1>7. IsFiniteSet(34..40)
  BY <1>2, <1>3, <1>4, Zenon
<1>8. Cardinality(34..40) = 7
  BY <1>2, <1>3, <1>4, <1>5, Zenon
<1> QED BY <1>6, <1>7, <1>8

LEMMA SkillFinding ==
    ASSUME NEW text, TextOK(text), NEW f
    PROVE  f \in SkillFindings(text) <=>
             \E i \in DOMAIN text : \E r \in text[i].skill :
                r \in 1..40 /\ f = [at |-> <<"content", r, 0>>, sev |-> SkillSev[r]]
<1>1. \A i \in DOMAIN text : text[i].skill \subseteq 1..40
  BY ChunkOf
<1>2. SkillFindings(text) = {[at |-> <<"content", r, 0>>, sev |-> SkillSev[r]] :
        r \in UNION {text[i].skill : i \in DOMAIN text}}
  BY DEF SkillFindings
<1> QED BY <1>1, <1>2

LEMMA NameFinding ==
    ASSUME NEW text, TextOK(text), NEW f
    PROVE  f \in NameFindings(text) <=>
             \E i \in DOMAIN text : \E k \in 1..text[i].like :
                f = [at |-> <<"tools", i, k>>, sev |-> 65]
BY McpSevs DEF NameFindings, NEAR_NAME

LEMMA ChunkFinding ==
    ASSUME NEW text, TextOK(text), NEW f
    PROVE  f \in ChunkFindings(text) <=>
             \E i \in DOMAIN text :
                /\ Matching(text[i]) # {}
                /\ f = [at |-> <<"chunk", i, 0>>, sev |-> McpSev[Min(Matching(text[i]))]]
BY DEF ChunkFindings

\* What matches a chunk of a text.
LEMMA ChunkReports ==
    ASSUME NEW text, TextOK(text), NEW i \in DOMAIN text
    PROVE  /\ text[i] \in Chunk
           /\ Matching(text[i]) \in SUBSET (1..9)
           /\ Matching(text[i]) # {} =>
                /\ Min(Matching(text[i])) \in Matching(text[i])
                /\ \A r \in Matching(text[i]) : Min(Matching(text[i])) <= r
                /\ 3 \in Matching(text[i]) => Matching(text[i]) = {3}
<1>1. text[i] \in Chunk
  BY DEF TextOK
<1>2. Matching(text[i]) \in SUBSET (1..9)
  BY <1>1 DEF Matching, Applies, NEAR_NAME, Chunk
<1>3. (text[i].kind = "name" /\ BUILTIN_NAME \in text[i].mcp) => text[i].mcp = {BUILTIN_NAME}
  BY DEF TextOK
<1> QED BY <1>1, <1>2, <1>3, Reported

LEMMA SkillWeighed ==
    ASSUME NEW text, TextOK(text)
    PROVE  Weighed(SkillFindings(text)) /\ Lows(SkillFindings(text)) <= 7
<1> DEFINE F == SkillFindings(text)
           g == [r \in 1..40 |-> [at |-> <<"content", r, 0>>, sev |-> SkillSev[r]]]
           All == {g[r] : r \in 1..40}
           Low == {g[r] : r \in 34..40}
           h == [r \in 34..40 |-> g[r]]
<1>1. F \subseteq All
  BY SkillFinding
<1>2. IsFiniteSet(All)
  <2>1. IsFiniteSet(1..40)
    BY Rules
  <2>2. DOMAIN g = 1..40
    OBVIOUS
  <2> HIDE DEF g
  <2> QED BY <2>1, <2>2, FiniteImage
<1>3. \A f \in All : f.sev \in 0..100
  BY SkillSevs
<1>4. Weighed(F)
  <2>1. IsFiniteSet(F)
    <3> HIDE DEF F, All
    <3> QED BY <1>1, <1>2, FS_Subset
  <2> QED BY <1>1, <1>3, <2>1 DEF Weighed
<1>5. {f \in F : 0 <= f.sev /\ f.sev < 40} \subseteq Low
  <2> SUFFICES ASSUME NEW f \in F, f.sev < 40
               PROVE  f \in Low
    OBVIOUS
  <2>1. PICK r \in 1..40 : f = g[r]
    BY <1>1
  <2>2. f.sev = SkillSev[r]
    BY <2>1
  <2>3. r \in 34..40
    BY <2>2, SkillSevs
  <2> QED BY <2>1, <2>3
<1>6. IsFiniteSet(Low) /\ Cardinality(Low) \in Nat /\ Cardinality(Low) <= 7
  <2>1. IsFiniteSet(34..40) /\ Cardinality(34..40) = 7
    BY Rules
  <2>2. DOMAIN h = 34..40 /\ Low = {h[r] : r \in 34..40}
    OBVIOUS
  <2> HIDE DEF h, Low
  <2> QED BY <2>1, <2>2, FiniteImage
<1>7. Lows(F) = Cardinality({f \in F : 0 <= f.sev /\ f.sev < 40})
  BY DEF Lows, Count
<1>8. Cardinality({f \in F : 0 <= f.sev /\ f.sev < 40}) <= Cardinality(Low)
  <2> HIDE DEF Low, F
  <2> QED BY <1>5, <1>6, FS_Subset
<1>9. Lows(F) \in Nat
  <2>1. IsFiniteSet({f \in F : 0 <= f.sev /\ f.sev < 40})
    <3> HIDE DEF F
    <3> QED BY <1>4, FS_Subset DEF Weighed
  <2> QED BY <1>7, <2>1, FS_CardinalityType
<1> HIDE DEF F, Low
<1> QED BY <1>4, <1>6, <1>7, <1>8, <1>9 DEF F

LEMMA AllWeighed ==
    ASSUME NEW text, TextOK(text)
    PROVE  Weighed(AllFindings(text))
<1>1. IsFiniteSet(DOMAIN text)
  <2>1. Len(text) \in Nat /\ DOMAIN text = 1..Len(text)
    BY DEF TextOK
  <2> QED BY <2>1, FS_Interval
<1>2. IsFiniteSet(ChunkFindings(text))
  <2> DEFINE D == {j \in DOMAIN text : Matching(text[j]) # {}}
             g == [i \in D |-> [at |-> <<"chunk", i, 0>>, sev |-> McpSev[Min(Matching(text[i]))]]]
  <2>1. IsFiniteSet(D)
    BY <1>1, FS_Subset
  <2>2. DOMAIN g = D /\ ChunkFindings(text) = {g[i] : i \in D}
    BY DEF ChunkFindings
  <2> HIDE DEF g, D
  <2> QED BY <2>1, <2>2, FiniteImage
<1>3. IsFiniteSet(NameFindings(text))
  <2> DEFINE g == [i \in DOMAIN text |->
                     {[at |-> <<"tools", i, k>>, sev |-> McpSev[NEAR_NAME]] : k \in 1..text[i].like}]
             S == {g[i] : i \in DOMAIN text}
  <2>1. IsFiniteSet(S)
    <3>1. DOMAIN g = DOMAIN text
      OBVIOUS
    <3> HIDE DEF g
    <3> QED BY <1>1, <3>1, FiniteImage
  <2>2. ASSUME NEW i \in DOMAIN text
        PROVE  IsFiniteSet(g[i])
    <3> DEFINE N == 1..text[i].like
               h == [k \in N |-> [at |-> <<"tools", i, k>>, sev |-> McpSev[NEAR_NAME]]]
    <3>1. text[i].like \in Nat
      BY ChunkOf
    <3>2. IsFiniteSet(N)
      BY <3>1, FS_Interval
    <3>3. DOMAIN h = N
      OBVIOUS
    <3>4. g[i] = {h[k] : k \in N}
      OBVIOUS
    <3> HIDE DEF h, g, N
    <3>5. IsFiniteSet({h[k] : k \in N})
      BY <3>2, <3>3, FiniteImage
    <3> QED BY <3>4, <3>5
  <2>3. \A T \in S : IsFiniteSet(T)
    <3> HIDE DEF g
    <3> QED BY <2>2
  <2>4. NameFindings(text) = UNION S
    BY DEF NameFindings
  <2> HIDE DEF S
  <2> QED BY <2>1, <2>3, <2>4, FS_UNION
<1>4. IsFiniteSet(SkillFindings(text)) /\ \A f \in SkillFindings(text) : f.sev \in 0..100
  BY SkillWeighed DEF Weighed
<1>5. \A f \in ChunkFindings(text) : f.sev \in 0..100
  <2> TAKE f \in ChunkFindings(text)
  <2>1. PICK i \in DOMAIN text :
          /\ Matching(text[i]) # {}
          /\ f = [at |-> <<"chunk", i, 0>>, sev |-> McpSev[Min(Matching(text[i]))]]
    BY ChunkFinding
  <2>2. Min(Matching(text[i])) \in 1..9
    BY <2>1, ChunkReports
  <2> QED BY <2>1, <2>2, McpSevs
<1>6. \A f \in NameFindings(text) : f.sev \in 0..100
  BY NameFinding
<1>7. IsFiniteSet(AllFindings(text))
  BY <1>2, <1>3, <1>4, FS_Union DEF AllFindings
<1> QED BY <1>4, <1>5, <1>6, <1>7 DEF AllFindings, Weighed

\* No two findings are at one place.
LEMMA OnePerPlace ==
    ASSUME NEW text, TextOK(text), NEW f \in AllFindings(text), NEW g \in AllFindings(text),
           f.at = g.at
    PROVE  f = g
<1>1. ASSUME NEW x \in AllFindings(text)
      PROVE  \/ x \in ChunkFindings(text) /\ \E i \in DOMAIN text : x.at = <<"chunk", i, 0>>
             \/ x \in NameFindings(text) /\ \E i \in DOMAIN text : \E k \in 1..text[i].like : x.at = <<"tools", i, k>>
             \/ x \in SkillFindings(text) /\ \E r \in 1..40 : x.at = <<"content", r, 0>>
  BY <1>1, ChunkFinding, NameFinding, SkillFinding DEF AllFindings
<1>2. CASE f \in ChunkFindings(text) /\ g \in ChunkFindings(text)
  BY <1>2, ChunkFinding
<1>3. CASE f \in NameFindings(text) /\ g \in NameFindings(text)
  BY <1>3, NameFinding
<1>4. CASE f \in SkillFindings(text) /\ g \in SkillFindings(text)
  BY <1>4, SkillFinding
<1> QED BY <1>1, <1>2, <1>3, <1>4

\* The skill scanner's findings are among the manifest scanner's.
LEMMA SkillAmongAll ==
    ASSUME NEW text, TextOK(text)
    PROVE  \A t \in Nat : NumAtLeast(SkillFindings(text), t) <= NumAtLeast(AllFindings(text), t)
<1>1. SkillFindings(text) \subseteq AllFindings(text)
  BY DEF AllFindings
<1>2. \A f \in SkillFindings(text) : f.sev <= f.sev
  BY SkillWeighed DEF Weighed
<1> QED BY <1>1, <1>2, OnePerPlace, SkillWeighed, AllWeighed, AtLeastGrows

-----------------------------------------------------------------------------
(* A text that loses nothing                                               *)

\* What any edit leaves as it was.
Edited(old, new) ==
    /\ Len(old) <= Len(new)
    /\ \A i \in DOMAIN old : new[i].kind = old[i].kind /\ new[i].like = old[i].like

Grown(old, new) == Edited(old, new) /\ ~ Lost(old, new)

\* What a grown chunk reports is no less severe: an earlier rule is a severer
\* one, but for M003, which matches alone, and M008, which is being long.
LEMMA ChunkHardens ==
    ASSUME NEW old, NEW new, TextOK(old), TextOK(new), Grown(old, new), ~ Lengthened(old, new),
           NEW i \in DOMAIN old, Matching(old[i]) # {}
    PROVE  /\ i \in DOMAIN new /\ Matching(new[i]) # {}
           /\ McpSev[Min(Matching(old[i]))] <= McpSev[Min(Matching(new[i]))]
<1> DEFINE M == Matching(old[i])
           N == Matching(new[i])
<1>1. i \in DOMAIN new
  <2>1. /\ DOMAIN old = 1..Len(old) /\ Len(old) \in Nat
        /\ DOMAIN new = 1..Len(new) /\ Len(new) \in Nat
    BY DEF TextOK
  <2> QED BY <2>1 DEF Grown, Edited
<1>2. M \subseteq N
  BY DEF Grown, Lost
<1>3. PICK m : m = Min(M)
  OBVIOUS
<1>4. PICK n : n = Min(N)
  OBVIOUS
<1>5. M \in SUBSET (1..9) /\ m \in M /\ (3 \in M => M = {3})
  BY <1>3, ChunkReports
<1>6. N \in SUBSET (1..9) /\ N # {}
  BY <1>1, <1>2, ChunkReports
<1>7. n \in N /\ (\A r \in N : n <= r) /\ (3 \in N => N = {3})
  BY <1>1, <1>4, <1>6, ChunkReports
<1>8. 8 \in N => 8 \in M
  BY DEF Lengthened, LONG
<1>9. \A r \in M : m <= r
  BY <1>3, ChunkReports
<1> HIDE DEF M, N
<1>10. n <= m /\ m \in 1..9 /\ n \in 1..9
  BY <1>2, <1>5, <1>6, <1>7
<1>11. n = 3 => m = 3
  BY <1>2, <1>5, <1>7
<1>12. n = 8 => m = 8
  BY <1>7, <1>8, <1>9, <1>10
<1>13. McpSev[m] <= McpSev[n]
  <2>1. CASE n = m
    <3>1. McpSev[m] \in Nat
      BY <1>10, McpSevs
    <3> QED BY <2>1, <3>1
  <2>2. CASE n # m
    BY <1>10, <1>11, <1>12, <2>2, McpSevs
  <2> QED BY <2>1, <2>2
<1> QED BY <1>1, <1>3, <1>4, <1>6, <1>13 DEF M, N

LEMMA SkillHardens ==
    ASSUME NEW old, NEW new, TextOK(old), TextOK(new), Grown(old, new)
    PROVE  SkillFindings(old) \subseteq SkillFindings(new)
<1>1. DOMAIN old \subseteq DOMAIN new
  <2>1. /\ DOMAIN old = 1..Len(old) /\ Len(old) \in Nat
        /\ DOMAIN new = 1..Len(new) /\ Len(new) \in Nat
    BY DEF TextOK
  <2> QED BY <2>1 DEF Grown, Edited
<1> QED BY <1>1, SkillFinding DEF Grown, Lost

LEMMA TextHardens ==
    ASSUME NEW old, NEW new, TextOK(old), TextOK(new), Grown(old, new), ~ Lengthened(old, new),
           NEW f \in AllFindings(old)
    PROVE  \E g \in AllFindings(new) : g.at = f.at /\ f.sev <= g.sev
<1>1. f.sev \in 0..100
  BY AllWeighed DEF Weighed
<1>2. CASE f \in ChunkFindings(old)
  <2>1. PICK i \in DOMAIN old :
          /\ Matching(old[i]) # {}
          /\ f = [at |-> <<"chunk", i, 0>>, sev |-> McpSev[Min(Matching(old[i]))]]
    BY <1>2, ChunkFinding
  <2> DEFINE g == [at |-> <<"chunk", i, 0>>, sev |-> McpSev[Min(Matching(new[i]))]]
  <2>2. i \in DOMAIN new /\ Matching(new[i]) # {} /\ f.sev <= g.sev
    BY <2>1, ChunkHardens
  <2>3. g \in ChunkFindings(new)
    BY <2>2, ChunkFinding
  <2> QED BY <2>1, <2>2, <2>3 DEF AllFindings
<1>3. CASE f \in NameFindings(old)
  <2>1. PICK i \in DOMAIN old :
          \E k \in 1..old[i].like : f = [at |-> <<"tools", i, k>>, sev |-> 65]
    BY <1>3, NameFinding
  <2>2. i \in DOMAIN new
    <3>1. /\ DOMAIN old = 1..Len(old) /\ Len(old) \in Nat
          /\ DOMAIN new = 1..Len(new) /\ Len(new) \in Nat
      BY DEF TextOK
    <3> QED BY <3>1 DEF Grown, Edited
  <2>3. f \in NameFindings(new)
    BY <2>1, <2>2, NameFinding DEF Grown, Edited
  <2> QED BY <1>1, <2>3 DEF AllFindings
<1>4. CASE f \in SkillFindings(old)
  BY <1>1, <1>4, SkillHardens DEF AllFindings
<1> QED BY <1>2, <1>3, <1>4 DEF AllFindings

\* What a text is judged, as a manifest and as a skill text.
FindingsOf(kind, text) == IF kind = "mcp" THEN AllFindings(text) ELSE SkillFindings(text)

LevelOf(kind, text) ==
    IF kind = "mcp" THEN McpLevel(AllFindings(text)) ELSE SkillLevel(SkillFindings(text))

LEMMA VerdictHardens ==
    ASSUME NEW old, NEW new, TextOK(old), TextOK(new), Grown(old, new), ~ Lengthened(old, new),
           NEW kind \in {"mcp", "skill"}
    PROVE  ToVerdict(LevelOf(kind, old)) <= ToVerdict(LevelOf(kind, new))
<1>1. CASE kind = "mcp"
  <2>1. \A t \in Nat : NumAtLeast(AllFindings(old), t) <= NumAtLeast(AllFindings(new), t)
    BY TextHardens, OnePerPlace, AllWeighed, AtLeastGrows
  <2> QED BY <1>1, <2>1, AllWeighed, VerdictGrows DEF LevelOf
<1>2. CASE kind = "skill"
  <2>1. \A f \in SkillFindings(old) : f \in SkillFindings(new) /\ f.at = f.at /\ f.sev <= f.sev
    BY SkillHardens, SkillWeighed DEF Weighed
  <2>2. \A f, g \in SkillFindings(old) : f.at = g.at => f = g
    BY OnePerPlace DEF AllFindings
  <2>3. \A t \in Nat : NumAtLeast(SkillFindings(old), t) <= NumAtLeast(SkillFindings(new), t)
    BY <2>1, <2>2, SkillWeighed, AtLeastGrows
  <2> QED BY <1>2, <2>3, SkillWeighed, VerdictGrows DEF LevelOf
<1> QED BY <1>1, <1>2

\* What a chunk matches shows in the findings of its text.
LEMMA StrongIsFound ==
    ASSUME NEW text, TextOK(text), NEW i \in DOMAIN text,
           NEW r \in Matching(text[i]) \ (IF LONG \in Matching(text[i]) THEN {CREDENTIALS} ELSE {})
    PROVE  /\ McpSev[r] >= 60 => \E f \in AllFindings(text) : f.sev >= 60
           /\ McpSev[r] >= 90 => \E f \in AllFindings(text) : f.sev >= 90
<1> DEFINE M == Matching(text[i])
<1>1. PICK m : m = Min(M)
  OBVIOUS
<1>2. /\ M \in SUBSET (1..9) /\ m \in M /\ (\A q \in M : m <= q) /\ (3 \in M => M = {3})
  BY <1>1, ChunkReports
<1>3. r \in M /\ ~ (8 \in M /\ r = 9)
  BY DEF LONG, CREDENTIALS
<1>4. [at |-> <<"chunk", i, 0>>, sev |-> McpSev[m]] \in AllFindings(text)
  BY <1>1, <1>3, ChunkFinding DEF AllFindings
<1> HIDE DEF M
<1>5. m \in 1..9 /\ r \in 1..9 /\ m <= r /\ (m = 3 => r = 3) /\ (m = 8 => r = 8)
  BY <1>2, <1>3
<1>6. /\ McpSev[r] >= 60 => McpSev[m] >= 60
      /\ McpSev[r] >= 90 => McpSev[m] >= 90
  BY <1>5, McpSevs
<1> QED BY <1>4, <1>6

-----------------------------------------------------------------------------
(* The invariant: a receipt says what was found in a text the manifest was *)
(* edited from                                                             *)

ReceiptFor(kind, text) ==
    [signed |-> TRUE, verdict |-> ToVerdict(LevelOf(kind, text)),
     gate |-> ToGate(LevelOf(kind, text)), score |-> Score(FindingsOf(kind, text)),
     of |-> text]

VerdictInv ==
    /\ TextOK(chunks)
    /\ DOMAIN receipt = {"mcp", "skill"}
    /\ \A kind \in {"mcp", "skill"} :
          \/ receipt[kind] = NoReceipt
          \/ \E text \in Seq(Chunk) :
                TextOK(text) /\ Edited(text, chunks) /\ receipt[kind] = ReceiptFor(kind, text)

LEMMA VerdictInitInv == VerdictInit => VerdictInv
<1> SUFFICES ASSUME VerdictInit PROVE VerdictInv
  OBVIOUS
<1>1. chunks \in Seq(Chunk) /\ DOMAIN chunks = {}
  BY DEF VerdictInit
<1> QED BY <1>1 DEF VerdictInit, VerdictInv, TextOK

\* What a submission signs.
LEMMA SubmitSigns ==
    ASSUME NEW kind \in {"mcp", "skill"}, Submit(kind)
    PROVE  receipt' = [receipt EXCEPT ![kind] = ReceiptFor(kind, chunks)] /\ chunks' = chunks
<1>1. CASE kind = "mcp"
  <2>1. ScanMCP(chunks, oversize).scanned
    BY <1>1 DEF Submit
  <2>2. ScanMCP(chunks, oversize) = ScanOf(AllFindings(chunks), McpLevel(AllFindings(chunks)))
    BY <2>1 DEF ScanMCP, Unscanned, AllFindings
  <2>3. /\ ScanMCP(chunks, oversize).level = LevelOf(kind, chunks)
        /\ ScanMCP(chunks, oversize).score = Score(FindingsOf(kind, chunks))
    BY <1>1, <2>2 DEF ScanOf, LevelOf, FindingsOf
  <2> QED BY <1>1, <2>3 DEF Submit, ReceiptFor
<1>2. CASE kind = "skill"
  <2>1. ScanSkill(chunks).scanned
    BY <1>2 DEF Submit
  <2>2. ScanSkill(chunks) = ScanOf(SkillFindings(chunks), SkillLevel(SkillFindings(chunks)))
    BY <2>1 DEF ScanSkill, Unscanned
  <2>3. /\ ScanSkill(chunks).level = LevelOf(kind, chunks)
        /\ ScanSkill(chunks).score = Score(FindingsOf(kind, chunks))
    BY <1>2, <2>2 DEF ScanOf, LevelOf, FindingsOf
  <2> QED BY <1>2, <2>3 DEF Submit, ReceiptFor
<1> QED BY <1>1, <1>2

LEMMA EditedSame == ASSUME NEW text, TextOK(text) PROVE Edited(text, text)
BY DEF Edited, TextOK

LEMMA EditedFurther ==
    ASSUME NEW old, NEW mid, NEW new, TextOK(old), TextOK(mid), TextOK(new),
           Edited(old, mid), Edited(mid, new)
    PROVE  Edited(old, new)
<1>1. /\ DOMAIN old = 1..Len(old) /\ Len(old) \in Nat
      /\ DOMAIN mid = 1..Len(mid) /\ Len(mid) \in Nat
      /\ Len(new) \in Nat
  BY DEF TextOK
<1>2. DOMAIN old \subseteq DOMAIN mid /\ Len(old) <= Len(new)
  BY <1>1 DEF Edited
<1> QED BY <1>2 DEF Edited

Edits(c) ==
    \E i \in DOMAIN chunks :
        \E mcp \in SUBSET chunks[i].mcp, skill \in SUBSET chunks[i].skill : Edit(i, c, mcp, skill)

\* The publisher's edits: a longer list of chunks, or one of them changed.
LEMMA EditKeeps ==
    ASSUME TextOK(chunks), NEW c \in Contents,
           AddChunk(c) \/ Edits(c)
    PROVE  TextOK(chunks') /\ Edited(chunks, chunks') /\ receipt' = receipt
<1>1. c \in Chunk /\ (BUILTIN_NAME \in c.mcp => c.mcp = {BUILTIN_NAME})
  BY VerdictAssumption, McpSevs, SkillSevs DEF Chunk
<1>2. chunks \in Seq(Chunk) /\ DOMAIN chunks = 1..Len(chunks) /\ Len(chunks) \in Nat
  BY DEF TextOK
<1>3. CASE AddChunk(c)
  <2>1. chunks' = Append(chunks, c) /\ receipt' = receipt
    BY <1>3 DEF AddChunk
  <2>2. /\ chunks' \in Seq(Chunk) /\ Len(chunks') = Len(chunks) + 1
        /\ DOMAIN chunks' = 1..(Len(chunks) + 1)
        /\ \A i \in DOMAIN chunks : chunks'[i] = chunks[i]
        /\ chunks'[Len(chunks) + 1] = c
    BY <1>1, <1>2, <2>1
  <2>3. \A i \in DOMAIN chunks' : i \in DOMAIN chunks \/ chunks'[i] = c
    BY <1>2, <2>2
  <2>4. TextOK(chunks')
    BY <1>1, <2>2, <2>3 DEF TextOK
  <2>5. Edited(chunks, chunks')
    BY <1>2, <2>2 DEF Edited
  <2> QED BY <2>1, <2>4, <2>5
<1>4. ASSUME NEW i \in DOMAIN chunks, NEW mcp \in SUBSET chunks[i].mcp,
             NEW skill \in SUBSET chunks[i].skill, Edit(i, c, mcp, skill)
      PROVE  TextOK(chunks') /\ Edited(chunks, chunks') /\ receipt' = receipt
  <2> DEFINE new == [chunks[i] EXCEPT !.mcp = mcp \union c.mcp, !.skill = skill \union c.skill]
  <2>1. /\ chunks[i].kind # "name" /\ receipt' = receipt
        /\ chunks' = [chunks EXCEPT ![i].mcp = mcp \union c.mcp, ![i].skill = skill \union c.skill]
    BY <1>4 DEF Edit
  <2>2. chunks[i] \in Chunk
    BY ChunkOf
  <2>3. new \in Chunk /\ new.kind = chunks[i].kind /\ new.like = chunks[i].like
    BY <1>1, <2>2 DEF Chunk
  <2>4. chunks' = [chunks EXCEPT ![i] = new]
    BY <1>2, <2>1, <2>2 DEF Chunk
  <2> HIDE DEF new
  <2>5. /\ chunks' \in Seq(Chunk) /\ Len(chunks') = Len(chunks) /\ DOMAIN chunks' = DOMAIN chunks
        /\ \A j \in DOMAIN chunks : chunks'[j] = IF j = i THEN new ELSE chunks[j]
    BY <1>2, <2>3, <2>4, ExceptSeq
  <2>6. TextOK(chunks')
    BY <2>1, <2>3, <2>5 DEF TextOK
  <2>7. Edited(chunks, chunks')
    BY <1>2, <2>3, <2>5 DEF Edited
  <2> QED BY <2>1, <2>6, <2>7
<1> QED BY <1>3, <1>4 DEF Edits

LEMMA VerdictNextInv == VerdictInv /\ [VerdictNext]_verdictVars => VerdictInv'
<1> SUFFICES ASSUME VerdictInv, [VerdictNext]_verdictVars PROVE VerdictInv'
  OBVIOUS
<1>1. ASSUME NEW kind \in {"mcp", "skill"}, Submit(kind) PROVE VerdictInv'
  <2>1. receipt' = [receipt EXCEPT ![kind] = ReceiptFor(kind, chunks)] /\ chunks' = chunks
    BY <1>1, SubmitSigns
  <2>2. TextOK(chunks) /\ Edited(chunks, chunks) /\ chunks \in Seq(Chunk)
    BY EditedSame DEF VerdictInv, TextOK
  <2>3. /\ DOMAIN receipt' = {"mcp", "skill"} /\ receipt'[kind] = ReceiptFor(kind, chunks)
        /\ \A other \in {"mcp", "skill"} : other # kind => receipt'[other] = receipt[other]
    BY <2>1 DEF VerdictInv
  <2> QED BY <2>1, <2>2, <2>3 DEF VerdictInv
<1>2. ASSUME NEW c \in Contents, AddChunk(c) \/ Edits(c)
      PROVE  VerdictInv'
  <2>1. TextOK(chunks) /\ TextOK(chunks') /\ Edited(chunks, chunks') /\ receipt' = receipt
    BY <1>2, EditKeeps DEF VerdictInv
  <2>2. \A text \in Seq(Chunk) : TextOK(text) /\ Edited(text, chunks) => Edited(text, chunks')
    BY <2>1, EditedFurther
  <2> QED BY <2>1, <2>2 DEF VerdictInv
<1>3. CASE Pad \/ UNCHANGED verdictVars
  BY <1>3 DEF Pad, verdictVars, VerdictInv
<1> QED BY <1>1, <1>2, <1>3 DEF VerdictNext, Edits

\* A receipt that says nothing is not signed.
LEMMA SignedIsFor ==
    ASSUME VerdictInv, NEW kind \in {"mcp", "skill"}, receipt[kind].signed
    PROVE  \E text \in Seq(Chunk) :
              TextOK(text) /\ Edited(text, chunks) /\ receipt[kind] = ReceiptFor(kind, text)
BY DEF VerdictInv, NoReceipt

\* Whatever else a manifest holds, however long, and whatever is edited, a match
\* of severity 60 or more in it halts the caller and a critical one is signed
\* CRITICAL (mcp.js:220, the one finding of a chunk, hides no other).
THEOREM StrongTextIsFlaggedHolds == VerdictSpec => []StrongTextIsFlagged
<1>1. ASSUME VerdictInv, receipt["mcp"].signed, NEW i \in DOMAIN receipt["mcp"].of
      PROVE  LET c == receipt["mcp"].of[i]
                 hidden == IF LONG \in Matching(c) THEN {CREDENTIALS} ELSE {}
                 sevs == {McpSev[r] : r \in Matching(c) \ hidden}
                           \union {SkillSev[r] : r \in c.skill}
             IN  /\ (\E s \in sevs : s >= 60) => receipt["mcp"].gate = "halt"
                 /\ (\E s \in sevs : s >= 90) => receipt["mcp"].verdict = CRITICAL
  <2>1. PICK text \in Seq(Chunk) : TextOK(text) /\ receipt["mcp"] = ReceiptFor("mcp", text)
    BY <1>1, SignedIsFor
  <2> DEFINE F == AllFindings(text)
             c == text[i]
             hidden == IF LONG \in Matching(c) THEN {CREDENTIALS} ELSE {}
             sevs == {McpSev[r] : r \in Matching(c) \ hidden} \union {SkillSev[r] : r \in c.skill}
  <2>2. /\ receipt["mcp"].of = text
        /\ receipt["mcp"].verdict = ToVerdict(McpLevel(F))
        /\ receipt["mcp"].gate = ToGate(McpLevel(F))
    BY <2>1 DEF ReceiptFor, LevelOf
  <2>3. i \in DOMAIN text
    BY <1>1, <2>2
  <2>4. \A r \in c.skill : \E f \in F : f.sev = SkillSev[r]
    <3> TAKE r \in c.skill
    <3>1. r \in 1..40
      BY <2>1, <2>3, ChunkOf
    <3>2. [at |-> <<"content", r, 0>>, sev |-> SkillSev[r]] \in SkillFindings(text)
      BY <2>1, <2>3, <3>1, SkillFinding
    <3> QED BY <3>2 DEF AllFindings
  <2>5. \A r \in Matching(c) \ hidden :
          /\ McpSev[r] >= 60 => \E f \in F : f.sev >= 60
          /\ McpSev[r] >= 90 => \E f \in F : f.sev >= 90
    BY <2>1, <2>3, StrongIsFound
  <2>6. /\ (\E s \in sevs : s >= 60) => \E f \in F : f.sev >= 60
        /\ (\E s \in sevs : s >= 90) => \E f \in F : f.sev >= 90
    <3> HIDE DEF F, hidden, c
    <3> QED BY <2>4, <2>5
  <2>7. Weighed(F)
    BY <2>1, AllWeighed
  <2>8. (\E f \in F : f.sev >= 60) => McpLevel(F) \in {"CRITICAL", "HIGH", "MEDIUM"}
    <3> HIDE DEF F
    <3> QED BY <2>7 DEF McpLevel
  <2>9. (\E f \in F : f.sev >= 90) => McpLevel(F) = "CRITICAL"
    <3>1. (\E f \in F : f.sev >= 90) => \E f \in F : 90 <= f.sev
      <4> HIDE DEF F
      <4> QED BY <2>7 DEF Weighed
    <3>2. (\E f \in F : 90 <= f.sev) => Crits(F) > 0
      <4> HIDE DEF F
      <4>1. \A t \in 0..100 : (\E f \in F : t <= f.sev) <=> NumAtLeast(F, t) > 0
        BY <2>7, Counts
      <4>2. (\E f \in F : 90 <= f.sev) => NumAtLeast(F, 90) > 0
        BY <4>1
      <4>3. Crits(F) = NumAtLeast(F, 90)
        BY <2>7, Counts
      <4> QED BY <4>2, <4>3
    <3> HIDE DEF F
    <3> QED BY <3>1, <3>2 DEF McpLevel
  <2>10. ToGate("CRITICAL") = "halt" /\ ToGate("HIGH") = "halt" /\ ToGate("MEDIUM") = "halt"
    BY DEF ToGate
  <2> HIDE DEF F, hidden, c
  <2>11. /\ (\E s \in sevs : s >= 60) => receipt["mcp"].gate = "halt"
         /\ (\E s \in sevs : s >= 90) => receipt["mcp"].verdict = CRITICAL
    BY <2>2, <2>6, <2>8, <2>9, <2>10, Verdicts DEF CRITICAL
  <2> QED BY <2>2, <2>11 DEF sevs, hidden, c
<1>2. VerdictInv => StrongTextIsFlagged
  BY <1>1 DEF StrongTextIsFlagged
<1> QED BY <1>2, VerdictInitInv, VerdictNextInv, PTL DEF VerdictSpec

\* One text is judged at least as strictly as a manifest as it is as a skill.
THEOREM ManifestIsJudgedAsStrictlyHolds == VerdictSpec => []ManifestIsJudgedAsStrictly
<1>1. ASSUME VerdictInv, receipt["mcp"].signed, receipt["skill"].signed,
             receipt["mcp"].of = receipt["skill"].of
      PROVE  receipt["mcp"].verdict >= receipt["skill"].verdict
  <2>1. PICK text \in Seq(Chunk) : TextOK(text) /\ receipt["mcp"] = ReceiptFor("mcp", text)
    BY <1>1, SignedIsFor
  <2>2. PICK same \in Seq(Chunk) : receipt["skill"] = ReceiptFor("skill", same)
    BY <1>1, SignedIsFor
  <2>3. same = text
    BY <1>1, <2>1, <2>2 DEF ReceiptFor
  <2>4. /\ receipt["mcp"].verdict = ToVerdict(McpLevel(AllFindings(text)))
        /\ receipt["skill"].verdict = ToVerdict(SkillLevel(SkillFindings(text)))
    BY <2>1, <2>2, <2>3 DEF ReceiptFor, LevelOf
  <2>5. ToVerdict(SkillLevel(SkillFindings(text))) <= ToVerdict(McpLevel(AllFindings(text)))
    BY <2>1, SkillWeighed, AllWeighed, SkillAmongAll, VerdictGrows
  <2>6. /\ ToVerdict(SkillLevel(SkillFindings(text))) \in Nat
        /\ ToVerdict(McpLevel(AllFindings(text))) \in Nat
    BY Verdicts DEF SkillLevel, McpLevel
  <2> QED BY <2>4, <2>5, <2>6
<1>2. VerdictInv => ManifestIsJudgedAsStrictly
  BY <1>1 DEF ManifestIsJudgedAsStrictly
<1> QED BY <1>2, VerdictInitInv, VerdictNextInv, PTL DEF VerdictSpec

\* While no chunk stops matching a rule it matched, or becomes long, no later
\* receipt is milder: for any rules matched, any number of chunks and edits.
THEOREM ReceiptNeverSoftensHolds == VerdictSpec => ReceiptNeverSoftens
<1>1. ASSUME VerdictInv, VerdictNext, NEW kind \in {"mcp", "skill"},
             receipt'[kind] # receipt[kind], receipt[kind].signed,
             ~ Lost(receipt[kind].of, chunks), ~ Lengthened(receipt[kind].of, chunks)
      PROVE  receipt'[kind].verdict >= receipt[kind].verdict
  <2>1. Submit(kind)
    <3>1. PICK other \in {"mcp", "skill"} : Submit(other)
      <4>1. (\E c \in Contents : AddChunk(c) \/ Edits(c)) \/ Pad => receipt' = receipt
        BY DEF AddChunk, Edits, Edit, Pad
      <4> QED BY <1>1, <4>1 DEF VerdictNext, Edits
    <3>2. other # kind => receipt'[kind] = receipt[kind]
      <4>1. receipt' = [receipt EXCEPT ![other] = ReceiptFor(other, chunks)]
        BY <3>1, SubmitSigns
      <4> QED BY <4>1 DEF VerdictInv
    <3> QED BY <1>1, <3>1, <3>2
  <2>2. receipt'[kind] = ReceiptFor(kind, chunks)
    BY <1>1, <2>1, SubmitSigns DEF VerdictInv
  <2>3. PICK text \in Seq(Chunk) :
          TextOK(text) /\ Edited(text, chunks) /\ receipt[kind] = ReceiptFor(kind, text)
    BY <1>1, SignedIsFor
  <2>4. /\ receipt[kind].of = text
        /\ receipt[kind].verdict = ToVerdict(LevelOf(kind, text))
        /\ receipt'[kind].verdict = ToVerdict(LevelOf(kind, chunks))
    BY <2>2, <2>3 DEF ReceiptFor
  <2>5. ToVerdict(LevelOf(kind, text)) <= ToVerdict(LevelOf(kind, chunks))
    BY <1>1, <2>3, <2>4, VerdictHardens DEF VerdictInv, Grown
  <2>6. \A t : ToVerdict(LevelOf(kind, t)) \in Nat
    BY Verdicts DEF LevelOf, SkillLevel, McpLevel
  <2> QED BY <2>4, <2>5, <2>6
<1>2. VerdictInv /\ [VerdictNext]_verdictVars =>
        [\A kind \in {"mcp", "skill"} :
           (/\ receipt'[kind] # receipt[kind] /\ receipt[kind].signed
            /\ ~ Lost(receipt[kind].of, chunks) /\ ~ Lengthened(receipt[kind].of, chunks))
               => receipt'[kind].verdict >= receipt[kind].verdict]_verdictVars
  BY <1>1
<1> QED BY <1>2, VerdictInitInv, VerdictNextInv, PTL DEF VerdictSpec, ReceiptNeverSoftens
=============================================================================
