------------------------------ MODULE FeedProofs ------------------------------
(***************************************************************************)
(* The feeds and the strategy, for every timeframe, every set of prices    *)
(* and however many ticks or candles: candles come in order, add up and    *)
(* keep every tick's volume, nothing stale is delivered, and the signals   *)
(* got candle by candle are those of the whole series, each opposite to    *)
(* the one before.                                                         *)
(***************************************************************************)
EXTENDS MarketFeed, DataLemmas

(***************************************************************************)
(* The strategy: its recursive functions are defined, and what they are at *)
(* a candle depends only on the candles before.                            *)
(***************************************************************************)
EmaEquation(e, closes, span, n) ==
    e = [i \in 1..n |-> IF i = 1 THEN closes[1]
                                 ELSE (2 * closes[i] + (span - 1) * e[i - 1]) \div (span + 1)]

FillEquation(s, side, n) ==
    s = [i \in 1..n |-> IF side[i] # 0 \/ i = 1 THEN side[i] ELSE s[i - 1]]

\* The average is defined for every number of candles.
LEMMA EmaExists ==
    ASSUME NEW closes, NEW span, NEW n \in Nat
    PROVE  \E e : EmaEquation(e, closes, span, n)
<1> DEFINE Bad == {m \in Nat : ~ \E e : EmaEquation(e, closes, span, m)}
<1>1. SUFFICES ASSUME Bad # {} PROVE FALSE
    OBVIOUS
<1>2. PICK m \in Bad : \A k \in Bad : m <= k
    <2> Bad \subseteq Nat
        OBVIOUS
    <2> HIDE DEF Bad
    <2> QED BY <1>1, LeastNatural
<1>3. CASE m = 0
    <2> DEFINE z == [i \in 1..m |-> 0]
    <2>1. 1..m = {}
        BY <1>3
    <2>2. EmaEquation(z, closes, span, m)
        BY <2>1 DEF EmaEquation
    <2> QED BY <2>2, <1>2
<1>4. CASE m # 0
    <2>1. PICK e : EmaEquation(e, closes, span, m - 1)
        BY <1>2, <1>4
    <2> DEFINE next == IF m = 1 THEN closes[1]
                                ELSE (2 * closes[m] + (span - 1) * e[m - 1]) \div (span + 1)
               f == [i \in 1..m |-> IF i = m THEN next ELSE e[i]]
    <2>2. \A i \in 1..m : f[i] = IF i = 1 THEN closes[1]
                                 ELSE (2 * closes[i] + (span - 1) * f[i - 1]) \div (span + 1)
        <3> TAKE i \in 1..m
        <3>1. CASE i = m
            <4>1. m # 1 => f[i - 1] = e[m - 1]
                BY <1>2, <3>1
            <4> QED BY <4>1, <3>1
        <3>2. CASE i # m
            <4>1. i \in 1..(m - 1)
                BY <3>2, <1>2
            <4>2. e[i] = IF i = 1 THEN closes[1]
                         ELSE (2 * closes[i] + (span - 1) * e[i - 1]) \div (span + 1)
                BY <4>1, <2>1 DEF EmaEquation
            <4>3. f[i] = e[i] /\ (i # 1 => f[i - 1] = e[i - 1])
                BY <4>1, <1>2
            <4> HIDE DEF f
            <4> QED BY <4>2, <4>3
        <3> QED BY <3>1, <3>2
    <2>3. f = [i \in 1..m |-> f[i]]
        OBVIOUS
    <2>4. EmaEquation(f, closes, span, m)
        <3> HIDE DEF f
        <3> QED BY <2>2, <2>3 DEF EmaEquation
    <2> QED BY <2>4, <1>2
<1> QED BY <1>3, <1>4

\* Ema is that function.
LEMMA EmaIs ==
    ASSUME NEW n \in Nat, NEW closes, DOMAIN closes = 1..n, NEW span
    PROVE  EmaEquation(Ema(closes, span), closes, span, n)
<1>1. Ema(closes, span) = CHOOSE e : EmaEquation(e, closes, span, n)
    BY DEF Ema, EmaEquation
<1> QED BY <1>1, EmaExists

\* Averages of series that begin alike begin alike.
LEMMA EmaOfPrefix ==
    ASSUME NEW n \in Nat, NEW m \in 0..n, NEW span,
           NEW closes, DOMAIN closes = 1..n, NEW prefix, DOMAIN prefix = 1..m,
           \A i \in 1..m : prefix[i] = closes[i]
    PROVE  \A i \in 1..m : Ema(prefix, span)[i] = Ema(closes, span)[i]
<1> DEFINE e == Ema(closes, span)  p == Ema(prefix, span)
           Bad == {i \in 1..m : p[i] # e[i]}
<1>1. EmaEquation(e, closes, span, n) /\ EmaEquation(p, prefix, span, m)
    BY EmaIs
<1> HIDE DEF e, p
<1>2. SUFFICES ASSUME Bad # {} PROVE FALSE
    BY DEF e, p
<1>3. PICK i \in Bad : \A k \in Bad : i <= k
    <2> Bad \subseteq Nat
        OBVIOUS
    <2> HIDE DEF Bad
    <2> QED BY <1>2, LeastNatural
<1>4. i \in 1..m /\ i \in 1..n /\ p[i] # e[i]
    BY <1>3
<1>5. i # 1 => p[i - 1] = e[i - 1]
    BY <1>3
<1>6. p[i] = IF i = 1 THEN prefix[1] ELSE (2 * prefix[i] + (span - 1) * p[i - 1]) \div (span + 1)
    BY <1>1, <1>4 DEF EmaEquation
<1>7. e[i] = IF i = 1 THEN closes[1] ELSE (2 * closes[i] + (span - 1) * e[i - 1]) \div (span + 1)
    BY <1>1, <1>4 DEF EmaEquation
<1>8. prefix[i] = closes[i]
    BY <1>4
<1> QED BY <1>4, <1>5, <1>6, <1>7, <1>8

\* The filled side is defined, too.
LEMMA FillExists ==
    ASSUME NEW side, NEW n \in Nat
    PROVE  \E s : FillEquation(s, side, n)
<1> DEFINE Bad == {m \in Nat : ~ \E s : FillEquation(s, side, m)}
<1>1. SUFFICES ASSUME Bad # {} PROVE FALSE
    OBVIOUS
<1>2. PICK m \in Bad : \A k \in Bad : m <= k
    <2> Bad \subseteq Nat
        OBVIOUS
    <2> HIDE DEF Bad
    <2> QED BY <1>1, LeastNatural
<1>3. CASE m = 0
    <2> DEFINE z == [i \in 1..m |-> 0]
    <2>1. FillEquation(z, side, m)
        BY <1>3 DEF FillEquation
    <2> QED BY <2>1, <1>2
<1>4. CASE m # 0
    <2>1. PICK s : FillEquation(s, side, m - 1)
        BY <1>2, <1>4
    <2> DEFINE f == [i \in 1..m |-> IF i # m THEN s[i]
                                    ELSE IF side[m] # 0 \/ m = 1 THEN side[m] ELSE s[m - 1]]
    <2>2. \A i \in 1..m : f[i] = IF side[i] # 0 \/ i = 1 THEN side[i] ELSE f[i - 1]
        <3> TAKE i \in 1..m
        <3>1. CASE i = m
            <4>1. m # 1 => f[i - 1] = s[m - 1]
                BY <1>2, <3>1
            <4> QED BY <4>1, <3>1
        <3>2. CASE i # m
            <4>1. i \in 1..(m - 1)
                BY <3>2, <1>2
            <4>2. s[i] = IF side[i] # 0 \/ i = 1 THEN side[i] ELSE s[i - 1]
                BY <4>1, <2>1 DEF FillEquation
            <4>3. f[i] = s[i] /\ (i # 1 => f[i - 1] = s[i - 1])
                BY <4>1, <1>2
            <4> HIDE DEF f
            <4> QED BY <4>2, <4>3
        <3> QED BY <3>1, <3>2
    <2>3. f = [i \in 1..m |-> f[i]]
        OBVIOUS
    <2>4. FillEquation(f, side, m)
        <3> HIDE DEF f
        <3> QED BY <2>2, <2>3 DEF FillEquation
    <2> QED BY <2>4, <1>2
<1> QED BY <1>3, <1>4

LEMMA FillIs ==
    ASSUME NEW n \in Nat, NEW side, DOMAIN side = 1..n
    PROVE  FillEquation(FillForward(side), side, n)
<1>1. FillForward(side) = CHOOSE s : FillEquation(s, side, n)
    BY DEF FillForward, FillEquation
<1> QED BY <1>1, FillExists

\* Sides that begin alike are filled alike.
LEMMA FillOfPrefix ==
    ASSUME NEW n \in Nat, NEW m \in 0..n,
           NEW side, DOMAIN side = 1..n, NEW prefix, DOMAIN prefix = 1..m,
           \A i \in 1..m : prefix[i] = side[i]
    PROVE  \A i \in 1..m : FillForward(prefix)[i] = FillForward(side)[i]
<1> DEFINE s == FillForward(side)  p == FillForward(prefix)
           Bad == {i \in 1..m : p[i] # s[i]}
<1>1. FillEquation(s, side, n) /\ FillEquation(p, prefix, m)
    BY FillIs
<1> HIDE DEF s, p
<1>2. SUFFICES ASSUME Bad # {} PROVE FALSE
    BY DEF s, p
<1>3. PICK i \in Bad : \A k \in Bad : i <= k
    <2> Bad \subseteq Nat
        OBVIOUS
    <2> HIDE DEF Bad
    <2> QED BY <1>2, LeastNatural
<1>4. i \in 1..m /\ i \in 1..n /\ p[i] # s[i]
    BY <1>3
<1>5. i # 1 => p[i - 1] = s[i - 1]
    BY <1>3
<1>6. p[i] = IF prefix[i] # 0 \/ i = 1 THEN prefix[i] ELSE p[i - 1]
    BY <1>1, <1>4 DEF FillEquation
<1>7. s[i] = IF side[i] # 0 \/ i = 1 THEN side[i] ELSE s[i - 1]
    BY <1>1, <1>4 DEF FillEquation
<1> QED BY <1>4, <1>5, <1>6, <1>7

\* The fast average above (1), below (-1) or at (0) the slow one.
LEMMA SideType ==
    ASSUME NEW n \in Nat, NEW closes, DOMAIN closes = 1..n
    PROVE  DOMAIN Side(closes) = 1..n /\ \A i \in 1..n : Side(closes)[i] \in {-1, 0, 1}
BY DEF Side, Sign

LEMMA SideOfPrefix ==
    ASSUME NEW n \in Nat, NEW m \in 0..n,
           NEW closes, DOMAIN closes = 1..n, NEW prefix, DOMAIN prefix = 1..m,
           \A i \in 1..m : prefix[i] = closes[i]
    PROVE  \A i \in 1..m : Side(prefix)[i] = Side(closes)[i]
<1> DEFINE ef == Ema(closes, FastPeriod)  es == Ema(closes, SlowPeriod)
           pf == Ema(prefix, FastPeriod)  ps == Ema(prefix, SlowPeriod)
<1>1. \A i \in 1..m : pf[i] = ef[i] /\ ps[i] = es[i]
    BY EmaOfPrefix
<1>2. Side(closes) = [i \in 1..n |-> Sign(ef[i] - es[i])]
    BY DEF Side
<1>3. Side(prefix) = [i \in 1..m |-> Sign(pf[i] - ps[i])]
    BY DEF Side
<1> HIDE DEF ef, es, pf, ps
<1> QED BY <1>1, <1>2, <1>3

\* The side the strategy remembers of each candle.
State(closes) == FillForward(Side(closes))

\* It is a side, stays known once known, and takes a new one where it is clear.
LEMMA StateType ==
    ASSUME NEW n \in Nat, NEW closes, DOMAIN closes = 1..n
    PROVE  /\ \A i \in 1..n : State(closes)[i] \in {-1, 0, 1}
           /\ \A i \in 1..(n - 1) : State(closes)[i] # 0 => State(closes)[i + 1] # 0
<1> DEFINE d == Side(closes)  s == State(closes)
           Bad == {i \in 1..n : s[i] \notin {-1, 0, 1}}
<1>1. DOMAIN d = 1..n /\ \A i \in 1..n : d[i] \in {-1, 0, 1}
    BY SideType
<1>2. FillEquation(s, d, n)
    BY <1>1, FillIs DEF State
<1> HIDE DEF d, s
<1>3. \A i \in 1..n : s[i] = IF d[i] # 0 \/ i = 1 THEN d[i] ELSE s[i - 1]
    BY <1>2 DEF FillEquation
<1>4. Bad = {}
    <2> SUFFICES ASSUME Bad # {} PROVE FALSE
        OBVIOUS
    <2>1. PICK i \in Bad : \A k \in Bad : i <= k
        <3> Bad \subseteq Nat
            OBVIOUS
        <3> HIDE DEF Bad
        <3> QED BY LeastNatural
    <2>2. i # 1 => s[i - 1] \in {-1, 0, 1}
        BY <2>1
    <2> QED BY <2>1, <2>2, <1>1, <1>3
<1>5. \A i \in 1..(n - 1) : s[i] # 0 => s[i + 1] # 0
    <2> TAKE i \in 1..(n - 1)
    <2>1. i + 1 \in 1..n /\ i + 1 # 1 /\ (i + 1) - 1 = i
        OBVIOUS
    <2> QED BY <2>1, <1>3
<1> QED BY <1>4, <1>5 DEF s

LEMMA StateOfPrefix ==
    ASSUME NEW n \in Nat, NEW m \in 0..n,
           NEW closes, DOMAIN closes = 1..n, NEW prefix, DOMAIN prefix = 1..m,
           \A i \in 1..m : prefix[i] = closes[i]
    PROVE  \A i \in 1..m : State(prefix)[i] = State(closes)[i]
<1>1. DOMAIN Side(closes) = 1..n /\ DOMAIN Side(prefix) = 1..m
    BY DEF Side
<1> QED BY <1>1, SideOfPrefix, FillOfPrefix DEF State

\* The signals of a series begin with those of its beginning.
LEMMA SignalsOfPrefix ==
    ASSUME NEW n \in Nat, NEW m \in 0..n,
           NEW closes, DOMAIN closes = 1..n, NEW prefix, DOMAIN prefix = 1..m,
           \A i \in 1..m : prefix[i] = closes[i]
    PROVE  \A i \in 1..m : GenerateSignals(prefix)[i] = GenerateSignals(closes)[i]
<1> TAKE i \in 1..m
<1>1. State(prefix)[i] = State(closes)[i] /\ (i > 1 => State(prefix)[i - 1] = State(closes)[i - 1])
    BY StateOfPrefix
<1>2. /\ CrossesUp(State(prefix), i) <=> CrossesUp(State(closes), i)
      /\ CrossesDown(State(prefix), i) <=> CrossesDown(State(closes), i)
    BY <1>1 DEF CrossesUp, CrossesDown
<1> QED BY <1>2 DEF GenerateSignals, State

SignalNames == {"BUY", "SELL", "HOLD"}

LEMMA SignalsType ==
    ASSUME NEW closes \in Seq(Int)
    PROVE  GenerateSignals(closes) \in Seq(SignalNames) /\ Len(GenerateSignals(closes)) = Len(closes)
<1>1. GenerateSignals(closes) \in [1..Len(closes) -> SignalNames]
    BY DEF GenerateSignals, SignalNames
<1> HIDE DEF SignalNames
<1> QED BY <1>1

\* A signal says where the state crosses, and that there are enough candles.
SignalFits(closes, k) ==
    LET g == GenerateSignals(closes)[k]  st == State(closes) IN
        /\ g \in SignalNames
        /\ k < Warmup => g = "HOLD"
        /\ g = "BUY" => CrossesUp(st, k)
        /\ g = "SELL" => CrossesDown(st, k)
        /\ g = "HOLD" /\ k >= Warmup => ~CrossesUp(st, k) /\ ~CrossesDown(st, k)

LEMMA SignalCases ==
    ASSUME NEW closes \in Seq(Int), NEW k \in 1..Len(closes)
    PROVE  SignalFits(closes, k)
<1> DEFINE st == State(closes)  g == GenerateSignals(closes)[k]
<1>1. g = CASE k < Warmup -> "HOLD"
            [] k >= Warmup /\ CrossesUp(st, k)   -> "BUY"
            [] k >= Warmup /\ CrossesDown(st, k) -> "SELL"
            [] OTHER -> "HOLD"
    BY DEF GenerateSignals, State
<1>2. k > 1 => st[k - 1] \in {-1, 0, 1}
    BY StateType
<1> HIDE DEF st, g
<1>3. ~ (CrossesUp(st, k) /\ CrossesDown(st, k))
    BY <1>2 DEF CrossesUp, CrossesDown
<1>4. Warmup \in Nat
    BY StrategyAssumption
<1>5. CASE k < Warmup
    <2>1. g = "HOLD"
        BY <1>1, <1>4, <1>5
    <2> QED BY <2>1, <1>4, <1>5 DEF SignalFits, SignalNames, st, g
<1>6. CASE k >= Warmup /\ CrossesUp(st, k)
    <2>1. g = "BUY"
        BY <1>1, <1>3, <1>4, <1>6
    <2> QED BY <2>1, <1>4, <1>6 DEF SignalFits, SignalNames, st, g
<1>7. CASE k >= Warmup /\ CrossesDown(st, k)
    <2>1. g = "SELL"
        BY <1>1, <1>3, <1>4, <1>7
    <2> QED BY <2>1, <1>4, <1>7 DEF SignalFits, SignalNames, st, g
<1>8. CASE k >= Warmup /\ ~CrossesUp(st, k) /\ ~CrossesDown(st, k)
    <2>1. g = "HOLD"
        BY <1>1, <1>4, <1>8
    <2> QED BY <2>1, <1>4, <1>8 DEF SignalFits, SignalNames, st, g
<1> QED BY <1>4, <1>5, <1>6, <1>7, <1>8

\* The last candle's signal, appended, gives the signals of the longer series.
LEMMA SignalOfLastCandle ==
    ASSUME NEW closes \in Seq(Int), closes # << >>,
           NEW prefix \in Seq(Int), Len(closes) = Len(prefix) + 1,
           \A i \in 1..Len(prefix) : prefix[i] = closes[i]
    PROVE  Append(GenerateSignals(prefix), GenerateSignal(closes)) = GenerateSignals(closes)
<1> DEFINE n == Len(closes)  m == Len(prefix)
           old == GenerateSignals(prefix)  all == GenerateSignals(closes)
<1>1. GenerateSignal(closes) = all[n]
    <2>1. CASE n < Warmup
        <3>1. DOMAIN closes = 1..n /\ n \in 1..n
            OBVIOUS
        <3>2. all[n] = "HOLD"
            BY <2>1, <3>1, SignalCases DEF SignalFits
        <3> QED BY <2>1, <3>2 DEF GenerateSignal
    <2>2. CASE ~ (n < Warmup)
        BY <2>2 DEF GenerateSignal
    <2> QED BY <2>1, <2>2
<1>2. \A i \in 1..m : old[i] = all[i]
    <2>1. /\ m \in 0..n /\ n \in Nat
          /\ DOMAIN closes = 1..n /\ DOMAIN prefix = 1..m
        OBVIOUS
    <2> QED BY <2>1, SignalsOfPrefix
<1>3. /\ old \in Seq(SignalNames) /\ Len(old) = m
      /\ all \in Seq(SignalNames) /\ Len(all) = n
    BY SignalsType
<1> HIDE DEF old, all, SignalNames
<1>4. all[n] \in SignalNames
    BY <1>3
<1>5. Append(old, all[n]) \in Seq(SignalNames) /\ Len(Append(old, all[n])) = n
    BY <1>3, <1>4
<1>6. \A i \in 1..n : Append(old, all[n])[i] = all[i]
    BY <1>2, <1>3, <1>4
<1>7. Append(old, all[n]) = all
    BY <1>3, <1>5, <1>6
<1> QED BY <1>1, <1>7 DEF old, all

\* Between two signals with only HOLD between them the state crosses once.
LEMMA CrossingsAlternate ==
    ASSUME NEW closes \in Seq(Int), NEW i \in 1..Len(closes), NEW j \in (i + 1)..Len(closes),
           GenerateSignals(closes)[i] # "HOLD", GenerateSignals(closes)[j] # "HOLD",
           \A k \in (i + 1)..(j - 1) : GenerateSignals(closes)[k] = "HOLD"
    PROVE  GenerateSignals(closes)[i] # GenerateSignals(closes)[j]
<1> DEFINE n == Len(closes)  st == State(closes)  g == GenerateSignals(closes)
<1> SUFFICES ASSUME g[i] = g[j] PROVE FALSE
    OBVIOUS
<1>1. /\ \A k \in 1..n : st[k] \in {-1, 0, 1}
      /\ \A k \in 1..(n - 1) : st[k] # 0 => st[k + 1] # 0
    BY StateType
<1>3. Warmup \in Nat /\ i \in Nat /\ j \in Nat /\ i < j /\ j <= n /\ n \in Nat
    BY StrategyAssumption
<1>9. /\ g[i] # "HOLD" /\ g[j] # "HOLD" /\ g[i] = g[j]
      /\ \A k \in (i + 1)..(j - 1) : g[k] = "HOLD"
    OBVIOUS
<1>4. \A k \in 1..n : /\ g[k] \in {"BUY", "SELL", "HOLD"}
                      /\ k < Warmup => g[k] = "HOLD"
                      /\ g[k] = "BUY" => CrossesUp(st, k)
                      /\ g[k] = "SELL" => CrossesDown(st, k)
                      /\ g[k] = "HOLD" /\ k >= Warmup => ~CrossesUp(st, k) /\ ~CrossesDown(st, k)
    BY SignalCases DEF SignalFits, SignalNames
<1> HIDE DEF st, g
<1>5. i \in 1..n /\ j \in 1..n /\ i >= Warmup
    BY <1>3, <1>4, <1>9
<1>6. \A k \in (i + 1)..(j - 1) : /\ k \in 1..n /\ k > 1
                                  /\ ~CrossesUp(st, k) /\ ~CrossesDown(st, k)
    BY <1>3, <1>4, <1>5, <1>9
<1>7. CASE g[i] = "BUY"
    <2> DEFINE Bad == {k \in i..(j - 1) : ~ (st[k] > 0)}
    <2>0. j - 1 \in i..(j - 1) /\ st[j - 1] \in Int
        BY <1>1, <1>3, <1>5
    <2>1. st[i] > 0 /\ st[j - 1] < 0
        BY <1>4, <1>5, <1>7, <1>9 DEF CrossesUp
    <2>2. PICK k \in Bad : \A l \in Bad : k <= l
        <3>1. j - 1 \in Bad
            BY <2>0, <2>1
        <3>2. Bad \subseteq Nat
            BY <1>3
        <3> HIDE DEF Bad
        <3> QED BY <3>1, <3>2, LeastNatural
    <2>3. k # i /\ k \in (i + 1)..(j - 1)
        BY <2>1, <2>2, <1>3
    <2>4. st[k - 1] > 0
        BY <2>2, <2>3, <1>3
    <2>5. k - 1 \in 1..(n - 1) /\ (k - 1) + 1 = k
        BY <2>3, <1>3
    <2>6. st[k] # 0 /\ st[k] \in {-1, 0, 1}
        BY <2>4, <2>5, <1>1, <1>6, <2>3
    <2> QED BY <2>2, <2>3, <2>4, <2>6, <1>6 DEF CrossesDown
<1>8. CASE g[i] = "SELL"
    <2> DEFINE Bad == {k \in i..(j - 1) : ~ (st[k] < 0)}
    <2>0. j - 1 \in i..(j - 1) /\ st[j - 1] \in Int
        BY <1>1, <1>3, <1>5
    <2>1. st[i] < 0 /\ st[j - 1] > 0
        BY <1>4, <1>5, <1>8, <1>9 DEF CrossesDown
    <2>2. PICK k \in Bad : \A l \in Bad : k <= l
        <3>1. j - 1 \in Bad
            BY <2>0, <2>1
        <3>2. Bad \subseteq Nat
            BY <1>3
        <3> HIDE DEF Bad
        <3> QED BY <3>1, <3>2, LeastNatural
    <2>3. k # i /\ k \in (i + 1)..(j - 1)
        BY <2>1, <2>2, <1>3
    <2>4. st[k - 1] < 0
        BY <2>2, <2>3, <1>3
    <2>5. k - 1 \in 1..(n - 1) /\ (k - 1) + 1 = k
        BY <2>3, <1>3
    <2>6. st[k] # 0 /\ st[k] \in {-1, 0, 1}
        BY <2>4, <2>5, <1>1, <1>6, <2>3
    <2> QED BY <2>2, <2>3, <2>4, <2>6, <1>6 DEF CrossesUp
<1> QED BY <1>4, <1>5, <1>7, <1>8, <1>9

(***************************************************************************)
(* The boundary of a candle                                                *)
(***************************************************************************)

\* What is left of a number above a multiple of the timeframe.
LEMMA RestOf ==
    ASSUME NEW x \in Nat
    PROVE  \E q \in Nat, r \in 0..(Timeframe - 1) : x = Timeframe * q + r /\ x % Timeframe = r
<1>1. Timeframe \in Nat /\ Timeframe > 0
    BY FeedAssumption
<1>2. PICK q, r : q = x \div Timeframe /\ r = x % Timeframe
    OBVIOUS
<1>3. r \in 0..(Timeframe - 1) /\ q \in Nat
    BY <1>1, <1>2
<1>4. x = Timeframe * q + r
    BY <1>1, <1>2
<1> QED BY <1>2, <1>3, <1>4

LEMMA BoundaryType ==
    ASSUME NEW t \in Nat
    PROVE  Boundary(t) \in Nat /\ Boundary(t) <= t
<1>1. Timeframe \in Nat \ {0}
    BY FeedAssumption
<1>2. PICK m \in Nat : m = t % 60 /\ m <= t
    OBVIOUS
<1>3. PICK q \in Nat, r \in 0..(Timeframe - 1) : m = Timeframe * q + r /\ m % Timeframe = r
    BY <1>2, RestOf
<1>4. Timeframe * q \in Nat
    BY <1>1
<1>5. Boundary(t) = t - r
    BY <1>2, <1>3 DEF Boundary
<1> QED BY <1>1, <1>2, <1>3, <1>4, <1>5

\* A later time never has an earlier boundary, across the hour included.
LEMMA BoundaryMonotone ==
    ASSUME NEW t \in Nat, NEW u \in Nat, t <= u
    PROVE  Boundary(t) <= Boundary(u)
<1> DEFINE T == Timeframe
<1>1. T \in Nat \ {0}
    BY FeedAssumption
<1>2. PICK a \in Nat, m \in 0..59 : t = 60 * a + m /\ t % 60 = m
    OBVIOUS
<1>3. PICK b \in Nat, n \in 0..59 : u = 60 * b + n /\ u % 60 = n
    OBVIOUS
<1>4. PICK q \in Nat, p \in 0..(T - 1) : m = T * q + p /\ m % T = p
    <2> m \in Nat
        OBVIOUS
    <2> QED BY RestOf
<1>5. PICK s \in Nat, r \in 0..(T - 1) : n = T * s + r /\ n % T = r
    <2> n \in Nat
        OBVIOUS
    <2> QED BY RestOf
<1>6. Boundary(t) = t - p /\ Boundary(u) = u - r
    BY <1>2, <1>3, <1>4, <1>5 DEF Boundary
<1> HIDE DEF T
<1>7. T * q \in Nat /\ T * s \in Nat
    BY <1>1
<1>8. CASE a = b
    <2>1. m <= n
        BY <1>2, <1>3, <1>8
    <2>2. q <= s
        <3> SUFFICES ASSUME s + 1 <= q PROVE FALSE
            OBVIOUS
        <3>1. T * (s + 1) <= T * q
            BY <1>1
        <3>2. T * (s + 1) = T * s + T
            BY <1>1
        <3> QED BY <3>1, <3>2, <2>1, <1>1, <1>4, <1>5, <1>7
    <2>3. T * q <= T * s
        BY <2>2, <1>1
    <2> QED BY <2>3, <1>2, <1>3, <1>4, <1>5, <1>6, <1>7, <1>8
<1>9. CASE a # b
    <2>1. a + 1 <= b
        BY <1>2, <1>3, <1>9
    <2> QED BY <2>1, <1>1, <1>2, <1>3, <1>4, <1>5, <1>6, <1>7
<1> QED BY <1>8, <1>9

(***************************************************************************)
(* The inductive invariant                                                 *)
(***************************************************************************)
TickRecord   == [time : Nat, price : Int, volume : Int]
CandleRecord == [time : Int, open : Int, high : Int, low : Int, close : Int, volume : Int]

FeedTypeOK == /\ heard \in Seq(TickRecord)
              /\ closed \in Seq(CandleRecord)
              /\ bar \in CandleRecord
              /\ clock \in Int /\ lastTick \in Int

\* Which of the two feeds there is; the candles of a replay are numbered.
OneFeed == \/ /\ source = "ticks"
              /\ bar = NoBar => closed = << >> /\ heard = << >>
              /\ bar # NoBar => bar.time >= 0
           \/ /\ source = "replay" /\ bar = NoBar /\ heard = << >>
              /\ \A i \in DOMAIN closed : closed[i].time = i * Timeframe

\* The ticks of candle c among h, those that arrive while its boundary is the latest
\* one reached.
Own(h, c) == {i \in DOMAIN h : /\ \A j \in 1..i : Boundary(h[j].time) <= c.time
                               /\ \E j \in 1..i : Boundary(h[j].time) = c.time}

\* The latest boundary the ticks h have reached.
IsReached(h, t) == /\ \A j \in DOMAIN h : Boundary(h[j].time) <= t
                   /\ \E j \in DOMAIN h : Boundary(h[j].time) = t

\* Candle c is made of its ticks, of which there are some.
MadeFrom(h, c) ==
    /\ \E first, last \in Own(h, c) :
          /\ \A i \in Own(h, c) : first <= i /\ i <= last
          /\ c.open = h[first].price /\ c.close = h[last].price
    /\ \E top, bottom \in Own(h, c) :
          /\ \A i \in Own(h, c) : h[bottom].price <= h[i].price /\ h[i].price <= h[top].price
          /\ c.high = h[top].price /\ c.low = h[bottom].price

MadeOf(c) == MadeFrom(heard, c)

\* Every candle is made of its own ticks, and the bar is that of the latest boundary.
Built == source = "ticks" =>
            /\ \A i \in DOMAIN closed : MadeOf(closed[i])
            /\ bar # NoBar => MadeOf(bar) /\ IsReached(heard, bar.time)

Closes == [i \in DOMAIN closed |-> closed[i].close]

FeedInv == FeedTypeOK /\ OneFeed /\ CandlesInOrder

\* Of one candle's worth of ticks the model's Max and Min are the witnesses.
LEMMA MadeOfSumsUp ==
    ASSUME FeedTypeOK, NEW c, MadeOf(c) PROVE SumsUp(c)
<1> DEFINE ticks == TicksOf(c)  prices == {heard[i].price : i \in ticks}
<1>1. PICK first \in ticks, last \in ticks :
          /\ \A i \in ticks : first <= i /\ i <= last
          /\ c.open = heard[first].price /\ c.close = heard[last].price
    BY DEF MadeOf, MadeFrom, Own, TicksOf
<1>2. PICK top \in ticks, bottom \in ticks :
          /\ \A i \in ticks : heard[bottom].price <= heard[i].price
                              /\ heard[i].price <= heard[top].price
          /\ c.high = heard[top].price /\ c.low = heard[bottom].price
    BY DEF MadeOf, MadeFrom, Own, TicksOf
<1>3. ticks \subseteq DOMAIN heard /\ ticks \in SUBSET Int /\ \A i \in ticks : heard[i].price \in Int
    <2>1. heard \in Seq(TickRecord) /\ ticks \subseteq DOMAIN heard
        BY DEF FeedTypeOK, TicksOf
    <2>2. DOMAIN heard \subseteq Int /\ \A i \in DOMAIN heard : heard[i] \in TickRecord
        BY <2>1
    <2>3. \A i \in DOMAIN heard : heard[i].price \in Int
        BY <2>2 DEF TickRecord
    <2> HIDE DEF ticks
    <2> QED BY <2>1, <2>2, <2>3
<1> HIDE DEF ticks
<1>4. prices \in SUBSET Int /\ heard[top].price \in prices /\ heard[bottom].price \in prices
    BY <1>3
<1>5. Min(ticks) = first /\ Max(ticks) = last
    BY <1>1, <1>3, MinIs, MaxIs
<1>6. Max(prices) = heard[top].price /\ Min(prices) = heard[bottom].price
    <2>1. \A x \in prices : x <= heard[top].price /\ heard[bottom].price <= x
        BY <1>2
    <2> HIDE DEF prices
    <2> QED BY <2>1, <1>4, MinIs, MaxIs
<1> QED BY <1>1, <1>2, <1>5, <1>6 DEF SumsUp, ticks

InOrder == \A i, j \in DOMAIN heard : i <= j => heard[i].time <= heard[j].time

\* Of ticks in order, those of a candle are the ticks of its timeframe.
LEMMA TicksOfTheirTimeframe ==
    ASSUME FeedTypeOK, InOrder, NEW c
    PROVE  TicksOf(c) = {i \in DOMAIN heard : Boundary(heard[i].time) = c.time}
<1>1. /\ DOMAIN heard = 1..Len(heard) /\ Len(heard) \in Nat
      /\ \A i \in DOMAIN heard : heard[i].time \in Nat
    <2>1. heard \in Seq(TickRecord)
        BY DEF FeedTypeOK
    <2>2. \A i \in DOMAIN heard : heard[i] \in TickRecord
        BY <2>1
    <2> QED BY <2>1, <2>2 DEF TickRecord
<1>2. \A i \in DOMAIN heard : \A j \in 1..i :
          /\ j \in DOMAIN heard
          /\ Boundary(heard[j].time) \in Nat /\ Boundary(heard[i].time) \in Nat
          /\ Boundary(heard[j].time) <= Boundary(heard[i].time)
    <2> SUFFICES ASSUME NEW i \in DOMAIN heard, NEW j \in 1..i
                 PROVE  /\ j \in DOMAIN heard
                        /\ Boundary(heard[j].time) \in Nat /\ Boundary(heard[i].time) \in Nat
                        /\ Boundary(heard[j].time) <= Boundary(heard[i].time)
        OBVIOUS
    <2>1. j \in DOMAIN heard /\ j <= i
        BY <1>1
    <2>2. heard[j].time <= heard[i].time
        BY <2>1 DEF InOrder
    <2> QED BY <2>1, <2>2, <1>1, BoundaryType, BoundaryMonotone
<1>3. \A i \in DOMAIN heard : i \in 1..i
    BY <1>1
<1>4. ASSUME NEW i \in TicksOf(c) PROVE i \in DOMAIN heard /\ Boundary(heard[i].time) = c.time
    <2>1. i \in DOMAIN heard /\ Boundary(heard[i].time) <= c.time
        BY <1>3 DEF TicksOf
    <2>2. PICK j \in 1..i : Boundary(heard[j].time) = c.time
        BY DEF TicksOf
    <2> QED BY <2>1, <2>2, <1>2
<1>5. ASSUME NEW i \in DOMAIN heard, Boundary(heard[i].time) = c.time PROVE i \in TicksOf(c)
    BY <1>2, <1>3, <1>5 DEF TicksOf
<1> QED BY <1>4, <1>5

\* The feeds start with nothing built.
LEMMA FeedInit == Init => FeedInv /\ Built
BY DEF Init, FeedInv, FeedTypeOK, OneFeed, Built, CandlesInOrder, NoBar, None, CandleRecord

(***************************************************************************)
(* A tick                                                                  *)
(***************************************************************************)
LEMMA TickTypes ==
    ASSUME NEW tick \in TickRecord
    PROVE  /\ Opened(tick) \in CandleRecord /\ Opened(tick) # NoBar /\ Opened(tick).time >= 0
           /\ bar \in CandleRecord => Extended(tick) \in CandleRecord
<1>1. tick.time \in Nat /\ tick.price \in Int /\ tick.volume \in Int
    BY DEF TickRecord
<1>2. Boundary(tick.time) \in Nat
    BY <1>1, BoundaryType
<1>3. Opened(tick) \in CandleRecord /\ Opened(tick).time = Boundary(tick.time)
    BY <1>1, <1>2 DEF Opened, CandleRecord
<1>4. Opened(tick) # NoBar /\ Opened(tick).time >= 0
    BY <1>2, <1>3 DEF NoBar, None
<1>5. ASSUME bar \in CandleRecord PROVE Extended(tick) \in CandleRecord
    <2> DEFINE mx == Max({bar.high, tick.price})  mn == Min({bar.low, tick.price})
    <2>1. mx \in Int /\ mn \in Int /\ bar.volume \in Int
        BY <1>1, <1>5, ExtremesOfTwo DEF CandleRecord
    <2>2. Extended(tick) = [bar EXCEPT !.high = mx, !.low = mn, !.close = tick.price,
                                       !.volume = @ + tick.volume]
        BY DEF Extended
    <2> HIDE DEF mx, mn
    <2>3. Extended(tick) = [time |-> bar.time, open |-> bar.open, high |-> mx, low |-> mn,
                            close |-> tick.price, volume |-> bar.volume + tick.volume]
        BY <1>5, <2>2 DEF CandleRecord
    <2>4. bar.time \in Int /\ bar.open \in Int
        BY <1>5 DEF CandleRecord
    <2> QED BY <1>1, <2>1, <2>3, <2>4 DEF CandleRecord
<1> QED BY <1>3, <1>4, <1>5

\* What a tick does: it opens a bar, replaces the bar by a later one and
\* delivers it, or is added to the bar.
LEMMA TickSteps ==
    ASSUME Tick
    PROVE  \E tick \in TickRecord :
              /\ source = "ticks" /\ source' = source
              /\ heard' = Append(heard, tick)
              /\ UNCHANGED replayVars
              /\ \/ bar = NoBar /\ bar' = Opened(tick) /\ UNCHANGED <<closed, signals>>
                 \/ ClosesCandle(tick) /\ CloseCandle(tick)
                 \/ /\ bar # NoBar /\ ~ClosesCandle(tick) /\ bar' = Extended(tick)
                    /\ UNCHANGED <<closed, signals>>
<1>1. PICK t \in 0..MaxMinute, p \in Prices, v \in {1, 2} :
          AddTick([time |-> t, price |-> p, volume |-> v])
    BY DEF Tick
<1> DEFINE tick == [time |-> t, price |-> p, volume |-> v]
<1>2. tick \in TickRecord
    BY FeedAssumption DEF TickRecord
<1> HIDE DEF tick
<1>3. AddTick(tick)
    BY <1>1 DEF tick
<1> QED BY <1>2, <1>3 DEF AddTick, Tick

\* A tick keeps the candles in order.
LEMMA TickKeepsOrder == FeedInv /\ Tick => FeedInv'
<1> SUFFICES ASSUME FeedInv, Tick PROVE FeedInv'
    OBVIOUS
<1>1. PICK tick \in TickRecord :
          /\ source = "ticks" /\ source' = source
          /\ heard' = Append(heard, tick)
          /\ UNCHANGED replayVars
          /\ \/ bar = NoBar /\ bar' = Opened(tick) /\ UNCHANGED <<closed, signals>>
             \/ ClosesCandle(tick) /\ CloseCandle(tick)
             \/ /\ bar # NoBar /\ ~ClosesCandle(tick) /\ bar' = Extended(tick)
                /\ UNCHANGED <<closed, signals>>
    BY TickSteps
<1>2. /\ heard \in Seq(TickRecord) /\ closed \in Seq(CandleRecord) /\ bar \in CandleRecord
      /\ clock \in Int /\ lastTick \in Int
      /\ bar = NoBar => closed = << >> /\ heard = << >>
      /\ bar # NoBar => bar.time >= 0
    BY <1>1 DEF FeedInv, FeedTypeOK, OneFeed
<1>3. /\ \A i, j \in DOMAIN closed : i < j => closed[i].time < closed[j].time
      /\ bar # NoBar => \A i \in DOMAIN closed : closed[i].time < bar.time
      /\ \A i \in DOMAIN closed : closed[i].time \in Int
    <2>1. \A i \in DOMAIN closed : closed[i] \in CandleRecord
        BY <1>2
    <2> QED BY <2>1 DEF FeedInv, CandlesInOrder, CandleRecord
<1>4. heard' \in Seq(TickRecord) /\ clock' \in Int /\ lastTick' \in Int
    BY <1>1, <1>2 DEF replayVars
<1>5. Opened(tick) \in CandleRecord /\ Opened(tick) # NoBar /\ Opened(tick).time >= 0
    BY TickTypes
<1>6. CASE bar = NoBar /\ bar' = Opened(tick) /\ UNCHANGED <<closed, signals>>
    BY <1>1, <1>2, <1>4, <1>5, <1>6 DEF FeedInv, FeedTypeOK, OneFeed, CandlesInOrder
<1>7. CASE ClosesCandle(tick) /\ CloseCandle(tick)
    <2>1. bar # NoBar /\ Opened(tick).time > bar.time
        BY <1>7 DEF ClosesCandle, Opened
    <2>2. bar' = Opened(tick) /\ closed' = Append(closed, bar)
        BY <1>7 DEF CloseCandle, Deliver
    <2>3. closed' \in Seq(CandleRecord) /\ DOMAIN closed' = 1..(Len(closed) + 1)
          /\ \A i \in DOMAIN closed' : closed'[i] = IF i <= Len(closed) THEN closed[i] ELSE bar
        BY <2>2, <1>2
    <2>4. bar.time \in Int /\ Opened(tick).time \in Int
        BY <1>2, <1>5 DEF CandleRecord
    <2>5. \A i \in DOMAIN closed' : closed'[i].time < Opened(tick).time
        BY <2>1, <2>3, <2>4, <1>2, <1>3
    <2>6. \A i, j \in DOMAIN closed' : i < j => closed'[i].time < closed'[j].time
        BY <2>1, <2>3, <1>2, <1>3
    <2>7. CandlesInOrder'
        BY <2>2, <2>5, <2>6 DEF CandlesInOrder
    <2>8. FeedTypeOK'
        BY <1>4, <1>5, <2>2, <2>3 DEF FeedTypeOK
    <2>9. OneFeed'
        BY <1>1, <1>5, <2>2 DEF OneFeed
    <2> QED BY <2>7, <2>8, <2>9 DEF FeedInv
<1>8. CASE bar # NoBar /\ ~ClosesCandle(tick) /\ bar' = Extended(tick) /\ UNCHANGED <<closed, signals>>
    <2>1. Extended(tick) \in CandleRecord
        BY <1>2, TickTypes
    <2>2. Extended(tick).time = bar.time
        BY <1>2 DEF Extended, CandleRecord
    <2>3. bar' # NoBar /\ bar'.time = bar.time /\ bar' \in CandleRecord
        <3>1. NoBar.time = -1
            BY DEF NoBar, None
        <3> QED BY <3>1, <2>1, <2>2, <1>2, <1>8
    <2>4. CandlesInOrder'
        BY <2>3, <1>3, <1>8 DEF CandlesInOrder
    <2>5. FeedTypeOK'
        BY <1>2, <1>4, <1>8, <2>3 DEF FeedTypeOK
    <2>6. OneFeed'
        BY <1>1, <1>2, <1>8, <2>3 DEF OneFeed
    <2> QED BY <2>4, <2>5, <2>6 DEF FeedInv
<1> QED BY <1>1, <1>6, <1>7, <1>8

(***************************************************************************)
(* A call of next_candle                                                   *)
(***************************************************************************)
LEMMA ReplaySteps ==
    ASSUME NextCandle
    PROVE  /\ source = "replay" /\ source' = source /\ UNCHANGED builderVars
           /\ clock' \in clock..MaxClock
           /\ \/ UNCHANGED <<closed, signals, lastTick, delivered>>
              \/ ~Stale /\ \E p \in Prices : ReturnCandle(p)
BY DEF NextCandle, RaiseStale

\* A replayed candle comes one timeframe after the one before.
LEMMA ReplayKeepsOrder == FeedInv /\ NextCandle => FeedInv'
<1> SUFFICES ASSUME FeedInv, NextCandle PROVE FeedInv'
    OBVIOUS
<1>1. /\ source = "replay" /\ source' = source /\ bar' = bar /\ heard' = heard
      /\ clock' \in clock..MaxClock
    BY ReplaySteps DEF builderVars
<1>2. /\ heard \in Seq(TickRecord) /\ closed \in Seq(CandleRecord) /\ bar \in CandleRecord
      /\ clock \in Int /\ lastTick \in Int
      /\ bar = NoBar /\ heard = << >>
      /\ \A i \in DOMAIN closed : closed[i].time = i * Timeframe
    BY <1>1 DEF FeedInv, FeedTypeOK, OneFeed
<1>3. clock' \in Int /\ Timeframe \in Nat /\ Timeframe > 0
    BY <1>1, <1>2, FeedAssumption
<1>4. CASE UNCHANGED <<closed, signals, lastTick, delivered>>
    BY <1>1, <1>2, <1>3, <1>4 DEF FeedInv, FeedTypeOK, OneFeed, CandlesInOrder
<1>5. ASSUME NEW p \in Prices, ReturnCandle(p) PROVE FeedInv'
    <2> DEFINE c == Flat(Len(closed) + 1, p)
    <2>1. closed' = Append(closed, c) /\ lastTick' = clock'
        BY <1>5 DEF ReturnCandle, Deliver
    <2>2. c \in CandleRecord /\ c.time = (Len(closed) + 1) * Timeframe
        BY <1>2, <1>3, FeedAssumption DEF Flat, CandleRecord
    <2> HIDE DEF c
    <2>3. /\ closed' \in Seq(CandleRecord) /\ DOMAIN closed' = 1..(Len(closed) + 1)
          /\ \A i \in DOMAIN closed' : closed'[i] = IF i <= Len(closed) THEN closed[i] ELSE c
        BY <2>1, <2>2, <1>2
    <2>4. \A i \in DOMAIN closed' : closed'[i].time = i * Timeframe
        BY <2>2, <2>3, <1>2
    <2>5. \A i, j \in Nat : i < j => i * Timeframe < j * Timeframe
        BY <1>3
    <2>6. CandlesInOrder'
        BY <2>3, <2>4, <2>5, <1>1, <1>2 DEF CandlesInOrder
    <2> QED BY <1>1, <1>2, <1>3, <2>1, <2>3, <2>4, <2>6 DEF FeedInv, FeedTypeOK, OneFeed
<1> QED BY <1>4, <1>5, ReplaySteps

LEMMA FeedStep == FeedInv /\ [Next]_feedVars => FeedInv'
<1>1. FeedInv /\ UNCHANGED feedVars => FeedInv'
    BY DEF feedVars, builderVars, replayVars, FeedInv, FeedTypeOK, OneFeed, CandlesInOrder
<1> QED BY <1>1, TickKeepsOrder, ReplayKeepsOrder DEF Next

LEMMA FeedInvariant == Spec => []FeedInv
<1>1. Init => FeedInv
    BY FeedInit
<1> QED BY <1>1, FeedStep, PTL DEF Spec

\* live_data.py:120: closed candles come oldest first and never ahead of the one
\* being built, however late ticks arrive.
THEOREM CandlesAlwaysInOrder == Spec => []CandlesInOrder
<1>1. FeedInv => CandlesInOrder
    BY DEF FeedInv
<1> QED BY <1>1, FeedInvariant, PTL

(***************************************************************************)
(* Nothing stale                                                           *)
(***************************************************************************)
LastDelivery == delivered = lastTick

\* MASTER_PLAN.md:531: a replayed candle never comes later than the threshold after
\* the one before.
THEOREM NothingStale == Spec => NothingStaleDelivered
<1>1. Init => LastDelivery
    BY DEF Init, LastDelivery
<1>2. LastDelivery /\ [Next]_feedVars => LastDelivery'
    <2>1. LastDelivery /\ Tick => LastDelivery'
        BY DEF Tick, AddTick, replayVars, LastDelivery
    <2>2. LastDelivery /\ NextCandle => LastDelivery'
        BY ReplaySteps DEF ReturnCandle, LastDelivery
    <2>3. LastDelivery /\ UNCHANGED feedVars => LastDelivery'
        BY DEF feedVars, replayVars, LastDelivery
    <2> QED BY <2>1, <2>2, <2>3 DEF Next
<1>3. FeedInv /\ LastDelivery /\ [Next]_feedVars =>
         [delivered' # delivered /\ delivered # None =>
             delivered' - delivered <= StaleThreshold]_feedVars
    <2> SUFFICES ASSUME FeedInv, LastDelivery, Next, delivered' # delivered, delivered # None
                 PROVE  delivered' - delivered <= StaleThreshold
        OBVIOUS
    <2>1. ~Tick
        BY DEF Tick, AddTick, replayVars
    <2>2. clock' \in clock..MaxClock /\ ~Stale /\ delivered' = clock'
        BY <2>1, ReplaySteps DEF Next, ReturnCandle
    <2>3. ~ (clock' - delivered > StaleThreshold)
        BY <2>2 DEF Stale, LastDelivery
    <2>4. clock' \in Int /\ delivered \in Int /\ StaleThreshold \in Int
        BY <2>2, FeedAssumption DEF FeedInv, FeedTypeOK, LastDelivery
    <2>5. delivered' = clock'
        BY <2>2
    <2>6. \A c, d, s \in Int : ~ (c - d > s) => c - d <= s
        OBVIOUS
    <2>7. clock' - delivered <= StaleThreshold
        BY <2>3, <2>4, <2>6
    <2> QED BY <2>5, <2>7
<1> QED BY <1>1, <1>2, <1>3, FeedInvariant, PTL DEF Spec, NothingStaleDelivered

(***************************************************************************)
(* The signals                                                             *)
(***************************************************************************)

\* A delivered candle's signal is the one the longer series gives it.
LEMMA DeliverKeepsSignals ==
    ASSUME closed \in Seq(CandleRecord), NEW candle \in CandleRecord, Deliver(candle),
           LiveSignalsAreBacktestSignals
    PROVE  LiveSignalsAreBacktestSignals'
<1> DEFINE old == [i \in DOMAIN closed |-> closed[i].close]
           all == [i \in DOMAIN closed' |-> closed'[i].close]
<1>1. signals = GenerateSignals(old) /\ signals' = Append(signals, GenerateSignal(all))
    BY DEF LiveSignalsAreBacktestSignals, Deliver
<1>2. /\ closed' \in Seq(CandleRecord) /\ Len(closed') = Len(closed) + 1
      /\ DOMAIN closed = 1..Len(closed) /\ DOMAIN closed' = 1..(Len(closed) + 1)
      /\ \A i \in DOMAIN closed : closed'[i] = closed[i]
    BY DEF Deliver
<1>3. /\ \A i \in DOMAIN closed : closed[i].close \in Int
      /\ \A i \in DOMAIN closed' : closed'[i].close \in Int
    <2>1. \A c \in CandleRecord : c.close \in Int
        BY DEF CandleRecord
    <2>2. /\ \A i \in DOMAIN closed : closed[i] \in CandleRecord
          /\ \A i \in DOMAIN closed' : closed'[i] \in CandleRecord
        BY <1>2
    <2> QED BY <2>1, <2>2
<1>4. /\ old \in Seq(Int) /\ Len(old) = Len(closed)
      /\ all \in Seq(Int) /\ Len(all) = Len(closed) + 1
      /\ \A i \in 1..Len(closed) : old[i] = all[i]
    BY <1>2, <1>3
<1> HIDE DEF old, all
<1>5. all # << >> /\ Len(all) = Len(old) + 1 /\ \A i \in 1..Len(old) : old[i] = all[i]
    BY <1>2, <1>4
<1>6. Append(GenerateSignals(old), GenerateSignal(all)) = GenerateSignals(all)
    BY <1>4, <1>5, SignalOfLastCandle
<1>7. signals' = GenerateSignals(all)
    BY <1>1, <1>6
<1> QED BY <1>7 DEF LiveSignalsAreBacktestSignals, all

LEMMA SignalsStep ==
    FeedInv /\ LiveSignalsAreBacktestSignals /\ [Next]_feedVars => LiveSignalsAreBacktestSignals'
<1> SUFFICES ASSUME FeedInv, LiveSignalsAreBacktestSignals, [Next]_feedVars
             PROVE  LiveSignalsAreBacktestSignals'
    OBVIOUS
<1>1. closed \in Seq(CandleRecord) /\ bar \in CandleRecord
    BY DEF FeedInv, FeedTypeOK
<1>2. CASE UNCHANGED <<closed, signals>>
    BY <1>2 DEF LiveSignalsAreBacktestSignals
<1>3. CASE Tick
    <2>1. PICK tick \in TickRecord :
              CloseCandle(tick) \/ UNCHANGED <<closed, signals>>
        BY <1>3, TickSteps
    <2>2. ASSUME CloseCandle(tick) PROVE Deliver(bar)
        BY <2>2 DEF CloseCandle
    <2> QED BY <1>1, <1>2, <2>1, <2>2, DeliverKeepsSignals
<1>4. CASE NextCandle
    <2>1. ASSUME NEW p \in Prices, ReturnCandle(p) PROVE LiveSignalsAreBacktestSignals'
        <3>1. Flat(Len(closed) + 1, p) \in CandleRecord
            BY <1>1, FeedAssumption DEF Flat, CandleRecord
        <3> QED BY <1>1, <2>1, <3>1, DeliverKeepsSignals DEF ReturnCandle
    <2> QED BY <1>2, <1>4, <2>1, ReplaySteps
<1>5. CASE UNCHANGED feedVars
    BY <1>2, <1>5 DEF feedVars
<1> QED BY <1>3, <1>4, <1>5 DEF Next

\* ema_strategy.py:54: what the engine computes candle by candle is what a backtest
\* computes from the whole series, for every period and warm-up.
THEOREM LiveSignalsMatch == Spec => []LiveSignalsAreBacktestSignals
<1>1. Init => LiveSignalsAreBacktestSignals
    BY DEF Init, LiveSignalsAreBacktestSignals, GenerateSignals
<1> QED BY <1>1, SignalsStep, FeedInvariant, PTL DEF Spec

\* ema_strategy.py:5: a crossover gives one signal; the next is the opposite.
THEOREM SignalsTakeTurns == Spec => []SignalsAlternate
<1>1. FeedInv /\ LiveSignalsAreBacktestSignals => SignalsAlternate
    <2> SUFFICES ASSUME FeedInv, LiveSignalsAreBacktestSignals PROVE SignalsAlternate
        OBVIOUS
    <2>1. closed \in Seq(CandleRecord) /\ \A c \in CandleRecord : c.close \in Int
        BY DEF FeedInv, FeedTypeOK, CandleRecord
    <2> DEFINE all == [i \in DOMAIN closed |-> closed[i].close]
    <2>2. all \in Seq(Int)
        BY <2>1
    <2>3. signals = GenerateSignals(all)
        BY DEF LiveSignalsAreBacktestSignals
    <2> HIDE DEF all
    <2>4. signals \in Seq(SignalNames) /\ Len(signals) = Len(all) /\ Len(all) \in Nat
        BY <2>2, <2>3, SignalsType
    <2> SUFFICES ASSUME NEW i \in DOMAIN signals, NEW j \in DOMAIN signals,
                        i < j, signals[i] # "HOLD", signals[j] # "HOLD",
                        \A k \in (i + 1)..(j - 1) : signals[k] = "HOLD"
                 PROVE  signals[i] # signals[j]
        BY DEF SignalsAlternate
    <2>5. i \in 1..Len(all) /\ j \in (i + 1)..Len(all)
        BY <2>4
    <2> QED BY <2>2, <2>3, <2>5, CrossingsAlternate
<1> QED BY <1>1, LiveSignalsMatch, FeedInvariant, PTL

(***************************************************************************)
(* The volume                                                              *)
(***************************************************************************)

\* The sum VolumeConserved asks for, of the closed candles or of the ticks.
VolumeEquation(g, f) ==
    g = [s \in SUBSET DOMAIN f |->
            IF s = {} THEN 0
                      ELSE f[CHOOSE x \in s : TRUE].volume + g[s \ {CHOOSE x \in s : TRUE}]]

Volume(f) == (CHOOSE g : VolumeEquation(g, f))[DOMAIN f]

LEMMA VolumesConserved ==
    VolumeConserved <=> (source = "ticks" => Volume(closed) + bar.volume = Volume(heard))
BY DEF VolumeConserved, MapThenSumSet, MapThenFoldSet, Volume, VolumeEquation

\* One more element adds its volume.
LEMMA VolumeGrows ==
    ASSUME NEW n \in Nat, NEW f, NEW h, DOMAIN f = 1..n, DOMAIN h = 1..(n + 1),
           \A i \in 1..n : f[i] = h[i], \A i \in 1..(n + 1) : h[i].volume \in Int
    PROVE  Volume(h) = h[n + 1].volume + Volume(f) /\ Volume(f) \in Int
<1> DEFINE v == [i \in 1..(n + 1) |-> h[i].volume]
           old == 1..n  all == 1..(n + 1)
<1>1. PICK G : Adds(G, v, all)
    <2> n + 1 \in Nat /\ \A i \in 1..(n + 1) : v[i] \in Int
        OBVIOUS
    <2> HIDE DEF v
    <2> QED BY SumsExist
<1>2. \A i \in all : v[i] = h[i].volume /\ v[i] \in Int
    OBVIOUS
<1>3. /\ old \subseteq all /\ n + 1 \in all /\ all \ {n + 1} = old
      /\ IsFiniteSet(old) /\ IsFiniteSet(all)
      /\ DOMAIN f = old /\ DOMAIN h = all
    <2>1. old \subseteq all /\ n + 1 \in all /\ all \ {n + 1} = old
        OBVIOUS
    <2>2. IsFiniteSet(old) /\ IsFiniteSet(all)
        BY FS_Interval
    <2> QED BY <2>1, <2>2
<1> DEFINE F == [s \in SUBSET old |-> G[s]]
<1> HIDE DEF v, old, all
<1>4. Adds(F, v, old)
    <2>1. F \in [SUBSET old -> Int] /\ F[{}] = 0
        BY <1>1, <1>3 DEF Adds
    <2>2. ASSUME NEW s \in SUBSET old, NEW x \in s PROVE F[s] = v[x] + F[s \ {x}]
        BY <1>1, <1>3 DEF Adds
    <2> QED BY <2>1, <2>2 DEF Adds
<1>5. \A g : VolumeEquation(g, h) <=> SumEquation(g, v, all)
    <2>1. \A s \in SUBSET all : s # {} => (CHOOSE x \in s : TRUE) \in all
        OBVIOUS
    <2> TAKE g
    <2> DEFINE c(s) == CHOOSE x \in s : TRUE
               hs == [s \in SUBSET all |-> IF s = {} THEN 0 ELSE h[c(s)].volume + g[s \ {c(s)}]]
               vs == [s \in SUBSET all |-> IF s = {} THEN 0 ELSE v[c(s)] + g[s \ {c(s)}]]
    <2>2. \A s \in SUBSET all : hs[s] = vs[s]
        BY <2>1, <1>2
    <2>3. hs = vs
        BY <2>2
    <2> QED BY <2>3, <1>3 DEF VolumeEquation, SumEquation
<1>6. \A g : VolumeEquation(g, f) <=> SumEquation(g, v, old)
    <2>1. \A s \in SUBSET old : s # {} => (CHOOSE x \in s : TRUE) \in old
        OBVIOUS
    <2>2. \A i \in old : f[i].volume = v[i]
        BY <1>2, <1>3 DEF old
    <2> TAKE g
    <2> DEFINE c(s) == CHOOSE x \in s : TRUE
               fs == [s \in SUBSET old |-> IF s = {} THEN 0 ELSE f[c(s)].volume + g[s \ {c(s)}]]
               vs == [s \in SUBSET old |-> IF s = {} THEN 0 ELSE v[c(s)] + g[s \ {c(s)}]]
    <2>3. \A s \in SUBSET old : fs[s] = vs[s]
        BY <2>1, <2>2
    <2>4. fs = vs
        BY <2>3
    <2> QED BY <2>4, <1>3 DEF VolumeEquation, SumEquation
<1>7. (CHOOSE g : VolumeEquation(g, h)) = G
    <2>1. \A g : VolumeEquation(g, h) <=> g = G
        BY <1>1, <1>3, <1>5, SumIsUnique
    <2> QED BY <2>1
<1>8. (CHOOSE g : VolumeEquation(g, f)) = F
    <2> HIDE DEF F
    <2>1. \A g : VolumeEquation(g, f) <=> g = F
        BY <1>3, <1>4, <1>6, SumIsUnique
    <2> QED BY <2>1
<1>9. Volume(h) = G[all] /\ Volume(f) = F[old]
    BY <1>3, <1>7, <1>8 DEF Volume
<1>10. G[all] = v[n + 1] + G[old] /\ F[old] = G[old] /\ G[old] \in Int
    BY <1>1, <1>3 DEF Adds
<1> QED BY <1>2, <1>3, <1>9, <1>10

LEMMA VolumeOfNone == ASSUME NEW f, DOMAIN f = {} PROVE Volume(f) = 0
<1> DEFINE v == [i \in {} |-> 0]  Z == [s \in SUBSET {} |-> 0]
<1>1. Adds(Z, v, {}) /\ IsFiniteSet({})
    BY FS_EmptySet DEF Adds
<1>2. \A g : VolumeEquation(g, f) <=> SumEquation(g, v, {})
    BY DEF VolumeEquation, SumEquation
<1> HIDE DEF v, Z
<1>3. \A g : VolumeEquation(g, f) <=> g = Z
    BY <1>1, <1>2, SumIsUnique
<1>4. (CHOOSE g : VolumeEquation(g, f)) = Z
    BY <1>3
<1> QED BY <1>1, <1>4 DEF Volume, Adds

\* A tick is counted once: in the bar, or in the next after the bar was delivered.
LEMMA VolumeStep == FeedInv /\ VolumeConserved /\ [Next]_feedVars => VolumeConserved'
<1> SUFFICES ASSUME FeedInv, VolumeConserved, [Next]_feedVars PROVE VolumeConserved'
    OBVIOUS
<1> DEFINE Balance == source = "ticks" => Volume(closed) + bar.volume = Volume(heard)
           BalanceNext == source' = "ticks" => Volume(closed') + bar'.volume = Volume(heard')
<1>1. Balance
    BY VolumesConserved
<1>2. SUFFICES BalanceNext
    BY DEF VolumeConserved, MapThenSumSet, MapThenFoldSet, Volume, VolumeEquation
<1>3. CASE Tick
    <2>1. PICK tick \in TickRecord :
              /\ source = "ticks" /\ source' = source
              /\ heard' = Append(heard, tick)
              /\ UNCHANGED replayVars
              /\ \/ bar = NoBar /\ bar' = Opened(tick) /\ UNCHANGED <<closed, signals>>
                 \/ ClosesCandle(tick) /\ CloseCandle(tick)
                 \/ /\ bar # NoBar /\ ~ClosesCandle(tick) /\ bar' = Extended(tick)
                    /\ UNCHANGED <<closed, signals>>
        BY <1>3, TickSteps
    <2>2. /\ heard \in Seq(TickRecord) /\ closed \in Seq(CandleRecord) /\ bar \in CandleRecord
          /\ bar = NoBar => closed = << >> /\ heard = << >>
        BY <2>1 DEF FeedInv, FeedTypeOK, OneFeed
    <2>3. /\ \A c \in CandleRecord : c.volume \in Int
          /\ \A t \in TickRecord : t.volume \in Int
        BY DEF CandleRecord, TickRecord
    <2>4. Volume(heard') = tick.volume + Volume(heard) /\ Volume(heard) \in Int
        <3> DEFINE n == Len(heard)
        <3>1. /\ n \in Nat /\ DOMAIN heard = 1..n /\ DOMAIN heard' = 1..(n + 1)
              /\ \A i \in 1..n : heard[i] = heard'[i]
              /\ heard'[n + 1] = tick
              /\ \A i \in 1..(n + 1) : heard'[i] \in TickRecord
            BY <2>1, <2>2
        <3>2. \A i \in 1..(n + 1) : heard'[i].volume \in Int
            BY <2>3, <3>1
        <3> HIDE DEF n
        <3> QED BY <3>1, <3>2, VolumeGrows
    <2>5. Opened(tick).volume = tick.volume /\ tick.volume \in Int /\ bar.volume \in Int
        BY <2>2, <2>3 DEF Opened
    <2>6. CASE bar = NoBar /\ bar' = Opened(tick) /\ UNCHANGED <<closed, signals>>
        <3>1. Volume(closed) = 0 /\ Volume(heard) = 0
            BY <2>2, <2>6, VolumeOfNone
        <3> QED BY <3>1, <2>4, <2>5, <2>6
    <2>7. CASE ClosesCandle(tick) /\ CloseCandle(tick)
        <3>1. closed' = Append(closed, bar) /\ bar' = Opened(tick)
            BY <2>7 DEF CloseCandle, Deliver
        <3>2. Volume(closed') = bar.volume + Volume(closed) /\ Volume(closed) \in Int
            <4> DEFINE n == Len(closed)
            <4>1. /\ n \in Nat /\ DOMAIN closed = 1..n /\ DOMAIN closed' = 1..(n + 1)
                  /\ \A i \in 1..n : closed[i] = closed'[i]
                  /\ closed'[n + 1] = bar
                  /\ \A i \in 1..(n + 1) : closed'[i] \in CandleRecord
                BY <3>1, <2>2
            <4>2. \A i \in 1..(n + 1) : closed'[i].volume \in Int
                BY <2>3, <4>1
            <4> HIDE DEF n
            <4> QED BY <4>1, <4>2, VolumeGrows
        <3> QED BY <1>1, <2>1, <2>4, <2>5, <3>1, <3>2
    <2>8. CASE bar # NoBar /\ ~ClosesCandle(tick) /\ bar' = Extended(tick)
               /\ UNCHANGED <<closed, signals>>
        <3>1. bar'.volume = bar.volume + tick.volume
            BY <2>2, <2>8 DEF Extended, CandleRecord
        <3>2. Volume(closed) \in Int
            <4> DEFINE n == Len(closed)  h == Append(closed, bar)
            <4>1. /\ n \in Nat /\ DOMAIN closed = 1..n /\ DOMAIN h = 1..(n + 1)
                  /\ \A i \in 1..n : closed[i] = h[i]
                  /\ \A i \in 1..(n + 1) : h[i] \in CandleRecord
                BY <2>2
            <4>2. \A i \in 1..(n + 1) : h[i].volume \in Int
                BY <2>3, <4>1
            <4> HIDE DEF n, h
            <4> QED BY <4>1, <4>2, VolumeGrows
        <3> QED BY <1>1, <2>1, <2>4, <2>5, <2>8, <3>1, <3>2
    <2> QED BY <2>1, <2>6, <2>7, <2>8
<1>4. CASE NextCandle
    BY <1>4, ReplaySteps
<1>5. CASE UNCHANGED feedVars
    BY <1>1, <1>5 DEF feedVars, builderVars
<1> QED BY <1>3, <1>4, <1>5 DEF Next

\* live_data.py:143: no tick is lost or counted twice, however many there are.
THEOREM VolumeAlwaysConserved == Spec => []VolumeConserved
<1>1. Init => VolumeConserved
    <2> SUFFICES ASSUME Init PROVE Volume(closed) + bar.volume = Volume(heard)
        BY VolumesConserved
    <2>1. Volume(closed) = 0 /\ Volume(heard) = 0 /\ bar.volume = 0
        BY VolumeOfNone DEF Init, NoBar
    <2> QED BY <2>1
<1> QED BY <1>1, VolumeStep, FeedInvariant, PTL DEF Spec

(***************************************************************************)
(* What candles are made of                                                *)
(***************************************************************************)
LEMMA TicksAppended ==
    ASSUME NEW h \in Seq(TickRecord), NEW tick \in TickRecord
    PROVE  LET n == Len(h) + 1  more == Append(h, tick) IN
              /\ n \in Nat /\ DOMAIN h = 1..(n - 1)
              /\ DOMAIN more = 1..n /\ DOMAIN more = DOMAIN h \cup {n}
              /\ more[n] = tick /\ \A i \in DOMAIN h : more[i] = h[i] /\ i < n
              /\ \A i \in DOMAIN h : h[i].price \in Int /\ h[i].time \in Nat
              /\ tick.price \in Int /\ tick.time \in Nat
<1>1. \A t \in TickRecord : t.price \in Int /\ t.time \in Nat
    BY DEF TickRecord
<1>2. \A i \in DOMAIN h : h[i] \in TickRecord
    OBVIOUS
<1> QED BY <1>1, <1>2

\* The first tick of a boundary later than all before makes a candle on its own.
LEMMA OpenedIsMade ==
    ASSUME NEW h \in Seq(TickRecord), NEW tick \in TickRecord,
           \A i \in DOMAIN h : Boundary(h[i].time) < Boundary(tick.time)
    PROVE  MadeFrom(Append(h, tick), Opened(tick))
<1> DEFINE n == Len(h) + 1  more == Append(h, tick)  c == Opened(tick)
<1>1. /\ DOMAIN more = DOMAIN h \cup {n} /\ more[n] = tick /\ n \in Nat
      /\ \A i \in DOMAIN h : more[i] = h[i]
      /\ tick.price \in Int
    BY TicksAppended
<1>2. /\ c.time = Boundary(tick.time) /\ c.open = tick.price /\ c.close = tick.price
      /\ c.high = tick.price /\ c.low = tick.price
    BY DEF Opened
<1>3. /\ DOMAIN h = 1..(n - 1) /\ DOMAIN more = 1..n
      /\ \A i \in DOMAIN h : h[i].time \in Nat
    BY TicksAppended
<1>4. \A i \in DOMAIN h : Boundary(h[i].time) \in Nat /\ Boundary(h[i].time) < c.time
    BY <1>2, <1>3, BoundaryType
<1>5. Boundary(more[n].time) = c.time /\ c.time \in Nat
    <2>1. tick.time \in Nat
        BY DEF TickRecord
    <2> QED BY <2>1, <1>1, <1>2, BoundaryType
<1> HIDE DEF n, more, c
<1>6. Own(more, c) = {n}
    <2>1. \A i \in DOMAIN h : \A j \in 1..i : Boundary(more[j].time) # c.time
        BY <1>1, <1>3, <1>4
    <2>2. n \in 1..n /\ \A j \in DOMAIN more : j = n \/ (j \in DOMAIN h /\ more[j] = h[j])
        BY <1>1, <1>3
    <2>3. n \in 1..n /\ \A j \in 1..n : Boundary(more[j].time) <= c.time
        BY <2>2, <1>3, <1>4, <1>5
    <2> QED BY <2>1, <2>3, <1>1, <1>5 DEF Own
<1> QED BY <1>1, <1>2, <1>6 DEF MadeFrom, more, c

\* Once a later boundary is reached, a tick changes nothing about a candle.
LEMMA OtherTicksKeep ==
    ASSUME NEW h \in Seq(TickRecord), NEW tick \in TickRecord,
           NEW c, c.time \in Int, MadeFrom(h, c),
           NEW latest, IsReached(Append(h, tick), latest), c.time < latest
    PROVE  MadeFrom(Append(h, tick), c)
<1> DEFINE n == Len(h) + 1  more == Append(h, tick)
<1>1. /\ DOMAIN h = 1..(n - 1) /\ n \in Nat
      /\ DOMAIN more = 1..n /\ DOMAIN more = DOMAIN h \cup {n} /\ more[n] = tick
      /\ \A i \in DOMAIN h : more[i] = h[i]
      /\ \A i \in DOMAIN h : h[i].time \in Nat
      /\ tick.time \in Nat
    BY TicksAppended
<1> HIDE DEF n, more
<1>2. Own(more, c) = Own(h, c) /\ \A i \in Own(h, c) : more[i] = h[i]
    <2>1. \A j \in 1..n : more[j].time \in Nat
        BY <1>1
    <2>2. \A j \in 1..n : Boundary(more[j].time) \in Nat
        BY <2>1, BoundaryType
    <2>3. \E j \in 1..n : Boundary(more[j].time) > c.time
        <3>1. PICK j \in DOMAIN more : Boundary(more[j].time) = latest
            BY DEF IsReached, more
        <3>2. j \in 1..n
            BY <1>1
        <3> QED BY <2>2, <3>1, <3>2
    <2>4. n \notin Own(more, c)
        BY <2>2, <2>3 DEF Own
    <2>5. \A i \in DOMAIN h : \A j \in 1..i : more[j] = h[j]
        BY <1>1
    <2> QED BY <2>4, <2>5, <1>1 DEF Own
<1>3. PICK first \in Own(h, c), last \in Own(h, c) :
          /\ \A i \in Own(h, c) : first <= i /\ i <= last
          /\ c.open = h[first].price /\ c.close = h[last].price
    BY DEF MadeFrom
<1>4. PICK top \in Own(h, c), bottom \in Own(h, c) :
          /\ \A i \in Own(h, c) : h[bottom].price <= h[i].price /\ h[i].price <= h[top].price
          /\ c.high = h[top].price /\ c.low = h[bottom].price
    BY DEF MadeFrom
<1>5. \E f, l \in Own(more, c) :
          /\ \A i \in Own(more, c) : f <= i /\ i <= l
          /\ c.open = more[f].price /\ c.close = more[l].price
    BY <1>2, <1>3
<1>6. \E t, b \in Own(more, c) :
          /\ \A i \in Own(more, c) : more[b].price <= more[i].price /\ more[i].price <= more[t].price
          /\ c.high = more[t].price /\ c.low = more[b].price
    <2>1. top \in Own(more, c) /\ bottom \in Own(more, c)
        BY <1>2
    <2>2. \A i \in Own(more, c) : more[bottom].price <= more[i].price
                                 /\ more[i].price <= more[top].price
        BY <1>2, <1>4
    <2>3. c.high = more[top].price /\ c.low = more[bottom].price
        BY <1>2, <1>4
    <2> QED BY <2>1, <2>2, <2>3
<1> QED BY <1>5, <1>6 DEF MadeFrom, more

\* One more tick, of its boundary or late, is its last price, and perhaps an extreme.
LEMMA ExtendedIsMade ==
    ASSUME bar \in CandleRecord,
           NEW h \in Seq(TickRecord), NEW tick \in TickRecord, MadeFrom(h, bar),
           IsReached(h, bar.time), Boundary(tick.time) <= bar.time
    PROVE  MadeFrom(Append(h, tick), Extended(tick))
<1> DEFINE n == Len(h) + 1  more == Append(h, tick)  c == Extended(tick)
<1>1. /\ DOMAIN more = DOMAIN h \cup {n} /\ more[n] = tick /\ n \in Nat
      /\ \A i \in DOMAIN h : more[i] = h[i] /\ i < n /\ h[i].price \in Int /\ i \in Nat
      /\ tick.price \in Int
    BY TicksAppended
<1>2. bar.high \in Int /\ bar.low \in Int
    BY DEF CandleRecord
<1>3. /\ c.time = bar.time /\ c.open = bar.open /\ c.close = tick.price
      /\ c.high = IF bar.high >= tick.price THEN bar.high ELSE tick.price
      /\ c.low = IF bar.low <= tick.price THEN bar.low ELSE tick.price
    <2>1. /\ c.time = bar.time /\ c.open = bar.open /\ c.close = tick.price
          /\ c.high = Max({bar.high, tick.price}) /\ c.low = Min({bar.low, tick.price})
        BY DEF Extended, CandleRecord
    <2> HIDE DEF c
    <2> QED BY <2>1, <1>1, <1>2, ExtremesOfTwo
<1>4. DOMAIN h = 1..(n - 1)
    BY TicksAppended
<1> HIDE DEF n, more, c
<1>5. Own(more, c) = Own(h, bar) \cup {n} /\ Own(h, bar) \subseteq DOMAIN h
    <2>1. \A i \in DOMAIN h : \A j \in 1..i : more[j] = h[j]
        BY <1>1, <1>4
    <2>2. \A j \in 1..n : Boundary(more[j].time) <= bar.time
        BY <1>1, <1>4 DEF IsReached
    <2>3. \E j \in 1..n : Boundary(more[j].time) = bar.time
        BY <1>1, <1>4 DEF IsReached
    <2> QED BY <2>1, <2>2, <2>3, <1>1, <1>3, <1>4 DEF Own
<1>6. \E first, last \in Own(more, c) :
          /\ \A i \in Own(more, c) : first <= i /\ i <= last
          /\ c.open = more[first].price /\ c.close = more[last].price
    <2>1. PICK first \in Own(h, bar) :
              (\A i \in Own(h, bar) : first <= i) /\ bar.open = h[first].price
        BY DEF MadeFrom
    <2>2. \A i \in Own(more, c) : first <= i /\ i <= n
        BY <2>1, <1>1, <1>5
    <2>3. c.open = more[first].price /\ c.close = more[n].price
        BY <2>1, <1>1, <1>3, <1>5
    <2> QED BY <2>1, <2>2, <2>3, <1>5
<1>7. \E top, bottom \in Own(more, c) :
          /\ \A i \in Own(more, c) : more[bottom].price <= more[i].price
                                     /\ more[i].price <= more[top].price
          /\ c.high = more[top].price /\ c.low = more[bottom].price
    <2>1. PICK top \in Own(h, bar), bottom \in Own(h, bar) :
              /\ \A i \in Own(h, bar) : h[bottom].price <= h[i].price /\ h[i].price <= h[top].price
              /\ bar.high = h[top].price /\ bar.low = h[bottom].price
        BY DEF MadeFrom
    <2> DEFINE t == IF bar.high >= tick.price THEN top ELSE n
               b == IF bar.low <= tick.price THEN bottom ELSE n
    <2>2. t \in Own(more, c) /\ b \in Own(more, c)
        BY <1>5
    <2>3. c.high = more[t].price /\ c.low = more[b].price
        BY <2>1, <1>1, <1>3, <1>5
    <2>4. c.high >= tick.price /\ c.high >= bar.high /\ c.low <= tick.price /\ c.low <= bar.low
        BY <1>1, <1>2, <1>3
    <2>5. c.high \in Int /\ c.low \in Int
        BY <1>1, <1>2, <1>3
    <2>6. \A i \in Own(more, c) : c.low <= more[i].price /\ more[i].price <= c.high
        BY <2>1, <2>4, <2>5, <1>1, <1>2, <1>5
    <2> HIDE DEF t, b
    <2> QED BY <2>2, <2>3, <2>6
<1> QED BY <1>6, <1>7 DEF MadeFrom, more, c

\* A tick reaches its own boundary, or leaves the latest one where it was.
LEMMA ReachedByTick ==
    ASSUME NEW h \in Seq(TickRecord), NEW tick \in TickRecord,
           NEW t \in Int, \A j \in DOMAIN h : Boundary(h[j].time) <= t,
           Boundary(tick.time) <= t,
           Boundary(tick.time) = t \/ \E j \in DOMAIN h : Boundary(h[j].time) = t
    PROVE  IsReached(Append(h, tick), t)
<1> DEFINE n == Len(h) + 1  more == Append(h, tick)
<1>1. /\ DOMAIN more = DOMAIN h \cup {n} /\ more[n] = tick
      /\ \A i \in DOMAIN h : more[i] = h[i]
    BY TicksAppended
<1> HIDE DEF n, more
<1> QED BY <1>1 DEF IsReached, more

\* A tick belongs to the bar, late or not, or opens the next.
LEMMA BuiltStep == FeedInv /\ Built /\ [Next]_feedVars => Built'
<1> SUFFICES ASSUME FeedInv, Built, [Next]_feedVars PROVE Built'
    OBVIOUS
<1>1. CASE Tick
    <2>1. PICK tick \in TickRecord :
              /\ source = "ticks" /\ source' = source
              /\ heard' = Append(heard, tick)
              /\ UNCHANGED replayVars
              /\ \/ bar = NoBar /\ bar' = Opened(tick) /\ UNCHANGED <<closed, signals>>
                 \/ ClosesCandle(tick) /\ CloseCandle(tick)
                 \/ /\ bar # NoBar /\ ~ClosesCandle(tick) /\ bar' = Extended(tick)
                    /\ UNCHANGED <<closed, signals>>
        BY <1>1, TickSteps
    <2> SUFFICES /\ \A i \in DOMAIN closed' : MadeFrom(heard', closed'[i])
                 /\ bar' # NoBar => MadeFrom(heard', bar') /\ IsReached(heard', bar'.time)
        BY DEF Built, MadeOf
    <2>2. /\ heard \in Seq(TickRecord) /\ closed \in Seq(CandleRecord) /\ bar \in CandleRecord
          /\ bar = NoBar => closed = << >> /\ heard = << >>
          /\ bar # NoBar => \A i \in DOMAIN closed : closed[i].time < bar.time
        BY <2>1 DEF FeedInv, FeedTypeOK, OneFeed, CandlesInOrder
    <2>3. Boundary(tick.time) \in Nat /\ \A i \in DOMAIN heard : Boundary(heard[i].time) \in Nat
        BY <2>2, TicksAppended, BoundaryType
    <2>4. bar.time \in Int
        BY <2>2 DEF CandleRecord
    <2>5. \A i \in DOMAIN closed : MadeFrom(heard, closed[i]) /\ closed[i].time \in Int
        <3>1. \A i \in DOMAIN closed : MadeFrom(heard, closed[i])
            BY <2>1 DEF Built, MadeOf
        <3>2. \A i \in DOMAIN closed : closed[i] \in CandleRecord
            BY <2>2
        <3> QED BY <3>1, <3>2 DEF CandleRecord
    <2>6. bar # NoBar => MadeFrom(heard, bar) /\ IsReached(heard, bar.time)
        BY <2>1 DEF Built, MadeOf
    <2>7. Opened(tick).time = Boundary(tick.time)
        BY DEF Opened
    <2>8. CASE bar = NoBar /\ bar' = Opened(tick) /\ UNCHANGED <<closed, signals>>
        <3>1. heard = << >> /\ closed' = << >> /\ bar' = Opened(tick)
            BY <2>2, <2>8
        <3>2. \A i \in DOMAIN heard : Boundary(heard[i].time) < Boundary(tick.time)
            BY <3>1
        <3>3. MadeFrom(heard', bar')
            BY <2>1, <2>2, <3>1, <3>2, OpenedIsMade
        <3>4. IsReached(heard', Boundary(tick.time))
            <4>1. \A i \in DOMAIN heard : Boundary(heard[i].time) <= Boundary(tick.time)
                BY <3>1
            <4> QED BY <2>1, <2>2, <2>3, <4>1, ReachedByTick
        <3> QED BY <2>7, <3>1, <3>3, <3>4
    <2>9. CASE ClosesCandle(tick) /\ CloseCandle(tick)
        <3>1. /\ bar # NoBar /\ Boundary(tick.time) > bar.time
              /\ bar' = Opened(tick) /\ closed' = Append(closed, bar)
            BY <2>9 DEF ClosesCandle, CloseCandle, Deliver
        <3>2. \A i \in DOMAIN heard : Boundary(heard[i].time) < Boundary(tick.time)
            BY <2>3, <2>4, <2>6, <3>1 DEF IsReached
        <3>3. MadeFrom(heard', bar')
            BY <2>1, <2>2, <3>1, <3>2, OpenedIsMade
        <3>4. IsReached(heard', Boundary(tick.time))
            <4>1. \A i \in DOMAIN heard : Boundary(heard[i].time) <= Boundary(tick.time)
                BY <2>3, <3>2
            <4> QED BY <2>1, <2>2, <2>3, <4>1, ReachedByTick
        <3>5. MadeFrom(heard', bar)
            <4>1. bar.time < Boundary(tick.time)
                BY <2>3, <2>4, <3>1
            <4> QED BY <2>1, <2>2, <2>4, <2>6, <3>1, <3>4, <4>1, OtherTicksKeep
        <3>6. \A i \in DOMAIN closed : MadeFrom(heard', closed[i])
            <4>1. \A i \in DOMAIN closed : closed[i].time < Boundary(tick.time)
                BY <2>2, <2>3, <2>4, <2>5, <3>1
            <4> QED BY <2>1, <2>2, <2>5, <3>4, <4>1, OtherTicksKeep
        <3>7. \A i \in DOMAIN closed' : closed'[i] = bar \/ \E j \in DOMAIN closed : closed'[i] = closed[j]
            BY <3>1, <2>2
        <3> QED BY <2>7, <3>1, <3>3, <3>4, <3>5, <3>6, <3>7
    <2>10. CASE bar # NoBar /\ ~ClosesCandle(tick) /\ bar' = Extended(tick)
                /\ UNCHANGED <<closed, signals>>
        <3>1. Boundary(tick.time) <= bar.time
            BY <2>3, <2>4, <2>10 DEF ClosesCandle
        <3>2. bar'.time = bar.time
            BY <2>2, <2>10 DEF Extended, CandleRecord
        <3>3. MadeFrom(heard', bar')
            BY <2>1, <2>2, <2>6, <2>10, <3>1, ExtendedIsMade
        <3>4. IsReached(heard', bar.time)
            <4>1. /\ \A j \in DOMAIN heard : Boundary(heard[j].time) <= bar.time
                  /\ \E j \in DOMAIN heard : Boundary(heard[j].time) = bar.time
                BY <2>6, <2>10 DEF IsReached
            <4> QED BY <2>1, <2>2, <2>4, <3>1, <4>1, ReachedByTick
        <3>5. \A i \in DOMAIN closed : MadeFrom(heard', closed[i])
            BY <2>1, <2>2, <2>5, <2>10, <3>4, OtherTicksKeep
        <3> QED BY <2>10, <3>2, <3>3, <3>4, <3>5
    <2> QED BY <2>1, <2>8, <2>9, <2>10
<1>2. CASE NextCandle
    BY <1>2, ReplaySteps DEF Built
<1>3. CASE UNCHANGED feedVars
    BY <1>3 DEF feedVars, builderVars, Built, MadeOf
<1> QED BY <1>1, <1>2, <1>3 DEF Next

\* live_data.py:96 and 120: whatever ticks come, and however late, a closed candle is
\* made of those that arrived while its boundary was the latest one reached, and of all
\* of them, for every timeframe, also one that does not divide the hour.
THEOREM CandlesAlwaysSumUp == Spec => []CandlesSumUpTheirTicks
<1>1. FeedInv /\ Built => CandlesSumUpTheirTicks
    BY MadeOfSumsUp DEF FeedInv, Built, CandlesSumUpTheirTicks
<1>2. Init => Built
    BY FeedInit
<1> QED BY <1>1, <1>2, BuiltStep, FeedInvariant, PTL DEF Spec

==============================================================================
