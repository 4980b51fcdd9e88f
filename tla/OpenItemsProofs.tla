--------------------------- MODULE OpenItemsProofs ---------------------------
(***************************************************************************)
(* Proofs about OpenItems: the trigger on residuals never refuses, the     *)
(* aged report of any day totals the balance of that day, and what a       *)
(* document shows as paid is explained by what settled it, for any         *)
(* currencies, rates, days, lines, amounts and matches; and every step is  *)
(* one of the abstract account.                                            *)
(***************************************************************************)
EXTENDS OpenItems, SumProofs, TLAPS

-----------------------------------------------------------------------------
(* Division.                                                               *)

LEMMA Divided ==
  ASSUME NEW a \in Int, NEW b \in Nat \ {0}
  PROVE  a \div b \in Int /\ b * (a \div b) <= a /\ a < b * (a \div b) + b
  OBVIOUS

LEMMA ProductInt ==
  ASSUME NEW a \in Int, NEW b \in Int
  PROVE  a * b \in Int
  OBVIOUS

LEMMA PositiveProduct ==
  ASSUME NEW a \in Nat \ {0}, NEW b \in Nat \ {0}
  PROVE  a * b \in Nat \ {0}
  OBVIOUS

LEMMA Quotient ==
  ASSUME NEW a \in Int, NEW b \in Nat \ {0}, NEW n \in Int, a < b * (n + 1)
  PROVE  a \div b <= n
  <1> PICK q : q = a \div b
    OBVIOUS
  <1>1. q \in Int /\ b * q <= a
    BY Divided
  <1>2. SUFFICES ASSUME q >= n + 1 PROVE FALSE
    BY <1>1
  <1>3. b * q >= b * (n + 1)
    BY <1>1, <1>2
  <1>4. b * q \in Int /\ b * (n + 1) \in Int
    BY <1>1
  <1>5. QED
    BY <1>1, <1>3, <1>4

LEMMA QuotientLeast ==
  ASSUME NEW a \in Int, NEW b \in Nat \ {0}, NEW n \in Int, b * n <= a
  PROVE  n <= a \div b
  <1> PICK q : q = a \div b
    OBVIOUS
  <1>1. q \in Int /\ a < b * q + b
    BY Divided
  <1>2. SUFFICES ASSUME q + 1 <= n PROVE FALSE
    BY <1>1
  <1>3. b * (q + 1) <= b * n
    BY <1>1, <1>2
  <1>4. b * (q + 1) = b * q + b
    BY <1>1
  <1>5. b * q \in Int /\ b * n \in Int
    BY <1>1
  <1>6. QED
    BY <1>1, <1>3, <1>4, <1>5
-----------------------------------------------------------------------------
(* Shares.                                                                 *)

LEMMA RoundedInt ==
  ASSUME NEW amount \in Int, NEW per \in Nat \ {0}, NEW unit \in Nat \ {0}
  PROVE  Rounded(amount, per, unit) \in Int
  <1>1. per * unit \in Nat \ {0} /\ 2 * per * unit \in Nat \ {0}
    BY PositiveProduct
  <1> PICK x : x = 2 * amount + per * unit
    OBVIOUS
  <1> PICK y : y = 2 * per * unit
    OBVIOUS
  <1>2. x \in Int /\ y \in Nat \ {0}
    BY <1>1
  <1> PICK q : q = x \div y
    OBVIOUS
  <1>3. q \in Int
    BY <1>2, Divided
  <1>4. q * unit \in Int
    BY <1>3, ProductInt
  <1>5. QED
    BY <1>4 DEF Rounded

(* A share is no more than there is.                                       *)
LEMMA ShareFits ==
  ASSUME NEW of \in Nat, NEW take \in Nat \ {0}, take <= of, NEW other \in Nat
  PROVE  Share(take, of, other) \in Nat /\ Share(take, of, other) <= other
  <1>1. CASE take = of
    BY <1>1 DEF Share
  <1>2. CASE take # of
    <2> PICK x : x = 2 * (other * take) + of * 1
      OBVIOUS
    <2> PICK p : p = other * take
      OBVIOUS
    <2>1. p \in Int /\ 0 <= p
      OBVIOUS
    <2>2. x = 2 * p + of /\ x \in Int /\ 2 * of \in Nat \ {0}
      BY <1>2, <2>1
    <2>3. p <= other * (of - 1)
      BY <1>2
    <2>4. other * (of - 1) = other * of - other /\ other * of \in Int
      OBVIOUS
    <2>5. x < (2 * of) * (other + 1)
      <3>1. (2 * of) * (other + 1) = 2 * (other * of) + 2 * of
        OBVIOUS
      <3>2. QED
        BY <1>2, <2>1, <2>2, <2>3, <2>4, <3>1
    <2>6. (2 * of) * 0 <= x
      BY <2>1, <2>2
    <2>7. x \div (2 * of) <= other /\ 0 <= x \div (2 * of)
      BY <2>2, <2>5, <2>6, Quotient, QuotientLeast
    <2>8. x \div (2 * of) \in Int
      BY <2>2, Divided
    <2>9. Share(take, of, other) = (x \div (2 * of)) * 1
      BY <1>2 DEF Share, Rounded
    <2>10. QED
      BY <2>7, <2>8, <2>9
  <1>3. QED
    BY <1>1, <1>2

LEMMA ShareAlike ==
  ASSUME NEW of \in Nat, NEW take \in Nat \ {0}, take <= of
  PROVE  Share(take, of, of) = take
  <1>1. CASE take = of
    BY <1>1 DEF Share
  <1>2. CASE take # of
    <2> PICK x : x = 2 * (of * take) + of * 1
      OBVIOUS
    <2>1. x = (2 * of) * take + of /\ x \in Int /\ 2 * of \in Nat \ {0}
      OBVIOUS
    <2>2. x < (2 * of) * (take + 1)
      <3>1. (2 * of) * (take + 1) = (2 * of) * take + 2 * of /\ (2 * of) * take \in Int
        OBVIOUS
      <3>2. QED
        BY <2>1, <3>1
    <2>3. (2 * of) * take <= x
      BY <2>1
    <2>4. x \div (2 * of) <= take /\ take <= x \div (2 * of)
      BY <2>1, <2>2, <2>3, Quotient, QuotientLeast
    <2>5. x \div (2 * of) \in Int
      BY <2>1, Divided
    <2>6. Share(take, of, of) = (x \div (2 * of)) * 1
      BY <1>2 DEF Share, Rounded
    <2>7. QED
      BY <2>4, <2>5, <2>6
  <1>3. QED
    BY <1>1, <1>2

-----------------------------------------------------------------------------
(* What matches have taken.                                                *)

LEMMA TakenType ==
  ASSUME NEW m \in MatchRows, NEW l
  PROVE  /\ TakenFrom(m, l).amount \in Nat \ {0} /\ TakenFrom(m, l).currency \in Nat
         /\ TakenFrom(m, l).amount \in Int /\ TakenFrom(m, l).currency \in Int
  BY DEF MatchRows, Takings, TakenFrom

LEMMA TakenNat ==
  ASSUME NEW ms \in SUBSET MatchRows, IsFiniteSet(ms), NEW l
  PROVE  AmountTaken(l, ms) \in Nat /\ CurrencyTaken(l, ms) \in Nat
  <1> PICK f : f = [m \in ms |-> TakenFrom(m, l).amount]
    OBVIOUS
  <1> PICK g : g = [m \in ms |-> TakenFrom(m, l).currency]
    OBVIOUS
  <1>1. \A m \in ms : f[m] \in Nat /\ g[m] \in Nat
    BY TakenType
  <1>2. SumFunctionOnSet(f, ms) \in Nat /\ SumFunctionOnSet(g, ms) \in Nat
    BY <1>1, SumNat
  <1>3. QED
    BY <1>2 DEF AmountTaken, CurrencyTaken

(* Of some of the matches a function is given for.                         *)
LEMMA TakenOver ==
  ASSUME NEW ms \in SUBSET MatchRows, IsFiniteSet(ms), NEW l, NEW f, f = [m \in ms |-> TakenFrom(m, l).amount],
         NEW T \in SUBSET ms
  PROVE  AmountTaken(l, T) = SumFunctionOnSet(f, T)
  <1>1. PICK g : g = [m \in T |-> TakenFrom(m, l).amount]
    OBVIOUS
  <1>2. IsFiniteSet(T) /\ \A m \in T : g[m] = f[m]
    BY <1>1, FS_Subset
  <1>3. SumFunctionOnSet(g, T) = SumFunctionOnSet(f, T)
    BY <1>2, SumSame
  <1>4. QED
    BY <1>1, <1>3 DEF AmountTaken

LEMMA TakenNone ==
  ASSUME NEW l
  PROVE  AmountTaken(l, {}) = 0 /\ CurrencyTaken(l, {}) = 0
  BY SumEmpty DEF AmountTaken, CurrencyTaken

LEMMA TakenMore ==
  ASSUME NEW ms \in SUBSET MatchRows, IsFiniteSet(ms), NEW m \in MatchRows, m \notin ms, NEW l
  PROVE  /\ AmountTaken(l, ms \cup {m}) = AmountTaken(l, ms) + TakenFrom(m, l).amount
         /\ CurrencyTaken(l, ms \cup {m}) = CurrencyTaken(l, ms) + TakenFrom(m, l).currency
  <1>1. AmountTaken(l, ms \cup {m}) = AmountTaken(l, ms) + TakenFrom(m, l).amount
    <2> PICK f : f = [n \in ms |-> TakenFrom(n, l).amount]
      OBVIOUS
    <2> PICK g : g = [n \in ms \cup {m} |-> TakenFrom(n, l).amount]
      OBVIOUS
    <2>1. IntOn(f, ms) /\ g[m] \in Int /\ \A n \in ms : g[n] = f[n]
      BY TakenType DEF IntOn
    <2>2. SumFunctionOnSet(g, ms \cup {m}) = SumFunctionOnSet(f, ms) + g[m]
      BY <2>1, SumJoined
    <2>3. QED
      BY <2>2 DEF AmountTaken
  <1>2. CurrencyTaken(l, ms \cup {m}) = CurrencyTaken(l, ms) + TakenFrom(m, l).currency
    <2> PICK f : f = [n \in ms |-> TakenFrom(n, l).currency]
      OBVIOUS
    <2> PICK g : g = [n \in ms \cup {m} |-> TakenFrom(n, l).currency]
      OBVIOUS
    <2>1. IntOn(f, ms) /\ g[m] \in Int /\ \A n \in ms : g[n] = f[n]
      BY TakenType DEF IntOn
    <2>2. SumFunctionOnSet(g, ms \cup {m}) = SumFunctionOnSet(f, ms) + g[m]
      BY <2>1, SumJoined
    <2>3. QED
      BY <2>2 DEF CurrencyTaken
  <1>3. QED
    BY <1>1, <1>2

(* Nothing was taken from a line exactly when it has no matches.           *)
LEMMA TakenSome ==
  ASSUME NEW ms \in SUBSET MatchRows, IsFiniteSet(ms), NEW l
  PROVE  AmountTaken(l, ms) = 0 <=> ms = {}
  <1>1. ASSUME NEW m \in ms PROVE AmountTaken(l, ms) # 0
    <2> PICK rest : rest = ms \ {m}
      OBVIOUS
    <2>1. rest \in SUBSET MatchRows /\ IsFiniteSet(rest) /\ m \notin rest /\ rest \cup {m} = ms
      BY FS_Subset
    <2>2. AmountTaken(l, ms) = AmountTaken(l, rest) + TakenFrom(m, l).amount
      BY <2>1, TakenMore
    <2>3. AmountTaken(l, rest) \in Nat
      BY <2>1, TakenNat
    <2>4. TakenFrom(m, l).amount \in Nat \ {0}
      BY TakenType
    <2>5. QED
      BY <2>2, <2>3, <2>4
  <1>2. QED
    BY <1>1, TakenNone

-----------------------------------------------------------------------------
(* What the report of a day rebuilds, of any lines and matches.            *)

UntilIn(ls, on) == {l \in DOMAIN ls : ls[l].day <= on}

MatchedIn(ls, ms, l, on) ==
  {m \in {m \in ms : l \in {m.debit, m.credit}} : ls[Across(m, l)].day <= on}

OpenIn(ls, ms, l, on) == ls[l].amount - AmountTaken(l, MatchedIn(ls, ms, l, on))

RebuiltIn(ls, ms, on) ==
  SumFunctionOnSet([l \in UntilIn(ls, on) |-> Signed(ls[l], OpenIn(ls, ms, l, on))], UntilIn(ls, on))

BookedIn(ls, on) ==
  SumFunctionOnSet([l \in UntilIn(ls, on) |-> Signed(ls[l], ls[l].amount)], UntilIn(ls, on))

DifferencesIn(ds, on) == SumFunctionOnSet(ds, {day \in Days : day <= on})

LEMMA Rebuilt ==
  RebuiltIsBalance <=> \A on \in Days \cup {Today} :
    RebuiltIn(lines, matches, on) = BookedIn(lines, on) + DifferencesIn(differences, on)
  BY DEF RebuiltIsBalance, RebuiltIn, BookedIn, DifferencesIn, Balance, OpenIn, MatchedIn, UntilIn,
         OpenAsOf, Until, MatchesOf

LEMMA LineType ==
  ASSUME NEW ls \in Seq(OpenLines), NEW l \in DOMAIN ls
  PROVE  /\ ls[l] \in OpenLines /\ ls[l].day \in Days /\ ls[l].day \in Nat /\ ls[l].side \in Sides
         /\ ls[l].amount \in Nat \ {0} /\ ls[l].amountCurrency \in Nat \ {0}
         /\ ls[l].residual \in Int /\ ls[l].residualCurrency \in Int
         /\ ls[l].currency \in Currencies
  <1>1. ls[l] \in OpenLines
    OBVIOUS
  <1>2. QED
    BY <1>1, OpenItemsAssumption DEF OpenLines

LEMMA UntilFinite ==
  ASSUME NEW ls \in Seq(OpenLines), NEW on
  PROVE  IsFiniteSet(UntilIn(ls, on)) /\ \A l \in UntilIn(ls, on) : l \in DOMAIN ls
  <1>1. DOMAIN ls = 1 .. Len(ls) /\ Len(ls) \in Nat
    OBVIOUS
  <1>2. IsFiniteSet(1 .. Len(ls))
    BY <1>1, FS_Interval
  <1>3. QED
    BY <1>1, <1>2, FS_Subset DEF UntilIn

LEMMA OpenInInt ==
  ASSUME NEW ls \in Seq(OpenLines), NEW ms \in SUBSET MatchRows, IsFiniteSet(ms),
         NEW l \in DOMAIN ls, NEW on
  PROVE  OpenIn(ls, ms, l, on) \in Int /\ Signed(ls[l], OpenIn(ls, ms, l, on)) \in Int
  <1> PICK ns : ns = MatchedIn(ls, ms, l, on)
    OBVIOUS
  <1>1. ns \in SUBSET MatchRows /\ IsFiniteSet(ns)
    BY FS_Subset DEF MatchedIn
  <1>2. AmountTaken(l, ns) \in Nat
    BY <1>1, TakenNat
  <1>3. ls[l].amount \in Nat
    BY LineType
  <1>4. QED
    BY <1>2, <1>3 DEF OpenIn, Signed

(* A match moves what its sides are apart, from the later day on.          *)
LEMMA MatchMoves ==
  ASSUME NEW ls \in Seq(OpenLines), NEW ms \in SUBSET MatchRows, IsFiniteSet(ms), NEW on \in Nat,
         NEW m \in MatchRows, m \notin ms,
         m.debit \in DOMAIN ls, ls[m.debit].side = "debit",
         m.credit \in DOMAIN ls, ls[m.credit].side = "credit",
         m.day = Max({ls[m.debit].day, ls[m.credit].day}),
         m.gap = m.creditTaken.amount - m.debitTaken.amount
  PROVE  RebuiltIn(ls, ms \cup {m}, on) = RebuiltIn(ls, ms, on) + (IF m.day <= on THEN m.gap ELSE 0)
  <1> PICK d : d = m.debit
    OBVIOUS
  <1> PICK c : c = m.credit
    OBVIOUS
  <1>s. PICK S : S = UntilIn(ls, on)
    OBVIOUS
  <1>f. PICK f : f = [l \in S |-> Signed(ls[l], OpenIn(ls, ms, l, on))]
    OBVIOUS
  <1>g. PICK g : g = [l \in S |-> Signed(ls[l], OpenIn(ls, ms \cup {m}, l, on))]
    OBVIOUS
  <1>1. RebuiltIn(ls, ms, on) = SumFunctionOnSet(f, S) /\ RebuiltIn(ls, ms \cup {m}, on) = SumFunctionOnSet(g, S)
    BY <1>s, <1>f, <1>g DEF RebuiltIn
  <1>2. IsFiniteSet(S) /\ IntOn(f, S)
    BY <1>s, <1>f, UntilFinite, OpenInInt DEF IntOn
  <1>3. d # c /\ ls[d].day \in Nat /\ ls[c].day \in Nat /\ d \in DOMAIN ls /\ c \in DOMAIN ls
    <2>1. ls[d].side # ls[c].side
      OBVIOUS
    <2>2. QED
      BY <2>1, LineType
  <1>4. m.day \in Nat /\ ls[d].day <= m.day /\ ls[c].day <= m.day /\ (m.day = ls[d].day \/ m.day = ls[c].day)
    <2>1. \E x \in {ls[d].day, ls[c].day} : \A y \in {ls[d].day, ls[c].day} : x >= y
      BY <1>3
    <2>2. QED
      BY <1>3, <2>1 DEF Max
  <1>5. m.debitTaken.amount \in Nat /\ m.creditTaken.amount \in Nat /\ TakenFrom(m, d) = m.debitTaken /\ TakenFrom(m, c) = m.creditTaken
    BY <1>3 DEF MatchRows, Takings, TakenFrom
  <1>6. Across(m, d) = c /\ Across(m, c) = d
    BY <1>3 DEF Across
  <1>7. \A l \in S : ~(l \in {d, c}) \/ ~(ls[Across(m, l)].day <= on) => g[l] = f[l]
    <2>1. SUFFICES ASSUME NEW l \in S, ~(l \in {d, c}) \/ ~(ls[Across(m, l)].day <= on)
                   PROVE  MatchedIn(ls, ms \cup {m}, l, on) = MatchedIn(ls, ms, l, on)
      BY <1>f, <1>g DEF OpenIn
    <2>2. QED
      BY <2>1 DEF MatchedIn
  <1>8. \A l \in S : l \in {d, c} /\ ls[Across(m, l)].day <= on =>
          OpenIn(ls, ms \cup {m}, l, on) = OpenIn(ls, ms, l, on) - TakenFrom(m, l).amount
    <2>1. SUFFICES ASSUME NEW l \in S, l \in {d, c}, ls[Across(m, l)].day <= on
                   PROVE  OpenIn(ls, ms \cup {m}, l, on) = OpenIn(ls, ms, l, on) - TakenFrom(m, l).amount
      OBVIOUS
    <2> PICK ns : ns = MatchedIn(ls, ms, l, on)
      OBVIOUS
    <2>2. MatchedIn(ls, ms \cup {m}, l, on) = ns \cup {m}
      BY <2>1 DEF MatchedIn
    <2>3. ns \in SUBSET MatchRows /\ IsFiniteSet(ns) /\ m \notin ns
      BY FS_Subset DEF MatchedIn
    <2>4. AmountTaken(l, ns \cup {m}) = AmountTaken(l, ns) + TakenFrom(m, l).amount
      BY <2>3, TakenMore
    <2>5. AmountTaken(l, ns) \in Nat /\ TakenFrom(m, l).amount \in Nat /\ ls[l].amount \in Nat
      BY <2>3, TakenNat, <1>s, TakenType, LineType, UntilFinite
    <2>6. OpenIn(ls, ms, l, on) = ls[l].amount - AmountTaken(l, ns)
      BY DEF OpenIn
    <2>7. OpenIn(ls, ms \cup {m}, l, on) = ls[l].amount - AmountTaken(l, ns \cup {m})
      BY <2>2 DEF OpenIn
    <2>8. QED
      BY <2>4, <2>5, <2>6, <2>7
  <1>9. CASE m.day <= on
    <2>1. d \in S /\ c \in S /\ ls[d].day <= on /\ ls[c].day <= on
      BY <1>s, <1>3, <1>4, <1>9 DEF UntilIn
    <2>2. g[d] = f[d] + (-m.debitTaken.amount)
      <3>1. OpenIn(ls, ms \cup {m}, d, on) = OpenIn(ls, ms, d, on) - m.debitTaken.amount
        BY <1>5, <1>6, <1>8, <2>1
      <3>2. OpenIn(ls, ms, d, on) \in Int
        BY <1>3, OpenInInt
      <3>3. QED
        BY <1>f, <1>g, <1>5, <2>1, <3>1, <3>2 DEF Signed
    <2>3. g[c] = f[c] + m.creditTaken.amount
      <3>1. OpenIn(ls, ms \cup {m}, c, on) = OpenIn(ls, ms, c, on) - m.creditTaken.amount
        BY <1>5, <1>6, <1>8, <2>1
      <3>2. OpenIn(ls, ms, c, on) \in Int
        BY <1>3, OpenInInt
      <3>3. QED
        BY <1>f, <1>g, <1>5, <2>1, <3>1, <3>2 DEF Signed
    <2>4. \A l \in S \ {d, c} : g[l] = f[l]
      BY <1>7
    <2>5. PICK x \in Int, y \in Int : x = -m.debitTaken.amount /\ y = m.creditTaken.amount
      BY <1>5
    <2>6. g[d] = f[d] + x /\ g[c] = f[c] + y /\ m.gap = x + y
      BY <1>5, <2>2, <2>3, <2>5
    <2>7. SumFunctionOnSet(g, S) = SumFunctionOnSet(f, S) + x + y
      BY <1>2, <1>3, <2>1, <2>4, <2>6, SumChangedTwice
    <2>8. SumFunctionOnSet(f, S) \in Int
      BY <1>2, SumInt
    <2>9. QED
      BY <1>1, <1>9, <2>6, <2>7, <2>8
  <1>10. CASE ~(m.day <= on)
    <2>1. \A l \in S : g[l] = f[l]
      <3>1. SUFFICES ASSUME NEW l \in S, l \in {d, c}, ls[Across(m, l)].day <= on PROVE FALSE
        BY <1>7
      <3>2. ls[l].day <= on
        BY <1>s DEF UntilIn
      <3>3. ls[d].day <= on /\ ls[c].day <= on
        BY <1>6, <3>1, <3>2
      <3>4. QED
        BY <1>3, <1>4, <1>10, <3>3
    <2>2. SumFunctionOnSet(f, S) = SumFunctionOnSet(g, S)
      BY <1>2, <2>1, SumSame
    <2>3. SumFunctionOnSet(f, S) \in Int
      BY <1>2, SumInt
    <2>4. QED
      BY <1>1, <1>10, <2>2, <2>3
  <1>11. QED
    BY <1>9, <1>10

(* What is open now has no part in what is rebuilt.                        *)
LEMMA OpenAmountsApart ==
  ASSUME NEW ls \in Seq(OpenLines), NEW ls2 \in Seq(OpenLines), DOMAIN ls2 = DOMAIN ls,
         \A l \in DOMAIN ls : ls2[l].day = ls[l].day /\ ls2[l].side = ls[l].side /\ ls2[l].amount = ls[l].amount,
         NEW ms, \A m \in ms : m.debit \in DOMAIN ls /\ m.credit \in DOMAIN ls, NEW on
  PROVE  RebuiltIn(ls2, ms, on) = RebuiltIn(ls, ms, on) /\ BookedIn(ls2, on) = BookedIn(ls, on)
  <1>1. PICK S : S = UntilIn(ls, on)
    OBVIOUS
  <1>2. S = UntilIn(ls2, on)
    BY <1>1 DEF UntilIn
  <1>3. IsFiniteSet(S) /\ \A l \in S : l \in DOMAIN ls
    BY <1>1, UntilFinite
  <1>4. \A l \in S : MatchedIn(ls2, ms, l, on) = MatchedIn(ls, ms, l, on)
    <2>1. SUFFICES ASSUME NEW l \in S
                   PROVE  \A m \in ms : l \in {m.debit, m.credit} => ls2[Across(m, l)].day = ls[Across(m, l)].day
      BY DEF MatchedIn
    <2>2. QED
      BY DEF Across
  <1>5. \A l \in S : Signed(ls2[l], OpenIn(ls2, ms, l, on)) = Signed(ls[l], OpenIn(ls, ms, l, on))
    BY <1>3, <1>4 DEF OpenIn, Signed
  <1>6. \A l \in S : Signed(ls2[l], ls2[l].amount) = Signed(ls[l], ls[l].amount)
    BY <1>3 DEF Signed
  <1>7. [l \in S |-> Signed(ls2[l], OpenIn(ls2, ms, l, on))] = [l \in S |-> Signed(ls[l], OpenIn(ls, ms, l, on))]
    BY <1>5
  <1>8. [l \in S |-> Signed(ls2[l], ls2[l].amount)] = [l \in S |-> Signed(ls[l], ls[l].amount)]
    BY <1>6
  <1>9. RebuiltIn(ls2, ms, on) = RebuiltIn(ls, ms, on)
    BY <1>1, <1>2, <1>7 DEF RebuiltIn
  <1>10. BookedIn(ls2, on) = BookedIn(ls, on)
    BY <1>1, <1>2, <1>8 DEF BookedIn
  <1>11. QED
    BY <1>9, <1>10

(* A line that is posted is open for all it was booked.                    *)
LEMMA LineAdds ==
  ASSUME NEW ls \in Seq(OpenLines), NEW line \in OpenLines, NEW ms \in SUBSET MatchRows, IsFiniteSet(ms),
         \A m \in ms : m.debit \in DOMAIN ls /\ m.credit \in DOMAIN ls, NEW on \in Nat,
         NEW n \in Int, RebuiltIn(ls, ms, on) = BookedIn(ls, on) + n
  PROVE  RebuiltIn(Append(ls, line), ms, on) = BookedIn(Append(ls, line), on) + n
  <1>1. PICK ls2 : ls2 = Append(ls, line)
    OBVIOUS
  <1>2. PICK e : e = Len(ls) + 1
    OBVIOUS
  <1>3. /\ ls2 \in Seq(OpenLines) /\ DOMAIN ls2 = DOMAIN ls \cup {e} /\ e \notin DOMAIN ls
        /\ ls2[e] = line /\ \A l \in DOMAIN ls : ls2[l] = ls[l]
    BY <1>1, <1>2
  <1>4. PICK S : S = UntilIn(ls, on)
    OBVIOUS
  <1>5. IsFiniteSet(S) /\ e \notin S /\ \A l \in S : l \in DOMAIN ls
    BY <1>3, <1>4, UntilFinite
  <1>6. \A l \in S : MatchedIn(ls2, ms, l, on) = MatchedIn(ls, ms, l, on)
    <2>1. SUFFICES ASSUME NEW l \in S
                   PROVE  \A m \in ms : l \in {m.debit, m.credit} => ls2[Across(m, l)].day = ls[Across(m, l)].day
      BY DEF MatchedIn
    <2>2. QED
      BY <1>3 DEF Across
  <1>7. \A l \in S : Signed(ls2[l], OpenIn(ls2, ms, l, on)) = Signed(ls[l], OpenIn(ls, ms, l, on))
    BY <1>3, <1>5, <1>6 DEF OpenIn
  <1>8. \A l \in S : Signed(ls2[l], ls2[l].amount) = Signed(ls[l], ls[l].amount)
    BY <1>3, <1>5
  <1>9. MatchedIn(ls2, ms, e, on) = {}
    BY <1>3 DEF MatchedIn
  <1>10. OpenIn(ls2, ms, e, on) = line.amount /\ Signed(line, line.amount) \in Int
    <2>1. line.amount \in Nat
      BY DEF OpenLines
    <2>2. QED
      BY <1>3, <1>9, <2>1, TakenNone DEF OpenIn, Signed
  <1>11. PICK f : f = [l \in S |-> Signed(ls[l], OpenIn(ls, ms, l, on))]
    OBVIOUS
  <1>12. PICK b : b = [l \in S |-> Signed(ls[l], ls[l].amount)]
    OBVIOUS
  <1>13. PICK T : T = UntilIn(ls2, on)
    OBVIOUS
  <1>14. PICK f2 : f2 = [l \in T |-> Signed(ls2[l], OpenIn(ls2, ms, l, on))]
    OBVIOUS
  <1>15. PICK b2 : b2 = [l \in T |-> Signed(ls2[l], ls2[l].amount)]
    OBVIOUS
  <1>16. /\ RebuiltIn(ls, ms, on) = SumFunctionOnSet(f, S) /\ BookedIn(ls, on) = SumFunctionOnSet(b, S)
         /\ RebuiltIn(ls2, ms, on) = SumFunctionOnSet(f2, T) /\ BookedIn(ls2, on) = SumFunctionOnSet(b2, T)
    BY <1>4, <1>11, <1>12, <1>13, <1>14, <1>15 DEF RebuiltIn, BookedIn
  <1>17. T = IF line.day <= on THEN S \cup {e} ELSE S
    BY <1>3, <1>4, <1>13 DEF UntilIn
  <1>18. IntOn(f, S) /\ IntOn(b, S)
    <2>1. \A l \in S : f[l] \in Int
      BY <1>5, <1>11, OpenInInt
    <2>2. \A l \in S : b[l] \in Int
      <3>1. \A l \in S : ls[l].amount \in Nat
        BY <1>5, LineType
      <3>2. QED
        BY <1>12, <3>1 DEF Signed
    <2>3. QED
      BY <2>1, <2>2 DEF IntOn
  <1>19. \A l \in S : f2[l] = f[l] /\ b2[l] = b[l]
    <2>1. \A l \in S : l \in T
      BY <1>17
    <2>2. QED
      BY <1>7, <1>8, <1>11, <1>12, <1>14, <1>15, <2>1
  <1>20. SumFunctionOnSet(f, S) \in Int /\ SumFunctionOnSet(b, S) \in Int
    BY <1>5, <1>18, SumInt
  <1>21. CASE line.day <= on
    <2>1. T = S \cup {e}
      BY <1>17, <1>21
    <2>2. f2[e] = Signed(line, line.amount) /\ b2[e] = Signed(line, line.amount) /\ f2[e] \in Int /\ b2[e] \in Int
      BY <1>3, <1>10, <1>14, <1>15, <2>1
    <2>3. SumFunctionOnSet(f2, T) = SumFunctionOnSet(f, S) + f2[e]
      BY <1>5, <1>18, <1>19, <2>1, <2>2, SumJoined
    <2>4. SumFunctionOnSet(b2, T) = SumFunctionOnSet(b, S) + b2[e]
      BY <1>5, <1>18, <1>19, <2>1, <2>2, SumJoined
    <2>5. RebuiltIn(ls2, ms, on) = BookedIn(ls2, on) + n
      BY <1>16, <1>20, <2>2, <2>3, <2>4
    <2>6. QED
      BY <1>1, <2>5
  <1>22. CASE ~(line.day <= on)
    <2>1. T = S
      BY <1>17, <1>22
    <2>2. SumFunctionOnSet(f2, T) = SumFunctionOnSet(f, S) /\ SumFunctionOnSet(b2, T) = SumFunctionOnSet(b, S)
      BY <1>5, <1>19, <2>1, SumSame
    <2>3. QED
      BY <1>1, <1>16, <2>2
  <1>23. QED
    BY <1>21, <1>22

LEMMA BookedInt ==
  ASSUME NEW ls \in Seq(OpenLines), NEW on
  PROVE  BookedIn(ls, on) \in Int
  <1>1. PICK S : S = UntilIn(ls, on)
    OBVIOUS
  <1>2. PICK b : b = [l \in S |-> Signed(ls[l], ls[l].amount)]
    OBVIOUS
  <1>3. IsFiniteSet(S) /\ \A l \in S : ls[l].amount \in Nat
    BY <1>1, UntilFinite, LineType
  <1>4. IntOn(b, S)
    BY <1>2, <1>3 DEF IntOn, Signed
  <1>5. SumFunctionOnSet(b, S) \in Int
    BY <1>3, <1>4, SumInt
  <1>6. QED
    BY <1>1, <1>2, <1>5 DEF BookedIn

LEMMA RebuiltInt ==
  ASSUME NEW ls \in Seq(OpenLines), NEW ms \in SUBSET MatchRows, IsFiniteSet(ms), NEW on
  PROVE  RebuiltIn(ls, ms, on) \in Int
  <1>1. PICK S : S = UntilIn(ls, on)
    OBVIOUS
  <1>2. PICK f : f = [l \in S |-> Signed(ls[l], OpenIn(ls, ms, l, on))]
    OBVIOUS
  <1>3. IsFiniteSet(S) /\ IntOn(f, S)
    BY <1>1, <1>2, UntilFinite, OpenInInt DEF IntOn
  <1>4. SumFunctionOnSet(f, S) \in Int
    BY <1>3, SumInt
  <1>5. QED
    BY <1>1, <1>2, <1>4 DEF RebuiltIn

LEMMA DaysFinite ==
  ASSUME NEW on \in Nat
  PROVE  IsFiniteSet({day \in Days : day <= on})
  <1>1. IsFiniteSet(0 .. on)
    BY FS_Interval
  <1>2. {day \in Days : day <= on} \in SUBSET (0 .. on)
    <2>1. \A day \in Days : day \in Nat
      BY OpenItemsAssumption
    <2>2. QED
      BY <2>1
  <1>3. QED
    BY <1>1, <1>2, FS_Subset

LEMMA DifferencesInt ==
  ASSUME NEW ds \in [Days -> Int], NEW on \in Nat
  PROVE  DifferencesIn(ds, on) \in Int
  BY DaysFinite, SumInt DEF DifferencesIn, IntOn

LEMMA DifferenceMoves ==
  ASSUME NEW ds \in [Days -> Int], NEW ds2 \in [Days -> Int], NEW day \in Days, NEW gap \in Int, NEW on \in Nat,
         ds2[day] = ds[day] + gap, \A x \in Days \ {day} : ds2[x] = ds[x]
  PROVE  DifferencesIn(ds2, on) = DifferencesIn(ds, on) + (IF day <= on THEN gap ELSE 0)
  <1>1. PICK S : S = {x \in Days : x <= on}
    OBVIOUS
  <1>2. IsFiniteSet(S) /\ IntOn(ds, S) /\ \A x \in S : x \in Days
    BY <1>1, DaysFinite DEF IntOn
  <1>3. DifferencesIn(ds, on) = SumFunctionOnSet(ds, S) /\ DifferencesIn(ds2, on) = SumFunctionOnSet(ds2, S)
    BY <1>1 DEF DifferencesIn
  <1>4. CASE day <= on
    <2>1. day \in S
      BY <1>1, <1>4
    <2>2. SumFunctionOnSet(ds2, S) = SumFunctionOnSet(ds, S) + gap
      BY <1>2, <2>1, SumChanged
    <2>3. QED
      BY <1>3, <1>4, <2>2
  <1>5. CASE ~(day <= on)
    <2>1. day \notin S
      BY <1>1, <1>5
    <2>2. \A x \in S : ds2[x] = ds[x]
      BY <1>2, <2>1
    <2>3. SumFunctionOnSet(ds2, S) = SumFunctionOnSet(ds, S)
      BY <1>2, <2>2, SumSame
    <2>4. SumFunctionOnSet(ds, S) \in Int
      BY <1>2, SumInt
    <2>5. QED
      BY <1>3, <1>5, <2>3, <2>4
  <1>6. QED
    BY <1>4, <1>5

-----------------------------------------------------------------------------
(* What a step takes and posts.                                            *)

LEMMA MinOfTwo ==
  ASSUME NEW a \in Int, NEW b \in Int
  PROVE  Min({a, b}) \in {a, b} /\ Min({a, b}) <= a /\ Min({a, b}) <= b
  <1>1. \E x \in {a, b} : \A y \in {a, b} : x =< y
    OBVIOUS
  <1>2. QED
    BY <1>1 DEF Min

LEMMA MaxOfTwo ==
  ASSUME NEW a \in Int, NEW b \in Int
  PROVE  Max({a, b}) \in {a, b} /\ Max({a, b}) >= a /\ Max({a, b}) >= b
  <1>1. \E x \in {a, b} : \A y \in {a, b} : x >= y
    OBVIOUS
  <1>2. QED
    BY <1>1 DEF Max

LEMMA ConvertedInt ==
  ASSUME NEW amount \in Nat, NEW currency, NEW day \in Nat, HasRate(currency, day)
  PROVE  Converted(amount, currency, day) \in Int
  <1>1. CASE currency = Base
    BY <1>1 DEF Converted
  <1>2. CASE currency # Base
    <2>1. PICK Q : Q = QuotesBy(currency, day)
      OBVIOUS
    <2>2. Q # {} /\ \A q \in Q : q.day \in Nat /\ q.day <= day /\ q.of \in Nat \ {0} /\ q.per \in Nat \ {0}
      BY <1>2, <2>1, OpenItemsAssumption DEF HasRate, QuotesBy
    <2>3. \E q \in Q : \A r \in Q : r.day <= q.day
      <3>1. PICK ages : ages = {day - q.day : q \in Q}
        OBVIOUS
      <3>2. ages \in SUBSET Nat /\ ages # {}
        BY <2>2, <3>1
      <3>3. PICK n \in ages : \A k \in ages : n <= k
        BY <3>2, NatMin
      <3>4. PICK q \in Q : n = day - q.day
        BY <3>1
      <3>5. \A r \in Q : r.day <= q.day
        <4>1. SUFFICES ASSUME NEW r \in Q PROVE r.day <= q.day
          OBVIOUS
        <4>2. day - r.day \in ages
          BY <3>1
        <4>3. day - q.day <= day - r.day
          BY <3>3, <3>4, <4>2
        <4>4. QED
          BY <2>2, <4>3
      <3>6. QED
        BY <3>5
    <2>4. PICK latest : latest = CHOOSE q \in Q : \A r \in Q : r.day <= q.day
      OBVIOUS
    <2>5. latest \in Q
      BY <2>3, <2>4
    <2>6. latest.of \in Nat \ {0} /\ latest.per \in Nat \ {0} /\ Minor \in Nat \ {0}
      BY <2>2, <2>5, OpenItemsAssumption
    <2>7. Converted(amount, currency, day) = Rounded(amount * latest.of, latest.per, Minor)
      BY <1>2, <2>1, <2>4 DEF Converted
    <2>8. amount * latest.of \in Int
      BY <2>6, ProductInt
    <2>9. QED
      BY <2>6, <2>7, <2>8, RoundedInt
  <1>3. QED
    BY <1>1, <1>2

LEMMA OpenLineType ==
  ASSUME NEW of \in {"document", "payment", "reversal"}, NEW side \in Sides, NEW currency \in Currencies,
         NEW day \in Days, NEW amount \in Nat \ {0}, NEW amountCurrency \in Nat \ {0}, NEW reverses \in Nat,
         NEW line, line = OpenLine(of, side, currency, day, amount, amountCurrency, reverses)
  PROVE  /\ line \in OpenLines /\ line.residual = line.amount /\ line.residualCurrency = line.amountCurrency
         /\ line.currency = currency /\ line.amount = amount /\ line.amountCurrency = amountCurrency
  <1>1. amount \in Int /\ amountCurrency \in Int
    OBVIOUS
  <1>2. QED
    BY <1>1 DEF OpenLine, OpenLines

LEMMA ClosingType ==
  ASSUME NEW line \in OpenLines, NEW taken \in [amount: Nat, currency: Nat],
         NEW closed, closed = Closing(line, taken)
  PROVE  /\ closed \in OpenLines
         /\ closed.residual = line.residual - taken.amount
         /\ closed.residualCurrency = line.residualCurrency - taken.currency
         /\ closed.day = line.day /\ closed.side = line.side /\ closed.currency = line.currency
         /\ closed.amount = line.amount /\ closed.amountCurrency = line.amountCurrency
  <1>1. /\ line.residual \in Int /\ line.residualCurrency \in Int
        /\ taken.amount \in Nat /\ taken.currency \in Nat
    BY DEF OpenLines
  <1>2. PICK r \in Int, rc \in Int : r = line.residual - taken.amount /\ rc = line.residualCurrency - taken.currency
    BY <1>1
  <1>3. closed = [[line EXCEPT !.residual = r] EXCEPT !.residualCurrency = rc]
    BY <1>2 DEF Closing, OpenLines
  <1>4. /\ closed.residual = r /\ closed.residualCurrency = rc
        /\ closed.day = line.day /\ closed.side = line.side /\ closed.currency = line.currency
        /\ closed.amount = line.amount /\ closed.amountCurrency = line.amountCurrency
    BY <1>3 DEF OpenLines
  <1>5. closed \in OpenLines
    BY <1>3 DEF OpenLines
  <1>6. QED
    BY <1>2, <1>4, <1>5

LEMMA ReopeningType ==
  ASSUME NEW line \in OpenLines, NEW taken \in [amount: Nat, currency: Nat],
         NEW opened, opened = Reopening(line, taken)
  PROVE  /\ opened \in OpenLines
         /\ opened.residual = line.residual + taken.amount
         /\ opened.residualCurrency = line.residualCurrency + taken.currency
         /\ opened.day = line.day /\ opened.side = line.side /\ opened.currency = line.currency
         /\ opened.amount = line.amount /\ opened.amountCurrency = line.amountCurrency
  <1>1. /\ line.residual \in Int /\ line.residualCurrency \in Int
        /\ taken.amount \in Nat /\ taken.currency \in Nat
    BY DEF OpenLines
  <1>2. PICK r \in Int, rc \in Int : r = line.residual + taken.amount /\ rc = line.residualCurrency + taken.currency
    BY <1>1
  <1>3. opened = [[line EXCEPT !.residual = r] EXCEPT !.residualCurrency = rc]
    BY <1>2 DEF Reopening, OpenLines
  <1>4. /\ opened.residual = r /\ opened.residualCurrency = rc
        /\ opened.day = line.day /\ opened.side = line.side /\ opened.currency = line.currency
        /\ opened.amount = line.amount /\ opened.amountCurrency = line.amountCurrency
    BY <1>3 DEF OpenLines
  <1>5. opened \in OpenLines
    BY <1>3 DEF OpenLines
  <1>6. QED
    BY <1>2, <1>4, <1>5

(* A side gives up no more than it has open, in either currency.           *)
LEMMA TakenFits ==
  ASSUME NEW line \in OpenLines, line.residual >= 0, line.residualCurrency >= 0,
         NEW shared \in BOOLEAN, NEW take \in Nat \ {0},
         take <= IF shared THEN line.residualCurrency ELSE line.residual
  PROVE  /\ Taken(line, take, shared) \in [amount: Nat, currency: Nat]
         /\ Taken(line, take, shared).amount <= line.residual
         /\ Taken(line, take, shared).currency <= line.residualCurrency
         /\ ~shared => Taken(line, take, shared).amount = take
         /\ line.residual = line.residualCurrency =>
              Taken(line, take, shared).amount = take /\ Taken(line, take, shared).currency = take
  <1>1. line.residual \in Nat /\ line.residualCurrency \in Nat
    BY DEF OpenLines
  <1>2. CASE shared
    <2>1. take <= line.residualCurrency
      BY <1>2
    <2>2. PICK n : n = CompanyShare(line, take)
      OBVIOUS
    <2>3. n \in Nat /\ n <= line.residual
      BY <1>1, <2>1, <2>2, ShareFits DEF CompanyShare
    <2>4. line.residual = line.residualCurrency => n = take
      BY <1>1, <2>1, <2>2, ShareAlike DEF CompanyShare
    <2>5. Taken(line, take, shared) = [amount |-> n, currency |-> take]
      BY <1>2, <2>2 DEF Taken
    <2>6. PICK t : t = Taken(line, take, shared)
      OBVIOUS
    <2>7. t.amount = n /\ t.currency = take /\ t \in [amount: Nat, currency: Nat]
      BY <2>3, <2>5, <2>6
    <2>8. QED
      BY <1>2, <2>1, <2>3, <2>4, <2>6, <2>7
  <1>3. CASE ~shared
    <2>1. take <= line.residual
      BY <1>3
    <2>2. PICK n : n = CurrencyShare(line, take)
      OBVIOUS
    <2>3. n \in Nat /\ n <= line.residualCurrency
      BY <1>1, <2>1, <2>2, ShareFits DEF CurrencyShare
    <2>4. line.residual = line.residualCurrency => n = take
      BY <1>1, <2>1, <2>2, ShareAlike DEF CurrencyShare
    <2>5. Taken(line, take, shared) = [amount |-> take, currency |-> n]
      BY <1>3, <2>2 DEF Taken
    <2>6. PICK t : t = Taken(line, take, shared)
      OBVIOUS
    <2>7. t.amount = take /\ t.currency = n /\ t \in [amount: Nat, currency: Nat]
      BY <2>3, <2>5, <2>6
    <2>8. QED
      BY <2>1, <2>3, <2>4, <2>6, <2>7
  <1>4. QED
    BY <1>2, <1>3

LEMMA SomeId ==
  ASSUME NEW ids \in SUBSET MatchIds, ids # MatchIds
  PROVE  Min(MatchIds \ ids) \in MatchIds /\ Min(MatchIds \ ids) \notin ids
  <1>1. PICK free : free = MatchIds \ ids
    OBVIOUS
  <1>2. free \in SUBSET Nat /\ free # {}
    BY <1>1, OpenItemsAssumption
  <1>3. \E x \in free : \A y \in free : x =< y
    BY <1>2, NatMin
  <1>4. Min(free) \in free
    BY <1>3 DEF Min
  <1>5. QED
    BY <1>1, <1>4

-----------------------------------------------------------------------------
(* The steps.                                                              *)

MatchedOf(ms, l) == {m \in ms : l \in {m.debit, m.credit}}

(* check_line_residual of one line.                                        *)
Agrees(line, ms, l) ==
  /\ line.residual >= 0 /\ line.residualCurrency >= 0
  /\ line.residual = line.amount - AmountTaken(l, MatchedOf(ms, l))
  /\ line.residualCurrency = line.amountCurrency - CurrencyTaken(l, MatchedOf(ms, l))

LEMMA Agreeing ==
  ResidualsAgree <=> \A l \in DOMAIN lines : Agrees(lines[l], matches, l)
  BY DEF ResidualsAgree, Agrees, MatchedOf, MatchesOf

LEMMA OnADay ==
  ASSUME NEW on \in Days \cup {Today}
  PROVE  on \in Nat
  BY OpenItemsAssumption

LEMMA InitHolds ==
  Init => OpenItemsInv
  <1>1. SUFFICES ASSUME Init PROVE OpenItemsInv
    OBVIOUS
  <1>2. lines = <<>> /\ matches = {} /\ differences = [day \in Days |-> 0]
    BY <1>1 DEF Init
  <1>3. DOMAIN lines = {} /\ lines \in Seq(OpenLines)
    BY <1>2
  <1>4. TypeOK
    BY <1>2, <1>3, FS_EmptySet DEF TypeOK
  <1>5. IdsApart /\ MatchesFit /\ BaseAlike /\ ResidualsAgree
    BY <1>2, <1>3 DEF IdsApart, MatchesFit, BaseAlike, ResidualsAgree
  <1>6. RebuiltIsBalance
    <2>1. SUFFICES ASSUME NEW on \in Days \cup {Today}
                   PROVE  RebuiltIn(lines, matches, on) = BookedIn(lines, on) + DifferencesIn(differences, on)
      BY Rebuilt
    <2>2. UntilIn(lines, on) = {}
      BY <1>3 DEF UntilIn
    <2>3. RebuiltIn(lines, matches, on) = 0 /\ BookedIn(lines, on) = 0
      BY <2>2, SumEmpty DEF RebuiltIn, BookedIn
    <2>4. DifferencesIn(differences, on) = 0
      <3>1. IsFiniteSet({day \in Days : day <= on})
        BY OnADay, DaysFinite
      <3>2. \A day \in {day \in Days : day <= on} : differences[day] = 0
        BY <1>2
      <3>3. QED
        BY <3>1, <3>2, SumZero DEF DifferencesIn
    <2>5. QED
      BY <2>3, <2>4
  <1>7. QED
    BY <1>4, <1>5, <1>6 DEF OpenItemsInv

(* What every step leaves of a line but its open amounts.                  *)
SameLine(a, b) ==
  /\ a.day = b.day /\ a.side = b.side /\ a.currency = b.currency
  /\ a.amount = b.amount /\ a.amountCurrency = b.amountCurrency

(* A line is posted.                                                       *)
LEMMA PostedKeeps ==
  ASSUME OpenItemsInv, NEW line \in OpenLines,
         line.residual = line.amount, line.residualCurrency = line.amountCurrency,
         line.currency = Base => line.amount = line.amountCurrency,
         lines' = Append(lines, line), matches' = matches, differences' = differences
  PROVE  OpenItemsInv'
  <1>1. TypeOK /\ IdsApart /\ MatchesFit /\ BaseAlike /\ ResidualsAgree /\ RebuiltIsBalance
    BY DEF OpenItemsInv
  <1>2. PICK ls : ls = lines
    OBVIOUS
  <1>3. PICK ls2 : ls2 = lines'
    OBVIOUS
  <1>4. PICK e : e = Len(ls) + 1
    OBVIOUS
  <1>5. /\ ls2 = Append(ls, line) /\ ls \in Seq(OpenLines) /\ ls2 \in Seq(OpenLines)
        /\ DOMAIN ls2 = DOMAIN ls \cup {e} /\ e \notin DOMAIN ls
        /\ ls2[e] = line /\ \A l \in DOMAIN ls : ls2[l] = ls[l]
    BY <1>1, <1>2, <1>3, <1>4 DEF TypeOK
  <1>6. matches \in SUBSET MatchRows /\ IsFiniteSet(matches) /\ \A m \in matches : m.debit \in DOMAIN ls /\ m.credit \in DOMAIN ls
    BY <1>1, <1>2 DEF TypeOK, MatchesFit
  <1>7. TypeOK'
    BY <1>1, <1>3, <1>5 DEF TypeOK
  <1>8. IdsApart'
    BY <1>1 DEF IdsApart
  <1>9. MatchesFit'
    <2>1. ASSUME NEW m \in matches
          PROVE  /\ m.debit \in DOMAIN ls2 /\ ls2[m.debit].side = "debit"
                 /\ m.credit \in DOMAIN ls2 /\ ls2[m.credit].side = "credit"
                 /\ m.day = Max({ls2[m.debit].day, ls2[m.credit].day})
                 /\ m.gap = m.creditTaken.amount - m.debitTaken.amount
      <3>1. /\ ls[m.debit].side = "debit" /\ ls[m.credit].side = "credit"
            /\ m.day = Max({ls[m.debit].day, ls[m.credit].day})
            /\ m.gap = m.creditTaken.amount - m.debitTaken.amount
        BY <1>1, <1>2 DEF MatchesFit, LatestDay
      <3>2. m.debit \in DOMAIN ls /\ m.credit \in DOMAIN ls
        BY <1>6
      <3>3. ls2[m.debit] = ls[m.debit] /\ ls2[m.credit] = ls[m.credit]
        BY <1>5, <3>2
      <3>4. QED
        BY <1>5, <3>1, <3>2, <3>3
    <2>2. QED
      BY <1>3, <2>1 DEF MatchesFit, LatestDay
  <1>10. BaseAlike'
    <2>1. ASSUME NEW l \in DOMAIN ls2, ls2[l].currency = Base
          PROVE  ls2[l].amount = ls2[l].amountCurrency /\ ls2[l].residual = ls2[l].residualCurrency
      BY <1>1, <1>2, <1>5, <2>1 DEF BaseAlike
    <2>2. ASSUME NEW m \in matches, NEW l \in {m.debit, m.credit}, ls2[l].currency = Base
          PROVE  TakenFrom(m, l).amount = TakenFrom(m, l).currency
      BY <1>1, <1>2, <1>5, <1>6, <2>2 DEF BaseAlike
    <2>3. QED
      BY <1>3, <2>1, <2>2 DEF BaseAlike
  <1>11. ResidualsAgree'
    <2>1. \A l \in DOMAIN ls : Agrees(ls[l], matches, l)
      BY <1>1, <1>2, Agreeing
    <2>2. Agrees(line, matches, e)
      <3>1. MatchedOf(matches, e) = {}
        BY <1>5, <1>6 DEF MatchedOf
      <3>2. line.amount \in Nat /\ line.amountCurrency \in Nat
        BY DEF OpenLines
      <3>3. QED
        BY <3>1, <3>2, TakenNone DEF Agrees
    <2>3. \A l \in DOMAIN ls2 : Agrees(ls2[l], matches, l)
      BY <1>5, <2>1, <2>2
    <2>4. QED
      BY <1>3, <2>3 DEF ResidualsAgree, Agrees, MatchedOf, MatchesOf
  <1>12. RebuiltIsBalance'
    <2>1. ASSUME NEW on \in Days \cup {Today}
          PROVE  RebuiltIn(ls2, matches, on) = BookedIn(ls2, on) + DifferencesIn(differences, on)
      <3>1. PICK n : n = DifferencesIn(differences, on)
        OBVIOUS
      <3>2. n \in Int /\ on \in Nat
        BY <1>1, <3>1, OnADay, DifferencesInt DEF TypeOK
      <3>3. RebuiltIn(ls, matches, on) = BookedIn(ls, on) + n
        BY <1>1, <1>2, <3>1, Rebuilt
      <3>4. QED
        BY <1>5, <1>6, <3>1, <3>2, <3>3, LineAdds
    <2>2. QED
      BY <1>3, <2>1 DEF RebuiltIsBalance, RebuiltIn, BookedIn, DifferencesIn, Balance, OpenIn, MatchedIn,
                        UntilIn, OpenAsOf, Until, MatchesOf
  <1>13. QED
    BY <1>7, <1>8, <1>9, <1>10, <1>11, <1>12 DEF OpenItemsInv

LEMMA PostKeeps ==
  OpenItemsInv /\ Post => OpenItemsInv'
  <1>1. SUFFICES ASSUME OpenItemsInv, Post PROVE OpenItemsInv'
    OBVIOUS
  <1>2. PICK origin \in Origins, currency \in Currencies, day \in Days, a \in Amounts :
          /\ HasRate(currency, day)
          /\ Converted(a, currency, day) > 0
          /\ lines' = Append(lines, OpenLine(origin[1], origin[2], currency, day, Converted(a, currency, day), a, 0))
          /\ UNCHANGED <<matches, differences>>
    BY <1>1 DEF Post
  <1>3. a \in Nat \ {0} /\ day \in Nat /\ origin[1] \in {"document", "payment", "reversal"} /\ origin[2] \in Sides
    BY OpenItemsAssumption DEF Sides
  <1>4. PICK worth : worth = Converted(a, currency, day)
    OBVIOUS
  <1>5. worth \in Nat \ {0}
    <2>1. worth \in Int
      BY <1>2, <1>3, <1>4, ConvertedInt
    <2>2. QED
      BY <1>2, <1>4, <2>1
  <1>6. PICK line : line = OpenLine(origin[1], origin[2], currency, day, worth, a, 0)
    OBVIOUS
  <1>7. /\ line \in OpenLines /\ line.residual = line.amount /\ line.residualCurrency = line.amountCurrency
        /\ line.currency = currency /\ line.amount = worth /\ line.amountCurrency = a
    BY <1>3, <1>5, <1>6, OpenLineType
  <1>8. currency = Base => worth = a
    BY <1>4 DEF Converted
  <1>9. lines' = Append(lines, line) /\ matches' = matches /\ differences' = differences
    BY <1>2, <1>4, <1>6
  <1>10. QED
    BY <1>1, <1>7, <1>8, <1>9, PostedKeeps

LEMMA ReverseKeeps ==
  OpenItemsInv /\ Reverse => OpenItemsInv'
  <1>1. SUFFICES ASSUME OpenItemsInv, Reverse PROVE OpenItemsInv'
    OBVIOUS
  <1>2. PICK l \in DOMAIN lines :
          LET o == lines[l]
              side == IF o.side = "debit" THEN "credit" ELSE "debit"
          IN /\ lines' = Append(lines, OpenLine("reversal", side, o.currency, o.day, o.amount, o.amountCurrency, l))
             /\ UNCHANGED <<matches, differences>>
    BY <1>1 DEF Reverse
  <1>3. PICK o : o = lines[l]
    OBVIOUS
  <1>4. PICK side : side = IF o.side = "debit" THEN "credit" ELSE "debit"
    OBVIOUS
  <1>5. lines \in Seq(OpenLines) /\ BaseAlike
    BY <1>1 DEF OpenItemsInv, TypeOK
  <1>6. /\ o.currency \in Currencies /\ o.day \in Days /\ o.amount \in Nat \ {0}
        /\ o.amountCurrency \in Nat \ {0} /\ side \in Sides /\ l \in Nat
    <2>1. l \in Nat
      BY <1>5
    <2>2. QED
      BY <1>3, <1>4, <1>5, <2>1, LineType DEF Sides
  <1>7. PICK line : line = OpenLine("reversal", side, o.currency, o.day, o.amount, o.amountCurrency, l)
    OBVIOUS
  <1>8. /\ line \in OpenLines /\ line.residual = line.amount /\ line.residualCurrency = line.amountCurrency
        /\ line.currency = o.currency /\ line.amount = o.amount /\ line.amountCurrency = o.amountCurrency
    BY <1>6, <1>7, OpenLineType
  <1>9. o.currency = Base => o.amount = o.amountCurrency
    BY <1>3, <1>5 DEF BaseAlike
  <1>10. lines' = Append(lines, line) /\ matches' = matches /\ differences' = differences
    BY <1>2, <1>3, <1>4, <1>7
  <1>11. QED
    BY <1>1, <1>8, <1>9, <1>10, PostedKeeps

LEMMA AgreesWhenMatched ==
  ASSUME NEW ms \in SUBSET MatchRows, IsFiniteSet(ms), NEW m \in MatchRows, m \notin ms,
         NEW l \in {m.debit, m.credit}, NEW line \in OpenLines, NEW line2 \in OpenLines,
         line2.amount = line.amount, line2.amountCurrency = line.amountCurrency,
         line2.residual = line.residual - TakenFrom(m, l).amount,
         line2.residualCurrency = line.residualCurrency - TakenFrom(m, l).currency
  PROVE  /\ Agrees(line, ms, l) /\ line2.residual >= 0 /\ line2.residualCurrency >= 0 => Agrees(line2, ms \cup {m}, l)
         /\ Agrees(line2, ms \cup {m}, l) => Agrees(line, ms, l)
  <1>1. PICK ns : ns = MatchedOf(ms, l)
    OBVIOUS
  <1>2. ns \in SUBSET MatchRows /\ IsFiniteSet(ns) /\ m \notin ns /\ MatchedOf(ms \cup {m}, l) = ns \cup {m}
    BY <1>1, FS_Subset DEF MatchedOf
  <1>3. PICK x \in Nat, y \in Nat : x = TakenFrom(m, l).amount /\ y = TakenFrom(m, l).currency
    BY TakenType
  <1>4. PICK u \in Nat, v \in Nat : u = AmountTaken(l, ns) /\ v = CurrencyTaken(l, ns)
    BY <1>2, TakenNat
  <1>5. AmountTaken(l, ns \cup {m}) = u + x /\ CurrencyTaken(l, ns \cup {m}) = v + y
    BY <1>2, <1>3, <1>4, TakenMore
  <1>6. /\ line.residual \in Int /\ line.residualCurrency \in Int
        /\ line.amount \in Int /\ line.amountCurrency \in Int
    BY DEF OpenLines
  <1>7. Agrees(line, ms, l) <=> /\ line.residual >= 0 /\ line.residualCurrency >= 0
                                /\ line.residual = line.amount - u
                                /\ line.residualCurrency = line.amountCurrency - v
    BY <1>1, <1>4 DEF Agrees
  <1>8. Agrees(line2, ms \cup {m}, l) <=> /\ line2.residual >= 0 /\ line2.residualCurrency >= 0
                                          /\ line2.residual = line2.amount - (u + x)
                                          /\ line2.residualCurrency = line2.amountCurrency - (v + y)
    BY <1>2, <1>5 DEF Agrees
  <1>9. line2.residual = line.residual - x /\ line2.residualCurrency = line.residualCurrency - y
    BY <1>3
  <1>10. QED
    BY <1>6, <1>7, <1>8, <1>9

LEMMA AgreesApart ==
  ASSUME NEW ms, NEW m, NEW l, l \notin {m.debit, m.credit}, NEW line
  PROVE  Agrees(line, ms \cup {m}, l) <=> Agrees(line, ms, l)
  <1>1. MatchedOf(ms \cup {m}, l) = MatchedOf(ms, l)
    BY DEF MatchedOf
  <1>2. QED
    BY <1>1 DEF Agrees

(* Two lines of a sequence change in nothing but what is open.             *)
LEMMA TwoLines ==
  ASSUME NEW ls \in Seq(OpenLines), NEW d \in DOMAIN ls, NEW c \in DOMAIN ls, d # c,
         NEW x \in OpenLines, NEW y \in OpenLines, SameLine(x, ls[d]), SameLine(y, ls[c]),
         NEW ls2, ls2 = [ls EXCEPT ![d] = x, ![c] = y]
  PROVE  /\ ls2 \in Seq(OpenLines) /\ DOMAIN ls2 = DOMAIN ls /\ ls2[d] = x /\ ls2[c] = y
         /\ \A l \in DOMAIN ls \ {d, c} : ls2[l] = ls[l]
         /\ \A l \in DOMAIN ls : SameLine(ls2[l], ls[l])
  <1>1. PICK n \in Nat : n = Len(ls) /\ ls \in [1 .. n -> OpenLines]
    OBVIOUS
  <1>2. ls2 \in [1 .. n -> OpenLines]
    BY <1>1
  <1>3. ls2 \in Seq(OpenLines)
    BY <1>1, <1>2
  <1>4. DOMAIN ls2 = DOMAIN ls /\ ls2[d] = x /\ ls2[c] = y /\ \A l \in DOMAIN ls \ {d, c} : ls2[l] = ls[l]
    BY <1>1
  <1>5. \A l \in DOMAIN ls : SameLine(ls2[l], ls[l])
    <2>1. \A l \in DOMAIN ls \ {d, c} : SameLine(ls2[l], ls[l])
      BY <1>4 DEF SameLine
    <2>2. QED
      BY <1>4, <2>1
  <1>6. QED
    BY <1>3, <1>4, <1>5

(* The difference of two sides is what Gap says, even where it says none.  *)
LEMMA GapIsApart ==
  ASSUME NEW d \in OpenLines, NEW c \in OpenLines, NEW take \in Nat \ {0}, take <= Available(d, c),
         d.residual >= 0, d.residualCurrency >= 0, c.residual >= 0, c.residualCurrency >= 0,
         d.currency = Base => d.residual = d.residualCurrency,
         c.currency = Base => c.residual = c.residualCurrency
  PROVE  /\ Taken(d, take, Shared(d, c)) \in [amount: Nat, currency: Nat]
         /\ Taken(c, take, Shared(d, c)) \in [amount: Nat, currency: Nat]
         /\ Taken(d, take, Shared(d, c)).amount <= d.residual
         /\ Taken(d, take, Shared(d, c)).currency <= d.residualCurrency
         /\ Taken(c, take, Shared(d, c)).amount <= c.residual
         /\ Taken(c, take, Shared(d, c)).currency <= c.residualCurrency
         /\ Gap(d, c, take) = Taken(c, take, Shared(d, c)).amount - Taken(d, take, Shared(d, c)).amount
         /\ d.currency = Base => Taken(d, take, Shared(d, c)).amount = Taken(d, take, Shared(d, c)).currency
         /\ c.currency = Base => Taken(c, take, Shared(d, c)).amount = Taken(c, take, Shared(d, c)).currency
  <1>1. PICK shared \in BOOLEAN : shared = Shared(d, c)
    BY DEF Shared
  <1>2. /\ d.residual \in Int /\ d.residualCurrency \in Int
        /\ c.residual \in Int /\ c.residualCurrency \in Int
    BY DEF OpenLines
  <1>3. /\ take <= IF shared THEN d.residualCurrency ELSE d.residual
        /\ take <= IF shared THEN c.residualCurrency ELSE c.residual
    <2>1. CASE shared
      <3>1. Available(d, c) = Min({d.residualCurrency, c.residualCurrency})
        BY <1>1, <2>1 DEF Available
      <3>2. /\ Min({d.residualCurrency, c.residualCurrency}) \in {d.residualCurrency, c.residualCurrency}
            /\ Min({d.residualCurrency, c.residualCurrency}) <= d.residualCurrency
            /\ Min({d.residualCurrency, c.residualCurrency}) <= c.residualCurrency
        BY <1>2, MinOfTwo
      <3>3. QED
        BY <1>2, <2>1, <3>1, <3>2
    <2>2. CASE ~shared
      <3>1. Available(d, c) = Min({d.residual, c.residual})
        BY <1>1, <2>2 DEF Available
      <3>2. /\ Min({d.residual, c.residual}) \in {d.residual, c.residual}
            /\ Min({d.residual, c.residual}) <= d.residual
            /\ Min({d.residual, c.residual}) <= c.residual
        BY <1>2, MinOfTwo
      <3>3. QED
        BY <1>2, <2>2, <3>1, <3>2
    <2>3. QED
      BY <2>1, <2>2
  <1>4. PICK x : x = Taken(d, take, shared)
    OBVIOUS
  <1>5. PICK y : y = Taken(c, take, shared)
    OBVIOUS
  <1>6. /\ x \in [amount: Nat, currency: Nat] /\ x.amount <= d.residual /\ x.currency <= d.residualCurrency
        /\ ~shared => x.amount = take
        /\ d.residual = d.residualCurrency => x.amount = take /\ x.currency = take
    BY <1>3, <1>4, TakenFits
  <1>7. /\ y \in [amount: Nat, currency: Nat] /\ y.amount <= c.residual /\ y.currency <= c.residualCurrency
        /\ ~shared => y.amount = take
        /\ c.residual = c.residualCurrency => y.amount = take /\ y.currency = take
    BY <1>3, <1>5, TakenFits
  <1>8. Gap(d, c, take) = y.amount - x.amount
    <2>1. CASE shared /\ d.currency # Base
      <3>1. shared = TRUE
        BY <2>1
      <3>2. QED
        BY <1>1, <1>4, <1>5, <2>1, <3>1 DEF Gap
    <2>2. CASE ~(shared /\ d.currency # Base)
      <3>1. Gap(d, c, take) = 0
        BY <1>1, <2>2 DEF Gap
      <3>2. shared => d.currency = Base /\ c.currency = Base
        BY <1>1, <2>2 DEF Shared
      <3>3. x.amount = take /\ y.amount = take
        BY <1>6, <1>7, <3>2
      <3>4. QED
        BY <3>1, <3>3
    <2>3. QED
      BY <2>1, <2>2
  <1>9. /\ d.currency = Base => x.amount = x.currency
        /\ c.currency = Base => y.amount = y.currency
    BY <1>6, <1>7
  <1>10. QED
    BY <1>1, <1>4, <1>5, <1>6, <1>7, <1>8, <1>9

LEMMA MatchKeeps ==
  OpenItemsInv /\ Match => OpenItemsInv'
  <1>1. SUFFICES ASSUME OpenItemsInv, Match PROVE OpenItemsInv'
    OBVIOUS
  <1>2. TypeOK /\ IdsApart /\ MatchesFit /\ BaseAlike /\ ResidualsAgree /\ RebuiltIsBalance
    BY <1>1 DEF OpenItemsInv
  <1>3. PICK d \in DOMAIN lines, c \in DOMAIN lines :
          /\ Matchable(d, c)
          /\ {m.id : m \in matches} # MatchIds
          /\ \E take \in Takes \cup {Available(lines[d], lines[c])} :
               LET shared == Shared(lines[d], lines[c])
                   fromDebit == Taken(lines[d], take, shared)
                   fromCredit == Taken(lines[c], take, shared)
                   gap == Gap(lines[d], lines[c], take)
                   day == LatestDay(d, c)
               IN /\ take > 0 /\ take <= Available(lines[d], lines[c])
                  /\ fromDebit.amount > 0 /\ fromCredit.amount > 0
                  /\ IsRounded(gap, Minor)
                  /\ lines' = [lines EXCEPT ![d] = Closing(@, fromDebit), ![c] = Closing(@, fromCredit)]
                  /\ matches' = matches \cup
                       {[id |-> NextId, debit |-> d, credit |-> c, debitTaken |-> fromDebit,
                         creditTaken |-> fromCredit, gap |-> gap, day |-> day]}
                  /\ differences' = [differences EXCEPT ![day] = @ + gap]
    BY <1>1 DEF Match
  <1>4. PICK ls : ls = lines
    OBVIOUS
  <1>5. ls \in Seq(OpenLines) /\ d \in DOMAIN ls /\ c \in DOMAIN ls
    BY <1>2, <1>4 DEF TypeOK
  <1>6. /\ ls[d] \in OpenLines /\ ls[d].residual \in Int /\ ls[d].residualCurrency \in Int /\ ls[d].day \in Nat /\ ls[d].day \in Days
        /\ ls[c] \in OpenLines /\ ls[c].residual \in Int /\ ls[c].residualCurrency \in Int /\ ls[c].day \in Nat /\ ls[c].day \in Days
    BY <1>5, LineType
  <1>7. Available(ls[d], ls[c]) \in Int
    BY <1>6, MinOfTwo DEF Available
  <1>8. PICK take \in Nat \ {0} :
          LET shared == Shared(ls[d], ls[c])
              fromDebit == Taken(ls[d], take, shared)
              fromCredit == Taken(ls[c], take, shared)
              gap == Gap(ls[d], ls[c], take)
              day == LatestDay(d, c)
          IN /\ take <= Available(ls[d], ls[c])
             /\ fromDebit.amount > 0 /\ fromCredit.amount > 0
             /\ lines' = [ls EXCEPT ![d] = Closing(@, fromDebit), ![c] = Closing(@, fromCredit)]
             /\ matches' = matches \cup
                  {[id |-> NextId, debit |-> d, credit |-> c, debitTaken |-> fromDebit,
                    creditTaken |-> fromCredit, gap |-> gap, day |-> day]}
             /\ differences' = [differences EXCEPT ![day] = @ + gap]
    <2>1. \A take \in Takes \cup {Available(ls[d], ls[c])} : take > 0 => take \in Nat \ {0}
      BY <1>7, OpenItemsAssumption
    <2>2. QED
      BY <1>3, <1>4, <2>1
  <1>9. PICK x : x = Taken(ls[d], take, Shared(ls[d], ls[c]))
    OBVIOUS
  <1>10. PICK y : y = Taken(ls[c], take, Shared(ls[d], ls[c]))
    OBVIOUS
  <1>11. PICK gap : gap = Gap(ls[d], ls[c], take)
    OBVIOUS
  <1>12. PICK day : day = LatestDay(d, c)
    OBVIOUS
  <1>13. PICK id : id = NextId
    OBVIOUS
  <1>14. PICK m : m = [id |-> id, debit |-> d, credit |-> c, debitTaken |-> x, creditTaken |-> y, gap |-> gap, day |-> day]
    OBVIOUS
  <1>15. /\ take <= Available(ls[d], ls[c]) /\ x.amount > 0 /\ y.amount > 0
         /\ lines' = [ls EXCEPT ![d] = Closing(ls[d], x), ![c] = Closing(ls[c], y)]
         /\ matches' = matches \cup {m}
         /\ differences' = [differences EXCEPT ![day] = @ + gap]
    <2>1. /\ take <= Available(ls[d], ls[c]) /\ x.amount > 0 /\ y.amount > 0
          /\ matches' = matches \cup {m}
          /\ differences' = [differences EXCEPT ![day] = @ + gap]
      BY <1>8, <1>9, <1>10, <1>11, <1>12, <1>13, <1>14
    <2>2. d # c
      BY <1>3 DEF Matchable
    <2>3. lines' = [ls EXCEPT ![d] = Closing(@, x), ![c] = Closing(@, y)]
      BY <1>8, <1>9, <1>10
    <2>4. QED
      BY <2>1, <2>2, <2>3
  <1>16. \A l \in DOMAIN ls : Agrees(ls[l], matches, l)
    BY <1>2, <1>4, Agreeing
  <1>17. /\ ls[d].residual >= 0 /\ ls[d].residualCurrency >= 0
         /\ ls[c].residual >= 0 /\ ls[c].residualCurrency >= 0
    BY <1>5, <1>16 DEF Agrees
  <1>18. /\ ls[d].currency = Base => ls[d].residual = ls[d].residualCurrency
         /\ ls[c].currency = Base => ls[c].residual = ls[c].residualCurrency
    BY <1>2, <1>4 DEF BaseAlike
  <1>19. /\ x \in [amount: Nat, currency: Nat] /\ y \in [amount: Nat, currency: Nat]
         /\ x.amount <= ls[d].residual /\ x.currency <= ls[d].residualCurrency
         /\ y.amount <= ls[c].residual /\ y.currency <= ls[c].residualCurrency
         /\ gap = y.amount - x.amount
         /\ ls[d].currency = Base => x.amount = x.currency
         /\ ls[c].currency = Base => y.amount = y.currency
    BY <1>6, <1>9, <1>10, <1>11, <1>15, <1>17, <1>18, GapIsApart
  <1>20. /\ x.amount \in Nat \ {0} /\ x.currency \in Nat /\ x \in Takings
         /\ y.amount \in Nat \ {0} /\ y.currency \in Nat /\ y \in Takings
         /\ gap \in Int
    <2>1. x.amount \in Nat /\ x.currency \in Nat /\ y.amount \in Nat /\ y.currency \in Nat
      BY <1>19
    <2>2. x \in Takings /\ y \in Takings
      BY <1>15, <1>19 DEF Takings
    <2>3. QED
      BY <1>15, <1>19, <2>1, <2>2
  <1>21. day = Max({ls[d].day, ls[c].day}) /\ day \in Days
    <2>1. day = Max({ls[d].day, ls[c].day})
      BY <1>4, <1>12 DEF LatestDay
    <2>2. PICK a \in Int, b \in Int : a = ls[d].day /\ b = ls[c].day
      BY <1>6
    <2>3. Max({a, b}) \in {a, b}
      BY MaxOfTwo
    <2>4. QED
      BY <1>6, <2>1, <2>2, <2>3
  <1>22. id \in MatchIds /\ \A n \in matches : n.id # id
    <2>1. PICK ids : ids = {n.id : n \in matches}
      OBVIOUS
    <2>2. ids \in SUBSET MatchIds
      BY <1>2, <2>1 DEF TypeOK, MatchRows
    <2>3. id = Min(MatchIds \ ids)
      BY <1>13, <2>1 DEF NextId
    <2>4. id \in MatchIds /\ id \notin ids
      BY <1>3, <2>1, <2>2, <2>3, SomeId
    <2>5. QED
      BY <2>1, <2>4
  <1>23. /\ m \in MatchRows /\ m.id = id /\ m.debit = d /\ m.credit = c /\ m.debitTaken = x
         /\ m.creditTaken = y /\ m.gap = gap /\ m.day = day
    <2>1. d \in Nat /\ c \in Nat
      BY <1>5
    <2>2. QED
      BY <1>14, <1>20, <1>21, <1>22, <2>1 DEF MatchRows
  <1>24. m \notin matches
    BY <1>22, <1>23
  <1>25. d # c /\ ls[d].side = "debit" /\ ls[c].side = "credit"
    BY <1>3, <1>4 DEF Matchable
  <1>26. TakenFrom(m, d) = x /\ TakenFrom(m, c) = y
    BY <1>23, <1>25 DEF TakenFrom
  <1>27. PICK u : u = Closing(ls[d], x)
    OBVIOUS
  <1>28. PICK v : v = Closing(ls[c], y)
    OBVIOUS
  <1>29. /\ u \in OpenLines /\ SameLine(u, ls[d])
         /\ u.residual = ls[d].residual - x.amount /\ u.residualCurrency = ls[d].residualCurrency - x.currency
    BY <1>6, <1>19, <1>27, ClosingType DEF SameLine
  <1>30. /\ v \in OpenLines /\ SameLine(v, ls[c])
         /\ v.residual = ls[c].residual - y.amount /\ v.residualCurrency = ls[c].residualCurrency - y.currency
    BY <1>6, <1>19, <1>28, ClosingType DEF SameLine
  <1>31. PICK ls2 : ls2 = lines'
    OBVIOUS
  <1>32. /\ ls2 \in Seq(OpenLines) /\ DOMAIN ls2 = DOMAIN ls /\ ls2[d] = u /\ ls2[c] = v
         /\ \A l \in DOMAIN ls \ {d, c} : ls2[l] = ls[l]
         /\ \A l \in DOMAIN ls : SameLine(ls2[l], ls[l])
    <2>1. ls2 = [ls EXCEPT ![d] = u, ![c] = v]
      BY <1>15, <1>27, <1>28, <1>31
    <2>2. QED
      BY <1>5, <1>25, <1>29, <1>30, <2>1, TwoLines, SMTT(60)
  <1>33. matches \in SUBSET MatchRows /\ IsFiniteSet(matches) /\ \A n \in matches : n.debit \in DOMAIN ls /\ n.credit \in DOMAIN ls
    BY <1>2, <1>4 DEF TypeOK, MatchesFit
  <1>34. PICK ms : ms = matches \cup {m}
    OBVIOUS
  <1>35. ms \in SUBSET MatchRows /\ IsFiniteSet(ms) /\ matches' = ms
    BY <1>15, <1>23, <1>33, <1>34, FS_AddElement
  <1>36. PICK ds : ds = differences
    OBVIOUS
  <1>37. PICK ds2 : ds2 = differences'
    OBVIOUS
  <1>38. /\ ds \in [Days -> Int] /\ ds2 \in [Days -> Int]
         /\ ds2[day] = ds[day] + gap /\ \A z \in Days \ {day} : ds2[z] = ds[z]
    <2>1. ds \in [Days -> Int]
      BY <1>2, <1>36 DEF TypeOK
    <2>2. ds2 = [ds EXCEPT ![day] = @ + gap]
      BY <1>15, <1>36, <1>37
    <2>3. QED
      BY <1>20, <1>21, <2>1, <2>2
  <1>39. TypeOK'
    BY <1>31, <1>32, <1>35, <1>37, <1>38 DEF TypeOK
  <1>40. IdsApart'
    <2>1. \A p, q \in matches : p.id = q.id => p = q
      BY <1>2 DEF IdsApart
    <2>2. \A p, q \in ms : p.id = q.id => p = q
      BY <1>22, <1>23, <1>34, <2>1
    <2>3. QED
      BY <1>35, <2>2 DEF IdsApart
  <1>41. MatchesFit'
    <2>1. ASSUME NEW n \in ms
          PROVE  /\ n.debit \in DOMAIN ls2 /\ ls2[n.debit].side = "debit"
                 /\ n.credit \in DOMAIN ls2 /\ ls2[n.credit].side = "credit"
                 /\ n.day = Max({ls2[n.debit].day, ls2[n.credit].day})
                 /\ n.gap = n.creditTaken.amount - n.debitTaken.amount
      <3>1. /\ n.debit \in DOMAIN ls /\ ls[n.debit].side = "debit"
            /\ n.credit \in DOMAIN ls /\ ls[n.credit].side = "credit"
            /\ n.day = Max({ls[n.debit].day, ls[n.credit].day})
            /\ n.gap = n.creditTaken.amount - n.debitTaken.amount
        <4>1. CASE n = m
          BY <1>5, <1>19, <1>21, <1>23, <1>25, <4>1
        <4>2. CASE n \in matches
          BY <1>2, <1>4, <4>2 DEF MatchesFit, LatestDay
        <4>3. QED
          BY <1>34, <4>1, <4>2
      <3>2. SameLine(ls2[n.debit], ls[n.debit]) /\ SameLine(ls2[n.credit], ls[n.credit])
        BY <1>32, <3>1
      <3>3. /\ ls2[n.debit].side = ls[n.debit].side /\ ls2[n.debit].day = ls[n.debit].day
            /\ ls2[n.credit].side = ls[n.credit].side /\ ls2[n.credit].day = ls[n.credit].day
        BY <3>2 DEF SameLine
      <3>4. QED
        BY <1>32, <3>1, <3>3
    <2>2. QED
      BY <1>31, <1>35, <2>1 DEF MatchesFit, LatestDay
  <1>42. BaseAlike'
    <2>1. ASSUME NEW l \in DOMAIN ls2, ls2[l].currency = Base
          PROVE  ls2[l].amount = ls2[l].amountCurrency /\ ls2[l].residual = ls2[l].residualCurrency
      <3>1. /\ ls[l].currency = Base
            /\ ls2[l].amount = ls[l].amount /\ ls2[l].amountCurrency = ls[l].amountCurrency
        BY <1>32, <2>1 DEF SameLine
      <3>2. ls[l].amount = ls[l].amountCurrency /\ ls[l].residual = ls[l].residualCurrency
        BY <1>2, <1>4, <1>32, <3>1 DEF BaseAlike
      <3>3. CASE l = d
        BY <1>19, <1>29, <1>32, <3>1, <3>2, <3>3
      <3>4. CASE l = c
        BY <1>19, <1>30, <1>32, <3>1, <3>2, <3>4
      <3>5. CASE l \notin {d, c}
        BY <1>32, <3>1, <3>2, <3>5
      <3>6. QED
        BY <3>3, <3>4, <3>5
    <2>2. ASSUME NEW n \in ms, NEW l \in {n.debit, n.credit}, ls2[l].currency = Base
          PROVE  TakenFrom(n, l).amount = TakenFrom(n, l).currency
      <3>1. CASE n = m
        <4>1. l \in {d, c} /\ ls[l].currency = Base
          BY <1>5, <1>23, <1>32, <2>2, <3>1 DEF SameLine
        <4>2. QED
          BY <1>19, <1>26, <3>1, <4>1
      <3>2. CASE n \in matches
        <4>1. ls[l].currency = Base
          BY <1>32, <1>33, <2>2, <3>2 DEF SameLine
        <4>2. QED
          BY <1>2, <1>4, <3>2, <4>1 DEF BaseAlike
      <3>3. QED
        BY <1>34, <3>1, <3>2
    <2>3. QED
      BY <1>31, <1>35, <2>1, <2>2 DEF BaseAlike
  <1>43. ResidualsAgree'
    <2>1. Agrees(u, ms, d)
      <3>1. u.residual >= 0 /\ u.residualCurrency >= 0
        BY <1>6, <1>19, <1>20, <1>29
      <3>2. Agrees(ls[d], matches, d)
        BY <1>5, <1>16
      <3>3. u.amount = ls[d].amount /\ u.amountCurrency = ls[d].amountCurrency
        BY <1>29 DEF SameLine
      <3>4. QED
        BY <1>6, <1>23, <1>24, <1>26, <1>29, <1>33, <1>34, <3>1, <3>2, <3>3, AgreesWhenMatched
    <2>2. Agrees(v, ms, c)
      <3>1. v.residual >= 0 /\ v.residualCurrency >= 0
        BY <1>6, <1>19, <1>20, <1>30
      <3>2. Agrees(ls[c], matches, c)
        BY <1>5, <1>16
      <3>3. v.amount = ls[c].amount /\ v.amountCurrency = ls[c].amountCurrency
        BY <1>30 DEF SameLine
      <3>4. QED
        BY <1>6, <1>23, <1>24, <1>26, <1>30, <1>33, <1>34, <3>1, <3>2, <3>3, AgreesWhenMatched
    <2>3. \A l \in DOMAIN ls \ {d, c} : Agrees(ls[l], ms, l)
      BY <1>16, <1>23, <1>34, AgreesApart
    <2>4. \A l \in DOMAIN ls2 : Agrees(ls2[l], ms, l)
      BY <1>32, <2>1, <2>2, <2>3
    <2>5. QED
      BY <1>31, <1>35, <2>4 DEF ResidualsAgree, Agrees, MatchedOf, MatchesOf
  <1>44. RebuiltIsBalance'
    <2>1. ASSUME NEW on \in Days \cup {Today}
          PROVE  RebuiltIn(ls2, ms, on) = BookedIn(ls2, on) + DifferencesIn(ds2, on)
      <3>1. on \in Nat
        BY OnADay
      <3>2. RebuiltIn(ls, matches, on) = BookedIn(ls, on) + DifferencesIn(ds, on)
        BY <1>2, <1>4, <1>36, Rebuilt
      <3>3. RebuiltIn(ls, ms, on) = RebuiltIn(ls, matches, on) + (IF day <= on THEN gap ELSE 0)
        <4>1. /\ m.debit \in DOMAIN ls /\ ls[m.debit].side = "debit"
              /\ m.credit \in DOMAIN ls /\ ls[m.credit].side = "credit"
              /\ m.day = Max({ls[m.debit].day, ls[m.credit].day})
              /\ m.gap = m.creditTaken.amount - m.debitTaken.amount
          BY <1>5, <1>19, <1>21, <1>23, <1>25
        <4>2. RebuiltIn(ls, matches \cup {m}, on) = RebuiltIn(ls, matches, on) + (IF m.day <= on THEN m.gap ELSE 0)
          BY <1>5, <1>23, <1>24, <1>33, <3>1, <4>1, MatchMoves
        <4>3. QED
          BY <1>23, <1>34, <4>2
      <3>4. DifferencesIn(ds2, on) = DifferencesIn(ds, on) + (IF day <= on THEN gap ELSE 0)
        <4>1. ds \in [Days -> Int] /\ ds2 \in [Days -> Int] /\ day \in Days /\ gap \in Int
          BY <1>20, <1>21, <1>38
        <4>2. ds2[day] = ds[day] + gap /\ \A z \in Days \ {day} : ds2[z] = ds[z]
          BY <1>38
        <4>3. QED
          BY <3>1, <4>1, <4>2, DifferenceMoves
      <3>5. PICK moved \in Int : moved = IF day <= on THEN gap ELSE 0
        BY <1>20
      <3>6. RebuiltIn(ls2, ms, on) = RebuiltIn(ls, ms, on) /\ BookedIn(ls2, on) = BookedIn(ls, on)
        <4>1. \A n \in ms : n.debit \in DOMAIN ls /\ n.credit \in DOMAIN ls
          BY <1>5, <1>23, <1>33, <1>34
        <4>2. \A l \in DOMAIN ls : ls2[l].day = ls[l].day /\ ls2[l].side = ls[l].side /\ ls2[l].amount = ls[l].amount
          BY <1>32 DEF SameLine
        <4>3. QED
          BY <1>5, <1>32, <4>1, <4>2, OpenAmountsApart
      <3>7. DifferencesIn(ds, on) \in Int
        BY <1>38, <3>1, DifferencesInt
      <3>8. BookedIn(ls, on) \in Int
        BY <1>5, BookedInt
      <3>9. RebuiltIn(ls, ms, on) = RebuiltIn(ls, matches, on) + moved /\ DifferencesIn(ds2, on) = DifferencesIn(ds, on) + moved
        BY <3>3, <3>4, <3>5
      <3>10. QED
        BY <3>2, <3>6, <3>7, <3>8, <3>9
    <2>2. QED
      BY <1>31, <1>35, <1>37, <2>1 DEF RebuiltIsBalance, RebuiltIn, BookedIn, DifferencesIn, Balance, OpenIn,
                                   MatchedIn, UntilIn, OpenAsOf, Until, MatchesOf
  <1>45. QED
    BY <1>39, <1>40, <1>41, <1>42, <1>43, <1>44 DEF OpenItemsInv

LEMMA UnmatchKeeps ==
  OpenItemsInv /\ Unmatch => OpenItemsInv'
  <1>1. SUFFICES ASSUME OpenItemsInv, Unmatch PROVE OpenItemsInv'
    OBVIOUS
  <1>2. TypeOK /\ IdsApart /\ MatchesFit /\ BaseAlike /\ ResidualsAgree /\ RebuiltIsBalance
    BY <1>1 DEF OpenItemsInv
  <1>3. PICK m \in matches :
          /\ lines' = [lines EXCEPT ![m.debit] = Reopening(@, m.debitTaken),
                                    ![m.credit] = Reopening(@, m.creditTaken)]
          /\ matches' = matches \ {m}
          /\ differences' = [differences EXCEPT ![m.day] = @ - m.gap]
    BY <1>1 DEF Unmatch
  <1>4. PICK ls : ls = lines
    OBVIOUS
  <1>5. /\ ls \in Seq(OpenLines) /\ matches \in SUBSET MatchRows /\ IsFiniteSet(matches)
        /\ \A n \in matches : n.debit \in DOMAIN ls /\ n.credit \in DOMAIN ls
    BY <1>2, <1>4 DEF TypeOK, MatchesFit
  <1>6. PICK d \in DOMAIN ls, c \in DOMAIN ls : d = m.debit /\ c = m.credit
    BY <1>5
  <1>7. PICK x : x = m.debitTaken
    OBVIOUS
  <1>8. PICK y : y = m.creditTaken
    OBVIOUS
  <1>9. PICK day : day = m.day
    OBVIOUS
  <1>10. PICK gap : gap = m.gap
    OBVIOUS
  <1>11. /\ x \in Takings /\ y \in Takings /\ day \in Days /\ gap \in Int
         /\ x \in [amount: Nat, currency: Nat] /\ x.amount \in Nat /\ x.currency \in Nat
         /\ y \in [amount: Nat, currency: Nat] /\ y.amount \in Nat /\ y.currency \in Nat
    <2>1. m \in MatchRows
      BY <1>5
    <2>2. x \in Takings /\ y \in Takings /\ day \in Days /\ gap \in Int
      BY <1>7, <1>8, <1>9, <1>10, <2>1 DEF MatchRows
    <2>3. QED
      BY <2>2 DEF Takings
  <1>12. /\ ls[d].side = "debit" /\ ls[c].side = "credit" /\ day = Max({ls[d].day, ls[c].day})
         /\ gap = y.amount - x.amount
    BY <1>2, <1>4, <1>6, <1>7, <1>8, <1>9, <1>10 DEF MatchesFit, LatestDay
  <1>13. d # c
    BY <1>12
  <1>14. TakenFrom(m, d) = x /\ TakenFrom(m, c) = y
    BY <1>6, <1>7, <1>8, <1>13 DEF TakenFrom
  <1>15. /\ ls[d].currency = Base => x.amount = x.currency
         /\ ls[c].currency = Base => y.amount = y.currency
    BY <1>2, <1>4, <1>6, <1>14 DEF BaseAlike
  <1>16. /\ ls[d] \in OpenLines /\ ls[d].residual \in Int /\ ls[d].residualCurrency \in Int
         /\ ls[c] \in OpenLines /\ ls[c].residual \in Int /\ ls[c].residualCurrency \in Int
    BY <1>5, LineType
  <1>17. \A l \in DOMAIN ls : Agrees(ls[l], matches, l)
    BY <1>2, <1>4, Agreeing
  <1>18. PICK u : u = Reopening(ls[d], x)
    OBVIOUS
  <1>19. PICK v : v = Reopening(ls[c], y)
    OBVIOUS
  <1>20. /\ u \in OpenLines /\ SameLine(u, ls[d])
         /\ u.residual = ls[d].residual + x.amount /\ u.residualCurrency = ls[d].residualCurrency + x.currency
    BY <1>11, <1>16, <1>18, ReopeningType DEF SameLine
  <1>21. /\ v \in OpenLines /\ SameLine(v, ls[c])
         /\ v.residual = ls[c].residual + y.amount /\ v.residualCurrency = ls[c].residualCurrency + y.currency
    BY <1>11, <1>16, <1>19, ReopeningType DEF SameLine
  <1>22. PICK ls2 : ls2 = lines'
    OBVIOUS
  <1>23. /\ ls2 \in Seq(OpenLines) /\ DOMAIN ls2 = DOMAIN ls /\ ls2[d] = u /\ ls2[c] = v
         /\ \A l \in DOMAIN ls \ {d, c} : ls2[l] = ls[l]
         /\ \A l \in DOMAIN ls : SameLine(ls2[l], ls[l])
    <2>1. ls2 = [ls EXCEPT ![d] = u, ![c] = v]
      BY <1>3, <1>4, <1>6, <1>7, <1>8, <1>13, <1>18, <1>19, <1>22
    <2>2. QED
      BY <1>5, <1>13, <1>20, <1>21, <2>1, TwoLines, SMTT(60)
  <1>24. PICK ms : ms = matches \ {m}
    OBVIOUS
  <1>25. /\ ms \in SUBSET MatchRows /\ IsFiniteSet(ms) /\ matches' = ms /\ m \notin ms /\ m \in MatchRows
         /\ ms \cup {m} = matches /\ ms \subseteq matches
    BY <1>3, <1>5, <1>24, FS_Subset
  <1>26. PICK ds : ds = differences
    OBVIOUS
  <1>27. PICK ds2 : ds2 = differences'
    OBVIOUS
  <1>28. /\ ds \in [Days -> Int] /\ ds2 \in [Days -> Int]
         /\ ds[day] = ds2[day] + gap /\ \A z \in Days \ {day} : ds[z] = ds2[z]
    <2>1. ds \in [Days -> Int]
      BY <1>2, <1>26 DEF TypeOK
    <2>2. ds2 = [ds EXCEPT ![day] = @ - gap]
      BY <1>3, <1>9, <1>10, <1>26, <1>27
    <2>3. QED
      BY <1>11, <2>1, <2>2
  <1>29. TypeOK'
    BY <1>22, <1>23, <1>25, <1>27, <1>28 DEF TypeOK
  <1>30. IdsApart'
    BY <1>2, <1>25 DEF IdsApart
  <1>31. MatchesFit'
    <2>1. ASSUME NEW n \in ms
          PROVE  /\ n.debit \in DOMAIN ls2 /\ ls2[n.debit].side = "debit"
                 /\ n.credit \in DOMAIN ls2 /\ ls2[n.credit].side = "credit"
                 /\ n.day = Max({ls2[n.debit].day, ls2[n.credit].day})
                 /\ n.gap = n.creditTaken.amount - n.debitTaken.amount
      <3>1. /\ n.debit \in DOMAIN ls /\ ls[n.debit].side = "debit"
            /\ n.credit \in DOMAIN ls /\ ls[n.credit].side = "credit"
            /\ n.day = Max({ls[n.debit].day, ls[n.credit].day})
            /\ n.gap = n.creditTaken.amount - n.debitTaken.amount
        BY <1>2, <1>4, <1>25 DEF MatchesFit, LatestDay
      <3>2. SameLine(ls2[n.debit], ls[n.debit]) /\ SameLine(ls2[n.credit], ls[n.credit])
        BY <1>23, <3>1
      <3>3. /\ ls2[n.debit].side = ls[n.debit].side /\ ls2[n.debit].day = ls[n.debit].day
            /\ ls2[n.credit].side = ls[n.credit].side /\ ls2[n.credit].day = ls[n.credit].day
        BY <3>2 DEF SameLine
      <3>4. QED
        BY <1>23, <3>1, <3>3
    <2>2. QED
      BY <1>22, <1>25, <2>1 DEF MatchesFit, LatestDay
  <1>32. BaseAlike'
    <2>1. ASSUME NEW l \in DOMAIN ls2, ls2[l].currency = Base
          PROVE  ls2[l].amount = ls2[l].amountCurrency /\ ls2[l].residual = ls2[l].residualCurrency
      <3>1. /\ ls[l].currency = Base
            /\ ls2[l].amount = ls[l].amount /\ ls2[l].amountCurrency = ls[l].amountCurrency
        BY <1>23, <2>1 DEF SameLine
      <3>2. ls[l].amount = ls[l].amountCurrency /\ ls[l].residual = ls[l].residualCurrency
        BY <1>2, <1>4, <1>23, <3>1 DEF BaseAlike
      <3>3. CASE l = d
        BY <1>15, <1>20, <1>23, <3>1, <3>2, <3>3
      <3>4. CASE l = c
        BY <1>15, <1>21, <1>23, <3>1, <3>2, <3>4
      <3>5. CASE l \notin {d, c}
        BY <1>23, <3>1, <3>2, <3>5
      <3>6. QED
        BY <3>3, <3>4, <3>5
    <2>2. ASSUME NEW n \in ms, NEW l \in {n.debit, n.credit}, ls2[l].currency = Base
          PROVE  TakenFrom(n, l).amount = TakenFrom(n, l).currency
      <3>1. n \in matches /\ ls[l].currency = Base
        BY <1>5, <1>23, <1>25, <2>2 DEF SameLine
      <3>2. QED
        BY <1>2, <1>4, <3>1 DEF BaseAlike
    <2>3. QED
      BY <1>22, <1>25, <2>1, <2>2 DEF BaseAlike
  <1>33. ResidualsAgree'
    <2>1. Agrees(u, ms, d)
      <3>1. Agrees(ls[d], ms \cup {m}, d)
        BY <1>17, <1>25
      <3>2. ls[d].amount = u.amount /\ ls[d].amountCurrency = u.amountCurrency
        BY <1>20 DEF SameLine
      <3>3. ls[d].residual = u.residual - TakenFrom(m, d).amount /\ ls[d].residualCurrency = u.residualCurrency - TakenFrom(m, d).currency
        BY <1>11, <1>14, <1>16, <1>20
      <3>4. QED
        BY <1>6, <1>16, <1>20, <1>25, <3>1, <3>2, <3>3, AgreesWhenMatched
    <2>2. Agrees(v, ms, c)
      <3>1. Agrees(ls[c], ms \cup {m}, c)
        BY <1>17, <1>25
      <3>2. ls[c].amount = v.amount /\ ls[c].amountCurrency = v.amountCurrency
        BY <1>21 DEF SameLine
      <3>3. ls[c].residual = v.residual - TakenFrom(m, c).amount /\ ls[c].residualCurrency = v.residualCurrency - TakenFrom(m, c).currency
        BY <1>11, <1>14, <1>16, <1>21
      <3>4. QED
        BY <1>6, <1>16, <1>21, <1>25, <3>1, <3>2, <3>3, AgreesWhenMatched
    <2>3. \A l \in DOMAIN ls \ {d, c} : Agrees(ls[l], ms, l)
      BY <1>6, <1>17, <1>25, AgreesApart
    <2>4. \A l \in DOMAIN ls2 : Agrees(ls2[l], ms, l)
      BY <1>23, <2>1, <2>2, <2>3
    <2>5. QED
      BY <1>22, <1>25, <2>4 DEF ResidualsAgree, Agrees, MatchedOf, MatchesOf
  <1>34. RebuiltIsBalance'
    <2>1. ASSUME NEW on \in Days \cup {Today}
          PROVE  RebuiltIn(ls2, ms, on) = BookedIn(ls2, on) + DifferencesIn(ds2, on)
      <3>1. on \in Nat
        BY OnADay
      <3>2. RebuiltIn(ls, ms \cup {m}, on) = BookedIn(ls, on) + DifferencesIn(ds, on)
        BY <1>2, <1>4, <1>25, <1>26, Rebuilt
      <3>3. RebuiltIn(ls, ms \cup {m}, on) = RebuiltIn(ls, ms, on) + (IF day <= on THEN gap ELSE 0)
        <4>1. /\ m.debit \in DOMAIN ls /\ ls[m.debit].side = "debit"
              /\ m.credit \in DOMAIN ls /\ ls[m.credit].side = "credit"
              /\ m.day = Max({ls[m.debit].day, ls[m.credit].day})
              /\ m.gap = m.creditTaken.amount - m.debitTaken.amount
          BY <1>6, <1>7, <1>8, <1>9, <1>10, <1>12
        <4>2. RebuiltIn(ls, ms \cup {m}, on) = RebuiltIn(ls, ms, on) + (IF m.day <= on THEN m.gap ELSE 0)
          BY <1>5, <1>25, <3>1, <4>1, MatchMoves
        <4>3. QED
          BY <1>9, <1>10, <4>2
      <3>4. DifferencesIn(ds, on) = DifferencesIn(ds2, on) + (IF day <= on THEN gap ELSE 0)
        <4>1. ds \in [Days -> Int] /\ ds2 \in [Days -> Int] /\ day \in Days /\ gap \in Int
          BY <1>11, <1>28
        <4>2. ds[day] = ds2[day] + gap /\ \A z \in Days \ {day} : ds[z] = ds2[z]
          BY <1>28
        <4>3. QED
          BY <3>1, <4>1, <4>2, DifferenceMoves
      <3>5. PICK moved \in Int : moved = IF day <= on THEN gap ELSE 0
        BY <1>11
      <3>6. RebuiltIn(ls2, ms, on) = RebuiltIn(ls, ms, on) /\ BookedIn(ls2, on) = BookedIn(ls, on)
        <4>1. \A n \in ms : n.debit \in DOMAIN ls /\ n.credit \in DOMAIN ls
          BY <1>5, <1>25
        <4>2. \A l \in DOMAIN ls : ls2[l].day = ls[l].day /\ ls2[l].side = ls[l].side /\ ls2[l].amount = ls[l].amount
          BY <1>23 DEF SameLine
        <4>3. ls \in Seq(OpenLines) /\ ls2 \in Seq(OpenLines) /\ DOMAIN ls2 = DOMAIN ls
          BY <1>5, <1>23
        <4>4. QED
          BY <4>1, <4>2, <4>3, OpenAmountsApart
      <3>7. DifferencesIn(ds2, on) \in Int
        BY <1>28, <3>1, DifferencesInt
      <3>8. BookedIn(ls, on) \in Int /\ RebuiltIn(ls, ms, on) \in Int
        BY <1>5, <1>25, BookedInt, RebuiltInt
      <3>9. RebuiltIn(ls, ms \cup {m}, on) = RebuiltIn(ls, ms, on) + moved /\ DifferencesIn(ds, on) = DifferencesIn(ds2, on) + moved
        BY <3>3, <3>4, <3>5
      <3>10. RebuiltIn(ls, ms, on) + moved = BookedIn(ls, on) + (DifferencesIn(ds2, on) + moved)
        BY <3>2, <3>9
      <3>11. RebuiltIn(ls, ms, on) = BookedIn(ls, on) + DifferencesIn(ds2, on)
        BY <3>5, <3>7, <3>8, <3>10
      <3>12. QED
        BY <3>6, <3>11
    <2>2. QED
      BY <1>22, <1>25, <1>27, <2>1 DEF RebuiltIsBalance, RebuiltIn, BookedIn, DifferencesIn, Balance, OpenIn,
                                   MatchedIn, UntilIn, OpenAsOf, Until, MatchesOf
  <1>35. QED
    BY <1>29, <1>30, <1>31, <1>32, <1>33, <1>34 DEF OpenItemsInv

(* The inductive invariant: residuals agree with the matches, and what is  *)
(* rebuilt of a day with its balance, because every match posts what its   *)
(* two sides are apart on the day from which the report counts it.         *)
THEOREM Invariance ==
  Spec => []OpenItemsInv
  <1>1. Init => OpenItemsInv
    BY InitHolds
  <1>2. OpenItemsInv /\ [Next]_vars => OpenItemsInv'
    <2>1. SUFFICES ASSUME OpenItemsInv, [Next]_vars PROVE OpenItemsInv'
      OBVIOUS
    <2>2. CASE Post
      BY <2>1, <2>2, PostKeeps
    <2>3. CASE Reverse
      BY <2>1, <2>3, ReverseKeeps
    <2>4. CASE Match
      BY <2>1, <2>4, MatchKeeps
    <2>5. CASE Unmatch
      BY <2>1, <2>5, UnmatchKeeps
    <2>6. CASE UNCHANGED vars
      BY <2>1, <2>6 DEF vars, OpenItemsInv, TypeOK, IdsApart, MatchesFit, LatestDay, BaseAlike, ResidualsAgree,
                        RebuiltIsBalance, Balance, OpenAsOf, Until, MatchesOf
    <2>7. QED
      BY <2>1, <2>2, <2>3, <2>4, <2>5, <2>6 DEF Next
  <1>3. QED
    BY <1>1, <1>2, PTL DEF Spec

-----------------------------------------------------------------------------
(* What the system shows.                                                  *)

(* check_line_residual (0005:248) never refuses a step, for any rates,     *)
(* amounts and matches: residuals agree with the matches in both           *)
(* currencies, and no line is matched for more than it has.                *)
THEOREM ResidualsAlwaysAgree ==
  Spec => []ResidualsAgree
  <1>1. OpenItemsInv => ResidualsAgree
    BY DEF OpenItemsInv
  <1>2. QED
    BY <1>1, Invariance, PTL

LEMMA AgedWhenRebuilt ==
  ASSUME OpenItemsInv, NEW on \in Days \cup {Today}, on < Today
  PROVE  AgedTotal(on) = Balance(on)
  <1>1. AgedTotal(on) = SumFunctionOnSet([l \in Until(on) |-> Signed(lines[l], OpenAsOf(l, on))], Until(on))
    BY DEF AgedTotal, OpenOn
  <1>2. QED
    BY <1>1 DEF OpenItemsInv, RebuiltIsBalance

(* The aged report of a day that has passed totals the balance of that     *)
(* day (aged.py:93-120), for any rates, matches and days, whatever has     *)
(* been dated since.                                                       *)
THEOREM PastDaysAlwaysBalance ==
  Spec => [](\A on \in Days \cup {Today} : on < Today => AgedTotal(on) = Balance(on))
  <1>1. OpenItemsInv => \A on \in Days \cup {Today} : on < Today => AgedTotal(on) = Balance(on)
    BY AgedWhenRebuilt
  <1>2. QED
    BY <1>1, Invariance, PTL

(* Where nothing is dated later, what is open now is what is rebuilt.      *)
LEMMA AgedWhenRead ==
  ASSUME OpenItemsInv, \A day \in Days : day <= Today, NEW on \in Days \cup {Today}, ~(on < Today)
  PROVE  AgedTotal(on) = Balance(on)
  <1>1. TypeOK /\ MatchesFit /\ ResidualsAgree /\ RebuiltIsBalance
    BY DEF OpenItemsInv
  <1>2. PICK ls : ls = lines
    OBVIOUS
  <1>3. ls \in Seq(OpenLines) /\ matches \in SUBSET MatchRows /\ IsFiniteSet(matches)
    BY <1>1, <1>2 DEF TypeOK
  <1>4. on \in Nat /\ Today \in Nat
    BY OnADay, OpenItemsAssumption
  <1>5. \A l \in DOMAIN ls : ls[l].day <= on
    <2>1. SUFFICES ASSUME NEW l \in DOMAIN ls PROVE ls[l].day <= on
      OBVIOUS
    <2>2. ls[l].day \in Days /\ ls[l].day \in Nat
      BY <1>3, LineType
    <2>3. ls[l].day <= Today
      BY <2>2
    <2>4. QED
      BY <1>4, <2>2, <2>3
  <1>6. \A l \in DOMAIN ls : OpenAsOf(l, on) = ls[l].residual
    <2>1. SUFFICES ASSUME NEW l \in DOMAIN ls PROVE OpenAsOf(l, on) = ls[l].residual
      OBVIOUS
    <2>2. \A m \in MatchesOf(l) : Across(m, l) \in DOMAIN ls
      BY <1>1, <1>2 DEF MatchesOf, MatchesFit, Across
    <2>3. {m \in MatchesOf(l) : lines[Across(m, l)].day <= on} = MatchesOf(l)
      BY <1>2, <1>5, <2>2
    <2>4. OpenAsOf(l, on) = ls[l].amount - AmountTaken(l, MatchesOf(l))
      BY <1>2, <2>3 DEF OpenAsOf
    <2>5. QED
      BY <1>1, <1>2, <2>4 DEF ResidualsAgree
  <1>7. \A l \in Until(on) : Signed(lines[l], OpenOn(l, on)) = Signed(lines[l], OpenAsOf(l, on))
    BY <1>2, <1>6 DEF Until, OpenOn
  <1>8. [l \in Until(on) |-> Signed(lines[l], OpenOn(l, on))] = [l \in Until(on) |-> Signed(lines[l], OpenAsOf(l, on))]
    BY <1>7
  <1>9. QED
    BY <1>1, <1>8 DEF AgedTotal, RebuiltIsBalance

(* Where no entry is dated after today, the report of today totals its     *)
(* balance too, and so the aged report of any day does (aged.py:165).      *)
THEOREM AgedAlwaysBalances ==
  ASSUME \A day \in Days : day <= Today
  PROVE  Spec => []AgedIsBalance
  <1>1. OpenItemsInv => AgedIsBalance
    BY AgedWhenRebuilt, AgedWhenRead DEF AgedIsBalance
  <1>2. QED
    BY <1>1, Invariance, PTL

-----------------------------------------------------------------------------
(* The payment state of documents.                                         *)

LEMMA TakenSplit ==
  ASSUME NEW ms \in SUBSET MatchRows, IsFiniteSet(ms), NEW ns \in SUBSET ms, NEW l
  PROVE  AmountTaken(l, ms) = AmountTaken(l, ns) + AmountTaken(l, ms \ ns)
  <1>1. PICK f : f = [m \in ms |-> TakenFrom(m, l).amount]
    OBVIOUS
  <1>2. PICK rest : rest = ms \ ns
    OBVIOUS
  <1>3. IsFiniteSet(ns) /\ IsFiniteSet(rest) /\ ns \cap rest = {} /\ ns \cup rest = ms
    BY <1>2, FS_Subset
  <1>4. IntOn(f, ns \cup rest)
    BY <1>1, <1>3, TakenType DEF IntOn
  <1>5. SumFunctionOnSet(f, ns \cup rest) = SumFunctionOnSet(f, ns) + SumFunctionOnSet(f, rest)
    BY <1>3, <1>4, SumSplit
  <1>6. AmountTaken(l, ms) = SumFunctionOnSet(f, ms)
    BY <1>1 DEF AmountTaken
  <1>7. \A T \in SUBSET ms : AmountTaken(l, T) = SumFunctionOnSet(f, T)
    BY <1>1, TakenOver
  <1>8. QED
    BY <1>2, <1>3, <1>5, <1>6, <1>7

(* Of the matches with each of some lines, together.                       *)
LEMMA TakenParts ==
  ASSUME NEW ms \in SUBSET MatchRows, IsFiniteSet(ms), NEW l, NEW P, IsFiniteSet(P),
         NEW part \in [P -> SUBSET ms], \A p, q \in P : p # q => part[p] \cap part[q] = {}
  PROVE  SumFunctionOnSet([p \in P |-> AmountTaken(l, part[p])], P) = AmountTaken(l, UNION {part[p] : p \in P})
  <1>1. PICK f : f = [m \in ms |-> TakenFrom(m, l).amount]
    OBVIOUS
  <1>2. IntOn(f, ms)
    BY <1>1, TakenType DEF IntOn
  <1>3. \A T \in SUBSET ms : AmountTaken(l, T) = SumFunctionOnSet(f, T)
    BY <1>1, TakenOver
  <1>4. [p \in P |-> AmountTaken(l, part[p])] = [p \in P |-> SumFunctionOnSet(f, part[p])]
    BY <1>3
  <1>5. SumFunctionOnSet([p \in P |-> SumFunctionOnSet(f, part[p])], P) = SumFunctionOnSet(f, UNION {part[p] : p \in P})
    BY <1>2, SumParts
  <1>6. PICK T : T = UNION {part[p] : p \in P}
    OBVIOUS
  <1>7. T \in SUBSET ms
    BY <1>6
  <1>8. QED
    BY <1>3, <1>4, <1>5, <1>6, <1>7

LEMMA Explained ==
  ASSUME OpenItemsInv, NEW l \in DocumentLines, ~Reversed(l)
  PROVE  LET shown == PaymentState(l)
             others == {m \in MatchesOf(l) : Across(m, l) \notin PaymentLines}
         IN /\ shown.paid = SumFunctionOnSet(shown.payments, DOMAIN shown.payments) + AmountTaken(l, others)
            /\ \A p \in PaymentLines : p \in DOMAIN shown.payments <=> l \in SettledBy(p)
            /\ (shown.state = "not_paid") <=> MatchesOf(l) = {}
  <1>1. TypeOK /\ MatchesFit /\ ResidualsAgree
    BY DEF OpenItemsInv
  <1>2. l \in DOMAIN lines /\ l \notin PaymentLines
    BY DEF DocumentLines, PaymentLines
  <1>3. PICK ms : ms = MatchesOf(l)
    OBVIOUS
  <1>4. ms \in SUBSET MatchRows /\ IsFiniteSet(ms)
    BY <1>1, <1>3, FS_Subset DEF TypeOK, MatchesOf
  <1>5. \A m \in matches : m.debit # m.credit
    BY <1>1 DEF MatchesFit
  <1>6. PICK amount \in Int, residual \in Int :
          /\ amount = lines[l].amount /\ residual = lines[l].residual
          /\ residual = amount - AmountTaken(l, ms)
    <2>1. lines \in Seq(OpenLines)
      BY <1>1 DEF TypeOK
    <2>2. lines[l].amount \in Int /\ lines[l].residual \in Int
      BY <1>2, <2>1, LineType
    <2>3. QED
      BY <1>1, <1>2, <1>3, <2>2 DEF ResidualsAgree
  <1>7. AmountTaken(l, ms) \in Nat
    BY <1>4, TakenNat
  <1>8. PICK P : P = PaymentsBehind(l)
    OBVIOUS
  <1>9. PICK part : part = [p \in P |-> ms \cap MatchesOf(p)]
    OBVIOUS
  <1>10. PICK shown : shown = PaymentState(l)
    OBVIOUS
  <1>11. /\ shown.state = IF residual = amount THEN "not_paid" ELSE IF residual = 0 THEN "paid" ELSE "partial"
         /\ shown.paid = amount - residual
         /\ shown.payments = [p \in P |-> AmountTaken(l, part[p])]
    <2>1. Behind(l) = [p \in P |-> AmountTaken(l, part[p])]
      BY <1>3, <1>8, <1>9 DEF Behind
    <2>2. shown = [state    |-> IF residual = amount THEN "not_paid" ELSE IF residual = 0 THEN "paid" ELSE "partial",
                   paid     |-> amount - residual,
                   payments |-> Behind(l)]
      BY <1>6, <1>10 DEF PaymentState
    <2>3. QED
      BY <2>1, <2>2
  <1>12. \A m \in ms : l \in {m.debit, m.credit}
    BY <1>3 DEF MatchesOf
  <1>13. \A m \in ms, p \in PaymentLines : p \in {m.debit, m.credit} <=> Across(m, l) = p
    <2>1. SUFFICES ASSUME NEW m \in ms, NEW p \in PaymentLines
                   PROVE  p \in {m.debit, m.credit} <=> Across(m, l) = p
      OBVIOUS
    <2>2. p # l /\ l \in {m.debit, m.credit}
      BY <1>2, <1>12
    <2>3. m.debit # m.credit
      BY <1>3, <1>5 DEF MatchesOf
    <2>4. QED
      BY <2>2, <2>3 DEF Across
  <1>14. IsFiniteSet(P) /\ \A p \in P : p \in PaymentLines
    <2>1. IsFiniteSet(DOMAIN lines)
      BY <1>1, FS_Interval DEF TypeOK
    <2>2. P \in SUBSET DOMAIN lines /\ \A p \in P : p \in PaymentLines
      BY <1>8 DEF PaymentsBehind, PaymentLines
    <2>3. QED
      BY <2>1, <2>2, FS_Subset
  <1>15. part \in [P -> SUBSET ms] /\ \A p \in P : part[p] = ms \cap MatchesOf(p)
    BY <1>9
  <1>16. \A p \in P, m \in ms : m \in part[p] <=> Across(m, l) = p
    <2>1. SUFFICES ASSUME NEW p \in P, NEW m \in ms PROVE m \in part[p] <=> Across(m, l) = p
      OBVIOUS
    <2>2. m \in MatchesOf(p) <=> p \in {m.debit, m.credit}
      BY <1>3 DEF MatchesOf
    <2>3. QED
      BY <1>13, <1>14, <1>15, <2>2
  <1>17. \A p, q \in P : p # q => part[p] \cap part[q] = {}
    BY <1>15, <1>16
  <1>18. PICK toPayments : toPayments = UNION {part[p] : p \in P}
    OBVIOUS
  <1>19. toPayments \in SUBSET ms /\ ms \ toPayments = {m \in ms : Across(m, l) \notin PaymentLines}
    <2>1. \A m \in ms : Across(m, l) \in PaymentLines => Across(m, l) \in P
      BY <1>3, <1>8 DEF PaymentsBehind
    <2>2. \A m \in ms : m \in toPayments <=> Across(m, l) \in P
      BY <1>15, <1>16, <1>18
    <2>3. toPayments \in SUBSET ms
      BY <1>15, <1>18
    <2>4. QED
      BY <1>14, <2>1, <2>2, <2>3
  <1>20. SumFunctionOnSet(shown.payments, P) = AmountTaken(l, toPayments)
    <2>1. SumFunctionOnSet([p \in P |-> AmountTaken(l, part[p])], P) = AmountTaken(l, UNION {part[p] : p \in P})
      BY <1>4, <1>14, <1>15, <1>17, TakenParts
    <2>2. QED
      BY <1>11, <1>18, <2>1
  <1>21. AmountTaken(l, ms) = AmountTaken(l, toPayments) + AmountTaken(l, ms \ toPayments)
    BY <1>4, <1>19, TakenSplit
  <1>22. DOMAIN shown.payments = P
    BY <1>11
  <1>23. shown.paid = SumFunctionOnSet(shown.payments, DOMAIN shown.payments)
                      + AmountTaken(l, {m \in MatchesOf(l) : Across(m, l) \notin PaymentLines})
    <2>1. shown.paid = AmountTaken(l, ms)
      BY <1>6, <1>7, <1>11
    <2>2. shown.paid = SumFunctionOnSet(shown.payments, P) + AmountTaken(l, ms \ toPayments)
      BY <1>20, <1>21, <2>1
    <2>3. QED
      BY <1>3, <1>19, <1>22, <2>2
  <1>24. \A p \in PaymentLines : p \in DOMAIN shown.payments <=> l \in SettledBy(p)
    <2>1. SUFFICES ASSUME NEW p \in PaymentLines PROVE p \in P <=> l \in SettledBy(p)
      BY <1>22
    <2>2. p # l
      BY <1>2
    <2>3. p \in P <=> \E m \in matches : l \in {m.debit, m.credit} /\ Across(m, l) = p
      BY <1>8 DEF PaymentsBehind, MatchesOf
    <2>4. l \in SettledBy(p) <=> \E m \in matches : p \in {m.debit, m.credit} /\ Across(m, p) = l
      BY DEF SettledBy, MatchesOf
    <2>5. \A m \in matches : (l \in {m.debit, m.credit} /\ Across(m, l) = p) <=> (p \in {m.debit, m.credit} /\ Across(m, p) = l)
      BY <1>5, <2>2 DEF Across
    <2>6. QED
      BY <2>3, <2>4, <2>5
  <1>25. (shown.state = "not_paid") <=> MatchesOf(l) = {}
    <2>1. AmountTaken(l, ms) = 0 <=> ms = {}
      BY <1>4, TakenSome
    <2>2. residual = amount <=> AmountTaken(l, ms) = 0
      BY <1>6, <1>7
    <2>3. (shown.state = "not_paid") <=> residual = amount
      BY <1>11
    <2>4. QED
      BY <1>3, <2>1, <2>2, <2>3
  <1>26. QED
    BY <1>10, <1>23, <1>24, <1>25

(* What a document shows as paid is explained by the payments it lists and *)
(* the other matches it has; payments and documents list each other alike; *)
(* and a document is not paid exactly when nothing is matched with it      *)
(* (state.py:50-169), for any rates, documents, payments and matches.      *)
THEOREM PaidIsAlwaysExplained ==
  Spec => []PaidIsExplained
  <1>1. OpenItemsInv => PaidIsExplained
    BY Explained DEF PaidIsExplained
  <1>2. QED
    BY <1>1, Invariance, PTL

-----------------------------------------------------------------------------
(* Every step is one of the abstract account.                              *)

(* What a step leaves of a line for the account.                           *)
SameEntry(a, b) == a.amount = b.amount /\ a.reverses = b.reverses

LEMMA ClosingEntry ==
  ASSUME NEW line \in OpenLines, NEW taken
  PROVE  SameEntry(Closing(line, taken), line) /\ SameEntry(Reopening(line, taken), line)
  BY DEF Closing, Reopening, OpenLines, SameEntry

LEMMA TwoEntries ==
  ASSUME NEW ls \in Seq(OpenLines), NEW d \in DOMAIN ls, NEW c \in DOMAIN ls, d # c,
         NEW x, NEW y, SameEntry(x, ls[d]), SameEntry(y, ls[c]),
         NEW ls2, ls2 = [ls EXCEPT ![d] = x, ![c] = y]
  PROVE  DOMAIN ls2 = DOMAIN ls /\ \A l \in DOMAIN ls : SameEntry(ls2[l], ls[l])
  <1>1. DOMAIN ls2 = DOMAIN ls /\ ls2[d] = x /\ ls2[c] = y /\ \A l \in DOMAIN ls \ {d, c} : ls2[l] = ls[l]
    OBVIOUS
  <1>2. ASSUME NEW l \in DOMAIN ls PROVE SameEntry(ls2[l], ls[l])
    BY <1>1 DEF SameEntry
  <1>3. QED
    BY <1>1, <1>2

(* A match or its undoing changes what is open of two lines and no more.   *)
LEMMA EntriesStay ==
  ASSUME OpenItemsInv, Match \/ Unmatch
  PROVE  DOMAIN lines' = DOMAIN lines /\ \A l \in DOMAIN lines : SameEntry(lines'[l], lines[l])
  <1>1. PICK ls : ls = lines
    OBVIOUS
  <1>2. ls \in Seq(OpenLines) /\ (\A l \in DOMAIN ls : ls[l] \in OpenLines) /\ MatchesFit
    BY <1>1, LineType DEF OpenItemsInv, TypeOK
  <1>3. \E d, c \in DOMAIN ls : d # c /\ \E x, y : 
          SameEntry(x, ls[d]) /\ SameEntry(y, ls[c]) /\ lines' = [ls EXCEPT ![d] = x, ![c] = y]
    <2>1. CASE Match
      <3>1. PICK d \in DOMAIN lines, c \in DOMAIN lines : Matchable(d, c) /\ \E t, u :
              lines' = [lines EXCEPT ![d] = Closing(@, t), ![c] = Closing(@, u)]
        <4>1. PICK d \in DOMAIN lines, c \in DOMAIN lines :
                /\ Matchable(d, c)
                /\ {m.id : m \in matches} # MatchIds
                /\ \E take \in Takes \cup {Available(lines[d], lines[c])} :
                     LET shared == Shared(lines[d], lines[c])
                         fromDebit == Taken(lines[d], take, shared)
                         fromCredit == Taken(lines[c], take, shared)
                         gap == Gap(lines[d], lines[c], take)
                         day == LatestDay(d, c)
                     IN /\ take > 0 /\ take <= Available(lines[d], lines[c])
                        /\ fromDebit.amount > 0 /\ fromCredit.amount > 0
                        /\ IsRounded(gap, Minor)
                        /\ lines' = [lines EXCEPT ![d] = Closing(@, fromDebit), ![c] = Closing(@, fromCredit)]
                        /\ matches' = matches \cup
                             {[id |-> NextId, debit |-> d, credit |-> c, debitTaken |-> fromDebit,
                               creditTaken |-> fromCredit, gap |-> gap, day |-> day]}
                        /\ differences' = [differences EXCEPT ![day] = @ + gap]
          BY <2>1 DEF Match
        <4>2. PICK take : lines' = [lines EXCEPT
                ![d] = Closing(@, Taken(lines[d], take, Shared(lines[d], lines[c]))),
                ![c] = Closing(@, Taken(lines[c], take, Shared(lines[d], lines[c])))]
          BY <4>1, Zenon
        <4>3. PICK t, u : /\ t = Taken(lines[d], take, Shared(lines[d], lines[c]))
                          /\ u = Taken(lines[c], take, Shared(lines[d], lines[c]))
          OBVIOUS
        <4>4. lines' = [lines EXCEPT ![d] = Closing(@, t), ![c] = Closing(@, u)]
          BY <4>2, <4>3
        <4>5. QED
          BY <4>1, <4>4
      <3>2. PICK t, u : lines' = [lines EXCEPT ![d] = Closing(@, t), ![c] = Closing(@, u)]
        BY <3>1
      <3>3. d # c
        BY <3>1 DEF Matchable
      <3>4. PICK x, y : x = Closing(ls[d], t) /\ y = Closing(ls[c], u)
        OBVIOUS
      <3>5. SameEntry(x, ls[d]) /\ SameEntry(y, ls[c])
        BY <1>1, <1>2, <3>4, ClosingEntry
      <3>6. lines' = [ls EXCEPT ![d] = x, ![c] = y]
        BY <1>1, <3>2, <3>3, <3>4
      <3>7. QED
        BY <1>1, <3>3, <3>5, <3>6
    <2>2. CASE Unmatch
      <3>1. PICK m \in matches : lines' = [lines EXCEPT ![m.debit] = Reopening(@, m.debitTaken),
                                                        ![m.credit] = Reopening(@, m.creditTaken)]
        BY <2>2 DEF Unmatch
      <3>2. PICK d, c : d = m.debit /\ c = m.credit
        OBVIOUS
      <3>3. d \in DOMAIN ls /\ c \in DOMAIN ls /\ d # c
        BY <1>1, <1>2, <3>2 DEF MatchesFit
      <3>4. PICK x, y : x = Reopening(ls[d], m.debitTaken) /\ y = Reopening(ls[c], m.creditTaken)
        OBVIOUS
      <3>5. SameEntry(x, ls[d]) /\ SameEntry(y, ls[c])
        BY <1>2, <3>3, <3>4, ClosingEntry
      <3>6. lines' = [ls EXCEPT ![d] = x, ![c] = y]
        BY <1>1, <3>1, <3>2, <3>3, <3>4
      <3>7. QED
        BY <3>3, <3>5, <3>6
    <2>3. QED
      BY <2>1, <2>2
  <1>4. QED
    BY <1>1, <1>2, <1>3, TwoEntries

(* A line is added.                                                        *)
LEMMA EntriesAdded ==
  ASSUME OpenItemsInv, NEW line, lines' = Append(lines, line)
  PROVE  /\ Len(lines) + 1 \notin DOMAIN lines /\ DOMAIN lines' = DOMAIN lines \cup {Len(lines) + 1}
         /\ lines'[Len(lines) + 1] = line
         /\ \A l \in DOMAIN lines : lines'[l] = lines[l] /\ l \in Nat \ {0} /\ l < Len(lines) + 1
  BY DEF OpenItemsInv, TypeOK

LEMMA PostedLine ==
  ASSUME Post
  PROVE  \E line : /\ lines' = Append(lines, line) /\ matches' = matches
                   /\ line.amount > 0 /\ line.residual = line.amount /\ line.reverses = 0
  <1>1. PICK origin \in Origins, currency \in Currencies, day \in Days, a \in Amounts :
          /\ Converted(a, currency, day) > 0
          /\ lines' = Append(lines, OpenLine(origin[1], origin[2], currency, day, Converted(a, currency, day), a, 0))
          /\ UNCHANGED <<matches, differences>>
    BY DEF Post
  <1>2. PICK worth : worth = Converted(a, currency, day)
    OBVIOUS
  <1>3. PICK line : line = OpenLine(origin[1], origin[2], currency, day, worth, a, 0)
    OBVIOUS
  <1>4. line.amount = worth /\ line.residual = worth /\ line.reverses = 0
    BY <1>3 DEF OpenLine
  <1>5. lines' = Append(lines, line)
    BY <1>1, <1>2, <1>3
  <1>6. QED
    BY <1>1, <1>2, <1>4, <1>5

LEMMA ReversedLine ==
  ASSUME Reverse
  PROVE  \E l \in DOMAIN lines : ~Reversed(l) /\ \E line :
           /\ lines' = Append(lines, line) /\ matches' = matches
           /\ line.amount = lines[l].amount /\ line.residual = line.amount /\ line.reverses = l
  <1>1. PICK l \in DOMAIN lines : ~Reversed(l) /\
          LET o == lines[l]
              side == IF o.side = "debit" THEN "credit" ELSE "debit"
          IN /\ lines' = Append(lines, OpenLine("reversal", side, o.currency, o.day, o.amount, o.amountCurrency, l))
             /\ UNCHANGED <<matches, differences>>
    BY DEF Reverse
  <1>2. PICK o, side : o = lines[l] /\ side = IF o.side = "debit" THEN "credit" ELSE "debit"
    OBVIOUS
  <1>3. PICK line : line = OpenLine("reversal", side, o.currency, o.day, o.amount, o.amountCurrency, l)
    OBVIOUS
  <1>4. line.amount = o.amount /\ line.residual = line.amount /\ line.reverses = l
    BY <1>3 DEF OpenLine
  <1>5. lines' = Append(lines, line) /\ matches' = matches
    BY <1>1, <1>2, <1>3
  <1>6. QED
    BY <1>1, <1>2, <1>4, <1>5

LEMMA ReversesStay ==
  ASSUME OpenItemsInv, ReversesEarlier, Next
  PROVE  ReversesEarlier'
  <1>1. CASE Match \/ Unmatch
    BY <1>1, EntriesStay DEF ReversesEarlier, SameEntry
  <1>2. CASE Post \/ Reverse
    <2>1. \E line : lines' = Append(lines, line) /\ line.reverses \in {0} \cup DOMAIN lines
      BY <1>2, PostedLine, ReversedLine
    <2>2. PICK line : lines' = Append(lines, line) /\ line.reverses \in {0} \cup DOMAIN lines
      BY <2>1
    <2>3. Len(lines) \in Nat
      BY DEF OpenItemsInv, TypeOK
    <2>4. QED
      BY <2>2, <2>3, EntriesAdded DEF ReversesEarlier
  <1>3. QED
    BY <1>1, <1>2 DEF Next

(* What is open of the lines that were there changes by matches alone,     *)
(* since it agrees with them before and after.                             *)
LEMMA AccountKeeps ==
  ASSUME OpenItemsInv, OpenItemsInv', DOMAIN lines \subseteq DOMAIN lines',
         \A l \in DOMAIN lines : lines'[l].amount = lines[l].amount
  PROVE  AbstractAccount!Keeps
  <1> PICK ms, ns : ms = matches /\ ns = matches'
    OBVIOUS
  <1>1. /\ ms \in SUBSET MatchRows /\ IsFiniteSet(ms) /\ ns \in SUBSET MatchRows /\ IsFiniteSet(ns)
        /\ ResidualsAgree /\ ResidualsAgree'
    BY DEF OpenItemsInv, TypeOK
  <1>2. ASSUME NEW l \in DOMAIN lines
        PROVE  /\ lines'[l].residual = lines[l].residual + TakenOf(ms \ ns, l) - TakenOf(ns \ ms, l)
               /\ lines'[l].residual >= 0
    <2> PICK S, R, both : /\ S = {m \in ms : l \in Ends(m)} /\ R = {m \in ns : l \in Ends(m)}
                          /\ both = S \cap R
      OBVIOUS
    <2>1. lines[l].residual = lines[l].amount - AmountTaken(l, S)
      BY <1>1 DEF ResidualsAgree, MatchesOf, Ends
    <2>2. lines'[l].residual = lines'[l].amount - AmountTaken(l, R) /\ lines'[l].residual >= 0
      BY <1>1 DEF ResidualsAgree, MatchesOf, Ends, AmountTaken, TakenFrom
    <2>3. S \in SUBSET MatchRows /\ IsFiniteSet(S) /\ R \in SUBSET MatchRows /\ IsFiniteSet(R)
      BY <1>1, FS_Subset
    <2>4. AmountTaken(l, S) = AmountTaken(l, both) + AmountTaken(l, S \ both)
      BY <2>3, TakenSplit
    <2>5. AmountTaken(l, R) = AmountTaken(l, both) + AmountTaken(l, R \ both)
      BY <2>3, TakenSplit
    <2>6. TakenOf(ms \ ns, l) = AmountTaken(l, S \ both)
      <3>1. {m \in ms \ ns : l \in Ends(m)} = S \ both
        OBVIOUS
      <3>2. QED
        BY <3>1 DEF TakenOf
    <2>7. TakenOf(ns \ ms, l) = AmountTaken(l, R \ both)
      <3>1. {m \in ns \ ms : l \in Ends(m)} = R \ both
        OBVIOUS
      <3>2. QED
        BY <3>1 DEF TakenOf
    <2>8. AmountTaken(l, both) \in Nat /\ AmountTaken(l, S \ both) \in Nat /\ AmountTaken(l, R \ both) \in Nat
      BY <2>3, TakenNat, FS_Subset
    <2>9. lines[l].amount \in Nat
      BY LineType DEF OpenItemsInv, TypeOK
    <2>10. QED
      BY <2>1, <2>2, <2>4, <2>5, <2>6, <2>7, <2>8, <2>9
  <1>3. QED
    BY <1>2 DEF AbstractAccount!Keeps, AbstractAccount!Lines, AbstractAccount!New, AbstractAccount!Gone

LEMMA TakesSome ==
  ASSUME NEW m \in MatchRows, NEW l \in Ends(m)
  PROVE  TakenOf({m}, l) > 0
  <1>1. {n \in {m} : l \in Ends(n)} = {m}
    OBVIOUS
  <1>2. {m} \in SUBSET MatchRows /\ IsFiniteSet({m})
    BY FS_Singleton
  <1>3. AmountTaken(l, {m}) \in Nat /\ AmountTaken(l, {m}) # 0
    BY <1>2, TakenNat, TakenSome
  <1>4. QED
    BY <1>1, <1>3 DEF TakenOf

LEMMA ReversesBefore ==
  ASSUME OpenItemsInv, ReversesEarlier, NEW k \in DOMAIN lines, NEW e \in Nat, k < e
  PROVE  lines[k].reverses < e
  <1>1. lines \in Seq(OpenLines)
    BY DEF OpenItemsInv, TypeOK
  <1>2. lines[k] \in OpenLines
    BY <1>1, LineType
  <1>3. lines[k].reverses \in Nat
    BY <1>2 DEF OpenLines
  <1>4. k \in Nat
    BY <1>1
  <1>5. QED
    BY <1>3, <1>4 DEF ReversesEarlier

LEMMA PostOfAccount ==
  ASSUME OpenItemsInv, OpenItemsInv', ReversesEarlier, Post
  PROVE  AbstractAccount!Post
  <1>1. PICK line : /\ lines' = Append(lines, line) /\ matches' = matches
                    /\ line.amount > 0 /\ line.residual = line.amount /\ line.reverses = 0
    BY PostedLine
  <1> PICK e : e = Len(lines) + 1
    OBVIOUS
  <1>2. /\ e \notin DOMAIN lines /\ DOMAIN lines' = DOMAIN lines \cup {e} /\ lines'[e] = line
        /\ \A l \in DOMAIN lines : lines'[l] = lines[l] /\ l \in Nat \ {0} /\ l < e
        /\ e \in Nat
    BY <1>1, EntriesAdded DEF OpenItemsInv, TypeOK
  <1>3. AbstractAccount!Keeps
    BY <1>2, AccountKeeps
  <1>4. Reversals' = Reversals
    <2>1. \A k \in DOMAIN lines : lines[k].reverses < e
      BY <1>2, ReversesBefore
    <2>2. QED
      BY <1>1, <1>2, <2>1 DEF Reversals
  <1>5. AbstractAccount!Opens(e, line.amount)
    BY <1>1, <1>2 DEF AbstractAccount!Opens, AbstractAccount!Lines
  <1>6. QED
    BY <1>1, <1>2, <1>3, <1>4, <1>5 DEF AbstractAccount!Post, AbstractAccount!Opens

LEMMA ReverseOfAccount ==
  ASSUME OpenItemsInv, OpenItemsInv', ReversesEarlier, Reverse
  PROVE  AbstractAccount!Reverse
  <1>1. PICK l \in DOMAIN lines : ~Reversed(l) /\ \E line :
           /\ lines' = Append(lines, line) /\ matches' = matches
           /\ line.amount = lines[l].amount /\ line.residual = line.amount /\ line.reverses = l
    BY ReversedLine
  <1>2. PICK line : /\ lines' = Append(lines, line) /\ matches' = matches
                    /\ line.amount = lines[l].amount /\ line.residual = line.amount /\ line.reverses = l
    BY <1>1
  <1> PICK e : e = Len(lines) + 1
    OBVIOUS
  <1>3. /\ e \notin DOMAIN lines /\ DOMAIN lines' = DOMAIN lines \cup {e} /\ lines'[e] = line
        /\ \A k \in DOMAIN lines : lines'[k] = lines[k] /\ k \in Nat \ {0} /\ k < e
        /\ e \in Nat
    BY <1>2, EntriesAdded DEF OpenItemsInv, TypeOK
  <1>4. AbstractAccount!Keeps
    BY <1>3, AccountKeeps
  <1>5. Reversals' = Reversals \cup {<<l, e>>}
    <2>1. \A k \in DOMAIN lines : lines[k].reverses < e
      BY <1>3, ReversesBefore
    <2>2. QED
      BY <1>2, <1>3, <2>1 DEF Reversals
  <1> PICK was : was = [k \in DOMAIN lines |-> lines[k].amount]
    OBVIOUS
  <1>6. was[l] = lines[l].amount /\ l \in DOMAIN was
    OBVIOUS
  <1>7. /\ e \in DOMAIN [k \in DOMAIN lines |-> lines[k].amount]'
        /\ AbstractAccount!Opens(e, was[l])
    BY <1>2, <1>3, <1>6 DEF AbstractAccount!Opens, AbstractAccount!Lines
  <1>8. AbstractAccount!New = {} /\ AbstractAccount!Gone = {}
    BY <1>2 DEF AbstractAccount!New, AbstractAccount!Gone
  <1>9. \A x \in Reversals : x[1] # l
    BY <1>1 DEF Reversals, Reversed
  <1>10. QED
    BY <1>4, <1>5, <1>6, <1>7, <1>8, <1>9
       DEF AbstractAccount!Reverse, AbstractAccount!Lines, AbstractAccount!Opens

LEMMA MatchesOfAccount ==
  ASSUME OpenItemsInv, OpenItemsInv', Match \/ Unmatch
  PROVE  AbstractAccount!Settle \/ AbstractAccount!TakeBack
  <1>1. DOMAIN lines' = DOMAIN lines /\ \A l \in DOMAIN lines : SameEntry(lines'[l], lines[l])
    BY EntriesStay
  <1>2. AbstractAccount!Keeps
    BY <1>1, AccountKeeps DEF SameEntry
  <1>3. [l \in DOMAIN lines |-> lines[l].amount]' = [l \in DOMAIN lines |-> lines[l].amount]
    BY <1>1 DEF SameEntry
  <1>4. Reversals' = Reversals
    BY <1>1 DEF SameEntry, Reversals
  <1>5. CASE Match
    <2>1. \E m : matches' = matches \cup {m}
      BY <1>5 DEF Match
    <2>2. \A m \in matches' : m \in MatchRows /\ Ends(m) \subseteq DOMAIN lines
      BY <1>1 DEF OpenItemsInv, TypeOK, MatchesFit, Ends
    <2>3. \A m \in matches' \ matches : Ends(m) \subseteq DOMAIN lines /\ \A l \in Ends(m) : TakenOf({m}, l) > 0
      BY <2>2, TakesSome
    <2>4. matches \ matches' = {}
      BY <2>1
    <2>5. AbstractAccount!Settle
      BY <1>2, <1>3, <1>4, <2>3, <2>4
         DEF AbstractAccount!Settle, AbstractAccount!Lines, AbstractAccount!New, AbstractAccount!Gone
    <2>6. QED
      BY <2>5
  <1>6. CASE Unmatch
    <2>1. PICK m \in matches : matches' = matches \ {m}
      BY <1>6 DEF Unmatch
    <2>2. matches' \ matches = {} /\ matches \ matches' = {m}
      BY <2>1
    <2>3. AbstractAccount!TakeBack
      BY <1>2, <1>3, <1>4, <2>1, <2>2
         DEF AbstractAccount!TakeBack, AbstractAccount!New, AbstractAccount!Gone
    <2>4. QED
      BY <2>3
  <1>7. QED
    BY <1>5, <1>6

(* Settling open items in two currencies is settling the abstract account  *)
(* in the company's currency, whatever the rates and the differences that  *)
(* matches post.                                                           *)
THEOREM ImplementsAccount ==
  Spec => RefinesAccount
  <1>1. Init => AbstractAccount!Init /\ ReversesEarlier
    BY DEF Init, AbstractAccount!Init, ReversesEarlier, Reversals
  <1>2. OpenItemsInv /\ ReversesEarlier /\ [Next]_vars => ReversesEarlier'
    BY ReversesStay DEF vars, ReversesEarlier
  <1>3. OpenItemsInv /\ OpenItemsInv' /\ ReversesEarlier /\ [Next]_vars
          => [AbstractAccount!Next]_(AbstractAccount!vars)
    <2> SUFFICES ASSUME OpenItemsInv, OpenItemsInv', ReversesEarlier, [Next]_vars
                 PROVE  [AbstractAccount!Next]_(AbstractAccount!vars)
      OBVIOUS
    <2>1. CASE Post
      BY <2>1, PostOfAccount DEF AbstractAccount!Next
    <2>2. CASE Reverse
      BY <2>2, ReverseOfAccount DEF AbstractAccount!Next
    <2>3. CASE Match \/ Unmatch
      BY <2>3, MatchesOfAccount DEF AbstractAccount!Next
    <2>4. CASE UNCHANGED vars
      BY <2>4 DEF vars, AbstractAccount!vars, Reversals
    <2>5. QED
      BY <2>1, <2>2, <2>3, <2>4 DEF Next
  <1>4. QED
    BY <1>1, <1>2, <1>3, Invariance, PTL DEF Spec, RefinesAccount, AbstractAccount!Spec
=============================================================================
