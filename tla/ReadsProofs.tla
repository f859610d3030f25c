----------------------------- MODULE ReadsProofs -----------------------------
(***************************************************************************)
(* Proofs about the read endpoints.                                        *)
(*                                                                         *)
(* Lists, for any documents, requests and page size: a walk through the    *)
(* pages of a list misses no document that was there when it began and     *)
(* sorts like no other, whatever is added to the collection meanwhile.     *)
(* Statistics, for any documents, clients and order of queries: an answer  *)
(* lies between what was stored when its request began and what is stored  *)
(* now, and figures computed one after the other never fall back.          *)
(* Charts, for any years, samples and moment: they begin where they        *)
(* should, and every sample is in one candle, that of its hour, day or     *)
(* month.                                                                  *)
(***************************************************************************)
EXTENDS Listings, Statistics, TokenPrice, FiniteSetTheorems, WellFoundedInduction, TLAPS

-------------------------------------------------------------------------------
(* Sums.  SumFunctionOnSet folds over a set by a recursive function that    *)
(* takes the elements in the order CHOOSE gives them.  Induction over the   *)
(* subsets of a finite set, as well-founded sets allow it, shows that the   *)
(* function exists, and that the order makes no difference.                 *)

\* What holds of a finite set's subset once it holds of all that are smaller,
\* holds of the set.
LEMMA SetInduction ==
  ASSUME NEW S, IsFiniteSet(S), NEW Good,
         \A T \in SUBSET S : (\A U \in SUBSET T : U # T => U \in Good) => T \in Good
  PROVE  S \in Good
<1> DEFINE Bad == {T \in SUBSET S : T \notin Good}
<1>1. IsWellFoundedOn(StrictSubsetOrdering(S), SUBSET S)
  BY FS_FiniteSubsetsOfFinite, FS_StrictSubsetOrderingWellFounded
<1>2. ASSUME Bad # {} PROVE FALSE
  <2>1. Bad \subseteq SUBSET S
    OBVIOUS
  <2> HIDE DEF Bad
  <2>2. PICK T \in Bad : \A U \in Bad : <<U, T>> \notin StrictSubsetOrdering(S)
    BY <1>1, <1>2, <2>1, WFMin
  <2>3. \A U \in SUBSET T : U # T => U \in Good
    BY <2>1, <2>2 DEF StrictSubsetOrdering, Bad
  <2> QED
    BY <2>2, <2>3 DEF Bad
<1> QED
  BY <1>2

Pick(s) == CHOOSE x \in s : TRUE

SumRule(g, f, S) ==
    g = [s \in SUBSET S |-> IF s = {} THEN 0 ELSE f[Pick(s)] + g[s \ {Pick(s)}]]

\* CHOOSE takes an element of the set.
LEMMA PickIn == \A s : s # {} => Pick(s) \in s
  BY DEF Pick

\* The sum is a value of some function that follows the rule.
LEMMA SumUnfold ==
  ASSUME NEW f, NEW S, \E g : SumRule(g, f, S)
  PROVE  \E g : SumRule(g, f, S) /\ SumFunctionOnSet(f, S) = g[S]
<1> DEFINE it == CHOOSE g : SumRule(g, f, S)
<1>1. SumRule(it, f, S)
  BY Zenon
<1>2. SumFunctionOnSet(f, S) = it[S]
  BY DEF SumFunctionOnSet, FoldFunctionOnSet, MapThenFoldSet, SumRule, Pick
<1> QED
  BY <1>1, <1>2

\* The rule, one element at a time.
LEMMA SumRuleStep ==
  ASSUME NEW f, NEW S, NEW g, SumRule(g, f, S)
  PROVE  \A T \in SUBSET S : g[T] = IF T = {} THEN 0 ELSE f[Pick(T)] + g[T \ {Pick(T)}]
  BY Zenon DEF SumRule

\* Only one function does.
LEMMA SumRuleUnique ==
  ASSUME NEW f, NEW S, IsFiniteSet(S), NEW g, NEW h, SumRule(g, f, S), SumRule(h, f, S)
  PROVE  g = h
<1> DEFINE Good == {T \in SUBSET S : g[T] = h[T]}
<1>1. ASSUME NEW T \in SUBSET S, \A U \in SUBSET T : U # T => U \in Good
      PROVE  T \in Good
  <2>1. T # {} => T \ {Pick(T)} \in SUBSET T /\ T \ {Pick(T)} # T
    BY PickIn
  <2>2. T # {} => g[T \ {Pick(T)}] = h[T \ {Pick(T)}]
    BY <1>1, <2>1
  <2> QED
    BY <2>2, SumRuleStep
<1>2. ASSUME NEW U \in SUBSET S PROVE U \in Good
  <2>1. IsFiniteSet(U)
    BY FS_Subset
  <2>2. \A T \in SUBSET U : (\A V \in SUBSET T : V # T => V \in Good) => T \in Good
    BY <1>1
  <2> HIDE DEF Good
  <2> QED
    BY <2>1, <2>2, SetInduction
<1> QED
  BY <1>2 DEF SumRule

\* So the sum itself follows the rule ...
LEMMA SumByPick ==
  ASSUME NEW f, NEW S, IsFiniteSet(S), \E g : SumRule(g, f, S)
  PROVE  SumFunctionOnSet(f, S) =
            IF S = {} THEN 0 ELSE f[Pick(S)] + SumFunctionOnSet(f, S \ {Pick(S)})
<1>1. PICK g : SumRule(g, f, S) /\ SumFunctionOnSet(f, S) = g[S]
  BY SumUnfold
<1>2. CASE S = {}
  BY <1>1, <1>2 DEF SumRule
<1>3. CASE S # {}
  <2> DEFINE R == S \ {Pick(S)}
             h == [s \in SUBSET R |-> g[s]]
  <2>1. Pick(S) \in S /\ R \subseteq S /\ IsFiniteSet(R)
    BY <1>3, PickIn, FS_Subset
  <2>2. SumRule(h, f, R)
    <3>1. \A s \in SUBSET R : s \in SUBSET S /\ s \ {Pick(s)} \in SUBSET R
      BY <2>1
    <3>2. \A s \in SUBSET R : g[s] = IF s = {} THEN 0 ELSE f[Pick(s)] + g[s \ {Pick(s)}]
      <4> HIDE DEF R, h
      <4>1. SumRule(g, f, S)
        BY <1>1
      <4>2. \A s \in SUBSET S : g[s] = IF s = {} THEN 0 ELSE f[Pick(s)] + g[s \ {Pick(s)}]
        BY <4>1, SumRuleStep
      <4> QED
        BY <3>1, <4>2
    <3> HIDE DEF R
    <3>3. \A s \in SUBSET R : h[s \ {Pick(s)}] = g[s \ {Pick(s)}]
      BY <3>1
    <3>4. h = [s \in SUBSET R |-> IF s = {} THEN 0 ELSE f[Pick(s)] + h[s \ {Pick(s)}]]
      BY <3>2, <3>3
    <3> QED
      BY <3>4, Zenon DEF SumRule
  <2>3. PICK k : SumRule(k, f, R) /\ SumFunctionOnSet(f, R) = k[R]
    BY <2>2, SumUnfold
  <2>4. h = k
    <3> HIDE DEF h, R
    <3> QED
      BY <2>1, <2>2, <2>3, SumRuleUnique
  <2>5. SumFunctionOnSet(f, R) = g[R]
    BY <2>3, <2>4
  <2>6. g[S] = f[Pick(S)] + g[R]
    BY <1>1, <1>3, SumRuleStep
  <2> QED
    BY <1>1, <1>3, <2>5, <2>6
<1> QED
  BY <1>2, <1>3

\* ... and there is always a function that does.
LEMMA SumRuleExists ==
  ASSUME NEW f, NEW S, IsFiniteSet(S)
  PROVE  \E g : SumRule(g, f, S)
<1> DEFINE Good == {T \in SUBSET S : \E g : SumRule(g, f, T)}
           Sum(s) == SumFunctionOnSet(f, s)
           ByPick(s) == IF s = {} THEN 0 ELSE f[Pick(s)] + Sum(s \ {Pick(s)})
           g(T) == [s \in SUBSET T |-> ByPick(s)]
<1>1. ASSUME NEW T \in SUBSET S, \A U \in SUBSET T : U # T => U \in Good
      PROVE  T \in Good
  <2>1. \A U \in SUBSET T : U # T => Sum(U) = ByPick(U)
    <3> TAKE U \in SUBSET T
    <3> HAVE U # T
    <3>1. IsFiniteSet(U)
      BY FS_Subset
    <3> QED
      BY <1>1, <3>1, SumByPick
  <2>2. \A s \in SUBSET T : s # {} => s \ {Pick(s)} \in SUBSET T /\ s \ {Pick(s)} # T
    BY PickIn
  <2> HIDE DEF Sum
  <2>3. \A s \in SUBSET T : g(T)[s] = IF s = {} THEN 0 ELSE f[Pick(s)] + g(T)[s \ {Pick(s)}]
    BY <2>1, <2>2
  <2>4. SumRule(g(T), f, T)
    BY <2>3, Zenon DEF SumRule
  <2> QED
    BY <2>4
<1>2. S \in Good
  <2> HIDE DEF Good
  <2> QED
    BY <1>1, SetInduction
<1> QED
  BY <1>2

\* Nothing adds up to nought.
LEMMA SumEmpty == \A f : SumFunctionOnSet(f, {}) = 0
  BY FS_EmptySet, SumRuleExists, SumByPick

\* Whichever element is taken first, the sum is the same.
LEMMA SumRemove ==
  ASSUME NEW f, NEW S, IsFiniteSet(S), \A x \in S : f[x] \in Int
  PROVE  /\ SumFunctionOnSet(f, S) \in Int
         /\ \A x \in S : SumFunctionOnSet(f, S) = f[x] + SumFunctionOnSet(f, S \ {x})
<1> DEFINE Sum(s) == SumFunctionOnSet(f, s)
           Fine(T) == Sum(T) \in Int /\ \A x \in T : Sum(T) = f[x] + Sum(T \ {x})
           Good == {T \in SUBSET S : Fine(T)}
<1>1. ASSUME NEW T \in SUBSET S, \A U \in SUBSET T : U # T => U \in Good
      PROVE  T \in Good
  <2>1. IsFiniteSet(T)
    BY FS_Subset
  <2>2. CASE T = {}
    BY <2>2, SumEmpty
  <2>3. CASE T # {}
    <3> DEFINE p == Pick(T)
    <3>1. p \in T
      BY <2>3, PickIn
    <3>2. Sum(T) = f[p] + Sum(T \ {p})
      BY <2>1, <2>3, SumRuleExists, SumByPick
    <3> HIDE DEF Sum, p
    <3>3. \A x \in T : Fine(T \ {x})
      BY <1>1
    <3>4. Sum(T) \in Int
      BY <3>1, <3>2, <3>3
    <3>5. ASSUME NEW x \in T, x # p
          PROVE  Sum(T) = f[x] + Sum(T \ {x})
      <4>1. Sum(T \ {p}) = f[x] + Sum((T \ {p}) \ {x})
        BY <3>1, <3>3, <3>5
      <4>2. Sum(T \ {x}) = f[p] + Sum((T \ {x}) \ {p})
        BY <3>1, <3>3, <3>5
      <4>3. (T \ {p}) \ {x} = (T \ {x}) \ {p} /\ (T \ {x}) \ {p} \in Good
        BY <1>1, <3>1
      <4>4. Sum((T \ {x}) \ {p}) \in Int /\ f[x] \in Int /\ f[p] \in Int
        BY <3>1, <4>3
      <4>5. \A a, b, c \in Int : a + (b + c) = b + (a + c)
        OBVIOUS
      <4>6. Sum(T) = f[p] + (f[x] + Sum((T \ {x}) \ {p}))
        BY <3>2, <4>1, <4>3
      <4> HIDE DEF Good
      <4>7. Sum(T) = f[x] + (f[p] + Sum((T \ {x}) \ {p}))
        BY <4>4, <4>5, <4>6
      <4> QED
        BY <4>2, <4>7
    <3> QED
      BY <3>2, <3>4, <3>5
  <2> QED
    BY <2>2, <2>3
<1>2. S \in Good
  <2> HIDE DEF Good
  <2> QED
    BY <1>1, SetInduction
<1> QED
  BY <1>2

\* Only the values on the set matter.
LEMMA SumSame ==
  ASSUME NEW S, IsFiniteSet(S), NEW f, NEW g, \A x \in S : f[x] \in Int /\ f[x] = g[x]
  PROVE  SumFunctionOnSet(f, S) = SumFunctionOnSet(g, S)
<1> DEFINE Good == {T \in SUBSET S : SumFunctionOnSet(f, T) = SumFunctionOnSet(g, T)}
<1>1. ASSUME NEW T \in SUBSET S, \A U \in SUBSET T : U # T => U \in Good
      PROVE  T \in Good
  <2>1. IsFiniteSet(T)
    BY FS_Subset
  <2>2. CASE T = {}
    BY <2>2, SumEmpty
  <2>3. CASE T # {}
    <3>1. PICK x \in T : TRUE
      BY <2>3
    <3>2. T \ {x} \in Good
      BY <1>1
    <3>3. /\ SumFunctionOnSet(f, T) = f[x] + SumFunctionOnSet(f, T \ {x})
          /\ SumFunctionOnSet(g, T) = g[x] + SumFunctionOnSet(g, T \ {x})
      BY <2>1, SumRemove
    <3> QED
      BY <3>2, <3>3
  <2> QED
    BY <2>2, <2>3
<1>2. S \in Good
  <2> HIDE DEF Good
  <2> QED
    BY <1>1, SetInduction
<1> QED
  BY <1>2

\* The sum over two sets apart.
LEMMA SumUnion ==
  ASSUME NEW f, NEW S, IsFiniteSet(S), NEW T, IsFiniteSet(T), S \cap T = {},
         \A x \in S \cup T : f[x] \in Int
  PROVE  SumFunctionOnSet(f, S \cup T) = SumFunctionOnSet(f, S) + SumFunctionOnSet(f, T)
<1> DEFINE Sum(s) == SumFunctionOnSet(f, s)
           Good == {U \in SUBSET S : Sum(U \cup T) = Sum(U) + Sum(T)}
<1>1. ASSUME NEW U \in SUBSET S, \A V \in SUBSET U : V # U => V \in Good
      PROVE  U \in Good
  <2>1. IsFiniteSet(U) /\ IsFiniteSet(U \cup T)
    BY FS_Subset, FS_Union
  <2>2. Sum(T) \in Int /\ Sum(U) \in Int
    BY <2>1, SumRemove
  <2>3. CASE U = {}
    <3>1. U \cup T = T
      BY <2>3
    <3> QED
      BY <2>2, <2>3, <3>1, SumEmpty
  <2>4. CASE U # {}
    <3>1. PICK x \in U : TRUE
      BY <2>4
    <3>2. U \ {x} \in Good /\ (U \cup T) \ {x} = (U \ {x}) \cup T
      BY <1>1
    <3>3. Sum(U) = f[x] + Sum(U \ {x}) /\ Sum(U \cup T) = f[x] + Sum((U \cup T) \ {x})
      BY <2>1, SumRemove
    <3>4. IsFiniteSet(U \ {x})
      BY <2>1, FS_Subset
    <3>5. Sum(U \ {x}) \in Int
      BY <3>4, SumRemove
    <3>6. Sum(U \cup T) = f[x] + (Sum(U \ {x}) + Sum(T)) /\ f[x] \in Int
      BY <3>2, <3>3
    <3>7. \A a, b, c \in Int : a + (b + c) = (a + b) + c
      OBVIOUS
    <3> HIDE DEF Sum
    <3> QED
      BY <2>2, <3>3, <3>5, <3>6, <3>7
  <2> QED
    BY <2>3, <2>4
<1>2. S \in Good
  <2> HIDE DEF Good
  <2> QED
    BY <1>1, SetInduction
<1> QED
  BY <1>2

\* Nor do noughts add up to more.
LEMMA SumZero ==
  ASSUME NEW f, NEW S, IsFiniteSet(S), \A x \in S : f[x] = 0
  PROVE  SumFunctionOnSet(f, S) = 0
<1> DEFINE Good == {T \in SUBSET S : SumFunctionOnSet(f, T) = 0}
<1>1. ASSUME NEW T \in SUBSET S, \A U \in SUBSET T : U # T => U \in Good
      PROVE  T \in Good
  <2>1. IsFiniteSet(T)
    BY FS_Subset
  <2>2. CASE T = {}
    BY <2>2, SumEmpty
  <2>3. CASE T # {}
    <3>1. PICK x \in T : TRUE
      BY <2>3
    <3>2. T \ {x} \in Good
      BY <1>1
    <3>3. SumFunctionOnSet(f, T) = f[x] + SumFunctionOnSet(f, T \ {x})
      BY <2>1, SumRemove
    <3> QED
      BY <3>2, <3>3
  <2> QED
    BY <2>2, <2>3
<1>2. S \in Good
  <2> HIDE DEF Good
  <2> QED
    BY <1>1, SetInduction
<1> QED
  BY <1>2

\* Naturals add up to a natural.
LEMMA SumNat ==
  ASSUME NEW f, NEW S, IsFiniteSet(S), \A x \in S : f[x] \in Nat
  PROVE  SumFunctionOnSet(f, S) \in Nat
<1> DEFINE Good == {T \in SUBSET S : SumFunctionOnSet(f, T) \in Nat}
<1>1. ASSUME NEW T \in SUBSET S, \A U \in SUBSET T : U # T => U \in Good
      PROVE  T \in Good
  <2>1. IsFiniteSet(T)
    BY FS_Subset
  <2>2. CASE T = {}
    BY <2>2, SumEmpty
  <2>3. CASE T # {}
    <3>1. PICK x \in T : TRUE
      BY <2>3
    <3>2. T \ {x} \in Good
      BY <1>1
    <3>3. SumFunctionOnSet(f, T) = f[x] + SumFunctionOnSet(f, T \ {x})
      BY <2>1, SumRemove
    <3> QED
      BY <3>2, <3>3
  <2> QED
    BY <2>2, <2>3
<1>2. S \in Good
  <2> HIDE DEF Good
  <2> QED
    BY <1>1, SetInduction
<1> QED
  BY <1>2

\* Sums of naturals grow with the set.
LEMMA SumGrows ==
  ASSUME NEW N, IsFiniteSet(N), NEW S \in SUBSET N, NEW f, \A x \in N : f[x] \in Nat
  PROVE  /\ SumFunctionOnSet(f, S) \in Nat
         /\ SumFunctionOnSet(f, N) \in Nat
         /\ SumFunctionOnSet(f, S) <= SumFunctionOnSet(f, N)
<1>1. IsFiniteSet(S) /\ IsFiniteSet(N \ S)
  BY FS_Subset
<1>2. /\ SumFunctionOnSet(f, S) \in Nat
      /\ SumFunctionOnSet(f, N \ S) \in Nat
      /\ SumFunctionOnSet(f, N) \in Nat
  BY <1>1, SumNat
<1>3. N = S \cup (N \ S) /\ S \cap (N \ S) = {}
  OBVIOUS
<1>4. SumFunctionOnSet(f, N) = SumFunctionOnSet(f, S) + SumFunctionOnSet(f, N \ S)
  BY <1>1, <1>3, SumUnion
<1> QED
  BY <1>2, <1>4

-------------------------------------------------------------------------------
(* Lists.  A document added moves those behind it to later places, never to *)
(* earlier ones; so a document not yet shown is never before the page asked *)
(* for (Ahead), and a walk that ends without it has a total that is too     *)
(* small, counted at another moment than the rows.                          *)

\* What the request asks for, and those of it with a place of their own.
Rows   == {d \in stored : Wanted(d)}
Single == {d \in start : Wanted(d) /\ Peers(d, Rows, Answer.order) = {d}}

\* The documents before one.
InFront(d) == {e \in Rows : Before(e, d, Answer.order)}
Place(d)   == Cardinality(InFront(d))

\* A document not shown lies on the page asked for or behind it ...
Ahead ==
    pc \in {"ask", "counted"} =>
        \A d \in Single : d \in seen \/ Answer.skip <= Place(d)

\* ... and behind it once the page is shown.
Beyond ==
    pc \in {"found", "both"} =>
        \A d \in Single :
            d \in seen \/ (Answer.limit # 0 /\ Answer.skip + Answer.limit <= Place(d))

\* The total, if it was counted at the moment of the rows.
Counted == pc = "counted" /\ ~torn => total = Cardinality(Rows)

\* With that total the client knows of the document still to come.
More ==
    pc = "both" /\ ~torn =>
        \A d \in Single :
            d \in seen \/ (Answer.limit # 0 /\ Answer.skip + Answer.limit < total)

\* The walk is complete.
Over == pc = "end" /\ ~torn => Single \subseteq seen

Typed ==
    /\ coll \in Colls
    /\ stored \subseteq Docs
    /\ start \subseteq stored
    /\ pc \in {"idle", "ask", "found", "counted", "both", "end"}
    /\ total \in Nat
    /\ torn \in BOOLEAN
    /\ pc # "idle" => query \in ListRequests /\ Allowed(query) /\ seen \subseteq Rows

WalkInv == Typed /\ Ahead /\ Beyond /\ Counted /\ More /\ Over

-------------------------------------------------------------------------------
(* What the endpoints answer.                                               *)

\* Each endpoint filters for what the request asks for.
LEMMA AnswerRows ==
  ASSUME Typed, pc # "idle"
  PROVE  Answer.rows = Rows
<1> /\ stored \subseteq ListDocuments /\ query \in ListRequests /\ Allowed(query)
  BY ListAssumption DEF Typed, ListAssumption
<1>1. ASSUME NEW d \in stored
      PROVE  Wanted(d) <=> /\ Owned(query, d) /\ Tagged(query, d) /\ OfKind(query, d)
                           /\ Within(query, d)
  <2>1. d.at \in Nat /\ query.from \in Nat /\ query.to \in Nat
    BY DEF ListDocuments, ListRequests
  <2>2. Within(query, d) <=> d.at \in query.from..(IF query.to = 0 THEN d.at ELSE query.to)
    BY <2>1 DEF Within
  <2> QED
    BY <2>2 DEF Wanted, Owned, Tagged, OfKind
<1>2. Undated(query) => \A d : Within(query, d)
  BY DEF Undated, Within
<1>3. query.tag = "" => \A d : Tagged(query, d)
  BY DEF Tagged
<1>4. query.kinds = {} => \A d : OfKind(query, d)
  BY DEF OfKind
<1>5. CASE coll = "events"
  BY <1>1, <1>2, <1>5 DEF Allowed, EventLogQuery, Answer, EventLogs, Listing, Rows
<1>6. CASE coll = "ton"
  BY <1>1, <1>2, <1>6 DEF Allowed, TonQuery, Answer, TonTransactions, Listing, Rows
<1>7. CASE coll = "notifications"
  BY <1>1, <1>2, <1>3, <1>7 DEF Allowed, NotificationQuery, Answer, Notifications, Listing, Rows
<1>8. CASE coll = "contributions"
  BY <1>1, <1>3, <1>4, <1>8 DEF Allowed, ContributionQuery, Answer, Contributions, Listing, Rows
<1>9. CASE coll = "liquidity"
  BY <1>1, <1>9 DEF Answer, LiquiditySupports, Listing, Rows
<1>10. CASE coll = "logs"
  BY <1>1, <1>2, <1>3, <1>10 DEF Allowed, LogQuery, Answer, TransactionLogs, Listing, Rows
<1> QED
  BY <1>5, <1>6, <1>7, <1>8, <1>9, <1>10 DEF Typed, Colls

\* The first page begins at nought.
LEMMA FirstPage ==
  ASSUME NEW r \in Requests, coll' \in Colls, Allowed(r)', query' = r
  PROVE  Answer'.skip = 0
<1> r \in ListRequests /\ r.page <= 1 /\ r.offset = 0 /\ r.page \in Nat /\ r.limit \in Nat
  BY ListAssumption DEF ListAssumption, ListRequests
<1>1. r.page # 0 => (r.page - 1) * r.limit = 0
  OBVIOUS
<1>2. coll' \in {"events", "ton", "contributions", "liquidity"} => r.page # 0
  <2>1. coll' \in {"events", "ton", "contributions", "liquidity"} => PageQuery(r)
    BY DEF Allowed, EventLogQuery, TonQuery, ContributionQuery, LiquidityQuery
  <2> QED
    BY <2>1 DEF PageQuery
<1> QED
  BY <1>1, <1>2 DEF Colls, Answer, EventLogs, TonTransactions, Notifications, Contributions,
     LiquiditySupports, TransactionLogs, Listing, Skip

\* Skip and limit are numbers.
LEMMA AnswerTyped ==
  ASSUME Typed, pc # "idle"
  PROVE  Answer.skip \in Nat /\ Answer.limit \in Nat
<1> /\ query \in ListRequests /\ Allowed(query)
    /\ query.page \in Nat /\ query.limit \in Nat /\ query.offset \in Nat
  BY DEF Typed, ListRequests
<1>1. query.page # 0 => (query.page - 1) * query.limit \in Nat
  <2>1. ASSUME query.page # 0 PROVE query.page - 1 \in Nat
    BY <2>1
  <2>2. \A m, n \in Nat : m * n \in Nat
    OBVIOUS
  <2> QED
    BY <2>1, <2>2
<1>2. coll \in {"events", "ton", "contributions", "liquidity"} => query.page # 0
  <2>1. coll \in {"events", "ton", "contributions", "liquidity"} => PageQuery(query)
    BY DEF Allowed, EventLogQuery, TonQuery, ContributionQuery, LiquidityQuery
  <2> QED
    BY <2>1 DEF PageQuery
<1> QED
  BY <1>1, <1>2 DEF Typed, Colls, Answer, EventLogs, TonTransactions, Notifications,
     Contributions, LiquiditySupports, TransactionLogs, Listing, Skip

\* Turning the page moves the window by its own width, and no more.
LEMMA NextPage ==
  ASSUME Typed, pc # "idle", ~LastPage, UNCHANGED <<coll, stored, start>>,
         query' = [query EXCEPT !.page = @ + 1, !.offset = @ + query.limit]
  PROVE  /\ query' \in ListRequests /\ Allowed(query)'
         /\ Answer'.skip = Answer.skip + Answer.limit
         /\ Answer'.order = Answer.order
         /\ Rows' = Rows
<1> /\ query \in ListRequests /\ Allowed(query) /\ coll \in Colls
    /\ query.page \in Nat /\ query.limit \in Nat /\ query.offset \in Nat
  BY DEF Typed, ListRequests
<1>1. /\ query' \in ListRequests /\ query'.page = query.page + 1
      /\ query'.offset = query.offset + query.limit
  <2>1. query.page + 1 \in Nat /\ query.offset + query.limit \in Nat
    OBVIOUS
  <2>2. [query EXCEPT !.page = @ + 1] \in ListRequests
    BY <2>1 DEF ListRequests
  <2> QED
    BY <2>1, <2>2 DEF ListRequests
<1>2. /\ query'.owner = query.owner /\ query'.kinds = query.kinds /\ query'.tag = query.tag
      /\ query'.from = query.from /\ query'.to = query.to /\ query'.sort = query.sort
      /\ query'.limit = query.limit
  BY DEF ListRequests
<1>3. Allowed(query)'
  <2>1. /\ PageQuery(query) => PageQuery(query')
        /\ OffsetQuery(query) => OffsetQuery(query')
    BY <1>1, <1>2 DEF PageQuery, OffsetQuery
  <2>2. /\ Undated(query) => Undated(query')
        /\ Dated(query) => Dated(query')
    BY <1>2 DEF Undated, Dated
  <2>3. /\ EventLogQuery(query) => EventLogQuery(query')
        /\ LiquidityQuery(query) => LiquidityQuery(query')
        /\ TonQuery(query) => TonQuery(query')
    BY <1>2, <2>1, <2>2 DEF EventLogQuery, LiquidityQuery, TonQuery
  <2>4. /\ NotificationQuery(query) => NotificationQuery(query')
        /\ ContributionQuery(query) => ContributionQuery(query')
        /\ LogQuery(query) => LogQuery(query')
    BY <1>2, <2>1, <2>2 DEF NotificationQuery, ContributionQuery, LogQuery
  <2> QED
    BY <2>3, <2>4 DEF Allowed
<1>4. Rows' = Rows
  BY <1>2 DEF Rows, Wanted
<1>5. Answer.limit # 0
  BY DEF LastPage
<1>6. query.page # 0 =>
        (query'.page - 1) * query'.limit = (query.page - 1) * query.limit + query.limit
  BY <1>1, <1>2
<1>7. coll \in {"events", "ton", "contributions", "liquidity"} => query.page # 0
  <2>1. coll \in {"events", "ton", "contributions", "liquidity"} => PageQuery(query)
    BY DEF Allowed, EventLogQuery, TonQuery, ContributionQuery, LiquidityQuery
  <2> QED
    BY <2>1 DEF PageQuery
<1>8. coll = "logs" => query.page # 0 /\ query.limit # 0
  BY <1>5 DEF Answer, TransactionLogs, Listing
<1>9. Answer'.skip = Answer.skip + Answer.limit
  BY <1>1, <1>2, <1>5, <1>6, <1>7, <1>8 DEF Colls, Answer, EventLogs, TonTransactions,
     Notifications, Contributions, LiquiditySupports, TransactionLogs, Listing, Skip
<1>10. Answer'.order = Answer.order
  BY <1>1, <1>2, <1>8 DEF Colls, Answer, EventLogs, TonTransactions,
     Notifications, Contributions, LiquiditySupports, TransactionLogs, Listing, Order
<1> QED
  BY <1>1, <1>3, <1>4, <1>9, <1>10

-------------------------------------------------------------------------------
(* Places.                                                                  *)

\* A place is a number below that of the rows.
LEMMA PlaceBelow ==
  ASSUME Typed, NEW d \in Rows
  PROVE  /\ IsFiniteSet(Rows) /\ Cardinality(Rows) \in Nat
         /\ IsFiniteSet(InFront(d)) /\ Place(d) \in Nat
         /\ Place(d) < Cardinality(Rows)
<1>1. IsFiniteSet(Rows)
  BY ListAssumption, FS_Subset DEF Typed, Rows, ListAssumption
<1>2. d.at \in Nat
  BY ListAssumption DEF Typed, Rows, ListAssumption, ListDocuments
<1>3. d \notin InFront(d)
  BY <1>2 DEF InFront, Before
<1>4. InFront(d) \subseteq Rows \ {d}
  BY <1>3 DEF InFront
<1>5. IsFiniteSet(Rows \ {d}) /\ Cardinality(Rows \ {d}) = Cardinality(Rows) - 1
  BY <1>1, FS_RemoveElement
<1>6. IsFiniteSet(InFront(d)) /\ Cardinality(InFront(d)) <= Cardinality(Rows \ {d})
  BY <1>4, <1>5, FS_Subset
<1>7. Cardinality(Rows) \in Nat /\ Cardinality(InFront(d)) \in Nat
  BY <1>1, <1>6, FS_CardinalityType
<1> QED
  BY <1>1, <1>5, <1>6, <1>7 DEF Place

\* A page shows the document whose place it takes in.
LEMMA Shown ==
  ASSUME Typed, pc # "idle", NEW d \in Single, NEW page \in SUBSET Answer.rows,
         IsPage(page, Answer), Answer.skip <= Place(d),
         Answer.limit = 0 \/ Place(d) < Answer.skip + Answer.limit
  PROVE  d \in page
<1>1. Answer.rows = Rows /\ Answer.skip \in Nat /\ Answer.limit \in Nat
  BY AnswerRows, AnswerTyped
<1>2. d \in Rows /\ Peers(d, Rows, Answer.order) = {d}
  BY DEF Single, Rows, Typed
<1>3. Place(d) \in Nat
  BY <1>2, PlaceBelow
<1>4. Cardinality({d}) = 1
  BY FS_Singleton
<1>5. Cardinality(page \cap {d}) = InWindow(Place(d), 1, Answer)
  BY <1>1, <1>2, <1>4 DEF IsPage, Place, InFront
<1>6. InWindow(Place(d), 1, Answer) = 1
  BY <1>1, <1>3 DEF InWindow
<1>7. page \cap {d} # {}
  BY <1>5, <1>6, FS_EmptySet
<1> QED
  BY <1>7

\* Documents added take no row away, make no document's place smaller and no
\* shared place a document's own.
LEMMA Added ==
  ASSUME Typed, pc # "idle", NEW d \in Docs, Insert(d)
  PROVE  /\ Rows \subseteq Rows' /\ Single' \subseteq Single
         /\ Answer'.skip = Answer.skip /\ Answer'.limit = Answer.limit
         /\ \A e \in Single' : Place(e) \in Nat /\ Place(e)' \in Nat /\ Place(e) <= Place(e)'
<1>1. UNCHANGED <<coll, query, start>> /\ stored \subseteq stored' /\ stored' \subseteq Docs
  BY DEF Insert, Typed
<1>2. /\ Answer'.skip = Answer.skip /\ Answer'.limit = Answer.limit
      /\ Answer'.order = Answer.order
  BY <1>1 DEF Typed, Colls, Answer, EventLogs, TonTransactions, Notifications, Contributions,
     LiquiditySupports, TransactionLogs, Listing
<1>3. Rows \subseteq Rows' /\ IsFiniteSet(Rows')
  <2>1. Rows' \subseteq Docs
    BY <1>1 DEF Rows
  <2> QED
    BY <1>1, <2>1, ListAssumption, FS_Subset DEF Rows, Wanted, ListAssumption
<1>4. Single' \subseteq Single
  <2> SUFFICES ASSUME NEW e \in Single' PROVE e \in Single
    OBVIOUS
  <2>1. e \in start /\ Wanted(e) /\ Peers(e, Rows', Answer.order) = {e}
    BY <1>1, <1>2 DEF Single, Wanted
  <2>2. e \in Rows
    BY <2>1 DEF Rows, Typed
  <2>3. Peers(e, Rows, Answer.order) \subseteq {e}
    BY <1>3, <2>1 DEF Peers
  <2>4. e \in Peers(e, Rows, Answer.order)
    BY <2>1, <2>2 DEF Peers
  <2> QED
    BY <2>1, <2>3, <2>4 DEF Single
<1>5. ASSUME NEW e \in Single'
      PROVE  Place(e) \in Nat /\ Place(e)' \in Nat /\ Place(e) <= Place(e)'
  <2>1. InFront(e) \subseteq InFront(e)' /\ InFront(e)' \subseteq Rows'
    BY <1>2, <1>3 DEF InFront
  <2>2. IsFiniteSet(InFront(e)')
    BY <1>3, <2>1, FS_Subset
  <2>3. /\ IsFiniteSet(InFront(e))
        /\ Cardinality(InFront(e)) <= Cardinality(InFront(e)')
    BY <2>1, <2>2, FS_Subset
  <2> QED
    BY <2>2, <2>3, FS_CardinalityType DEF Place
<1> QED
  BY <1>2, <1>3, <1>4, <1>5

-------------------------------------------------------------------------------
(* The walk.                                                                *)

LEMMA InitWalk == ListInit => WalkInv
<1> SUFFICES ASSUME ListInit PROVE WalkInv
  OBVIOUS
<1>1. pc = "idle" /\ Typed
  BY DEF ListInit, Typed
<1> QED
  BY <1>1 DEF WalkInv, Ahead, Beyond, Counted, More, Over

LEMMA InsertWalk ==
  ASSUME WalkInv, NEW d \in Docs, Insert(d)
  PROVE  WalkInv'
<1> USE DEF WalkInv
<1>1. UNCHANGED <<coll, pc, query, total, seen, start>> /\ stored' = stored \cup {d}
        /\ torn' = (torn \/ pc \in {"found", "counted"})
  BY DEF Insert
<1>2. CASE pc = "idle"
  BY <1>1, <1>2 DEF Typed, Ahead, Beyond, Counted, More, Over
<1>3. CASE pc # "idle"
  <2>1. /\ Rows \subseteq Rows' /\ Single' \subseteq Single
        /\ Answer'.skip = Answer.skip /\ Answer'.limit = Answer.limit
        /\ \A e \in Single' : Place(e) \in Nat /\ Place(e)' \in Nat /\ Place(e) <= Place(e)'
    BY <1>3, Added
  <2>2. Answer.skip \in Nat /\ Answer.limit \in Nat
    BY <1>3, AnswerTyped
  <2>3. Typed'
    BY <1>1, <2>1 DEF Typed, Allowed
  <2>4. Ahead' /\ Beyond'
    BY <1>1, <2>1, <2>2 DEF Ahead, Beyond
  <2>5. Counted'
    BY <1>1 DEF Counted, Typed
  <2>6. More' /\ Over'
    BY <1>1, <2>1 DEF More, Over, Typed
  <2> QED
    BY <2>3, <2>4, <2>5, <2>6
<1> QED
  BY <1>2, <1>3

\* A step that leaves the collection, the request and the rows alone.
LEMMA Same ==
  ASSUME UNCHANGED <<coll, stored, query>>
  PROVE  /\ Answer' = Answer /\ Rows' = Rows /\ Allowed(query)' = Allowed(query)
         /\ UNCHANGED start => Single' = Single
         /\ \A d : Place(d)' = Place(d)
<1>1. Answer' = Answer
  BY DEF Answer, TransactionLogs
<1>2. Rows' = Rows
  BY DEF Rows, Wanted
<1>3. Allowed(query)' = Allowed(query)
  BY DEF Allowed
<1>4. UNCHANGED start => Single' = Single
  BY <1>1, <1>2 DEF Single, Wanted
<1>5. \A d : Place(d)' = Place(d)
  BY <1>1, <1>2 DEF Place, InFront
<1> QED
  BY <1>1, <1>2, <1>3, <1>4, <1>5

LEMMA QuietWalk ==
  ASSUME WalkInv, UNCHANGED <<coll, stored, pc, query, total, seen, start, torn>>
  PROVE  WalkInv'
<1>1. /\ Answer' = Answer /\ Rows' = Rows /\ Allowed(query)' = Allowed(query)
      /\ Single' = Single /\ \A d : Place(d)' = Place(d)
  BY Same
<1> QED
  BY <1>1 DEF WalkInv, Typed, Ahead, Beyond, Counted, More, Over

LEMMA AskWalk ==
  ASSUME WalkInv, NEW r \in Requests, Ask(r)
  PROVE  WalkInv'
<1> USE DEF WalkInv
<1>1. /\ UNCHANGED <<coll, stored>> /\ query' = r /\ pc' = "ask" /\ total' = 0
      /\ seen' = {} /\ start' = stored /\ torn' = FALSE /\ Allowed(r)
  BY DEF Ask
<1>2. Allowed(query)' /\ Allowed(r)'
  BY <1>1 DEF Allowed
<1>3. Typed'
  BY <1>1, <1>2, ListAssumption DEF Typed, ListAssumption
<1>4. Answer'.skip = 0
  BY <1>1, <1>2, FirstPage DEF Typed
<1>5. \A d \in Rows' : Place(d)' \in Nat
  <2>1. IsFiniteSet(Rows')
    BY <1>3, ListAssumption, FS_Subset DEF Typed, Rows, ListAssumption
  <2>2. \A d \in Rows' : IsFiniteSet(InFront(d)')
    BY <2>1, FS_Subset DEF InFront
  <2> QED
    BY <2>2, FS_CardinalityType DEF Place
<1>6. Single' \subseteq Rows'
  BY <1>3 DEF Single, Rows, Typed
<1>7. Ahead'
  BY <1>4, <1>5, <1>6 DEF Ahead
<1> QED
  BY <1>1, <1>3, <1>7 DEF Beyond, Counted, More, Over

\* The rows of a page are shown: whoever is still missing lies behind it.
LEMMA FindWalk ==
  ASSUME WalkInv, Find
  PROVE  WalkInv'
<1> USE DEF WalkInv
<1>1. PICK page \in SUBSET Answer.rows : IsPage(page, Answer) /\ seen' = seen \cup page
  BY DEF Find
<1>2. /\ pc \in {"ask", "counted"} /\ pc' = IF pc = "ask" THEN "found" ELSE "both"
      /\ UNCHANGED <<coll, stored, query, total, start, torn>>
  BY DEF Find
<1>3. /\ Answer' = Answer /\ Rows' = Rows /\ Allowed(query)' = Allowed(query)
      /\ Single' = Single /\ \A d : Place(d)' = Place(d)
  BY <1>2, Same
<1>4. Answer.rows = Rows /\ Answer.skip \in Nat /\ Answer.limit \in Nat
  BY <1>2, AnswerRows, AnswerTyped
<1>5. \A d \in Single : /\ d \in Rows /\ Place(d) \in Nat /\ Cardinality(Rows) \in Nat
                        /\ Place(d) < Cardinality(Rows)
  BY PlaceBelow DEF Single, Rows, Typed
<1>6. \A d \in Single :
         d \in seen' \/ (Answer.limit # 0 /\ Answer.skip + Answer.limit <= Place(d))
  BY <1>1, <1>2, <1>4, <1>5, Shown DEF Ahead
<1>7. Typed'
  BY <1>1, <1>2, <1>3, <1>4 DEF Typed
<1>8. Beyond'
  BY <1>2, <1>3, <1>6 DEF Beyond
<1>9. More'
  BY <1>2, <1>3, <1>4, <1>5, <1>6 DEF More, Counted
<1> QED
  BY <1>2, <1>7, <1>8, <1>9 DEF Ahead, Counted, Over

LEMMA CountWalk ==
  ASSUME WalkInv, Count
  PROVE  WalkInv'
<1> USE DEF WalkInv
<1>1. /\ pc \in {"ask", "found"} /\ pc' = IF pc = "ask" THEN "counted" ELSE "both"
      /\ total' = Cardinality(Answer.rows)
      /\ UNCHANGED <<coll, stored, query, seen, start, torn>>
  BY DEF Count
<1>2. /\ Answer' = Answer /\ Rows' = Rows /\ Allowed(query)' = Allowed(query)
      /\ Single' = Single /\ \A d : Place(d)' = Place(d)
  BY <1>1, Same
<1>3. Answer.rows = Rows /\ Answer.skip \in Nat /\ Answer.limit \in Nat
  BY <1>1, AnswerRows, AnswerTyped
<1>4. \A d \in Single : /\ Place(d) \in Nat /\ Cardinality(Rows) \in Nat
                        /\ Place(d) < Cardinality(Rows)
  BY PlaceBelow DEF Single, Rows, Typed
<1>5. Cardinality(Rows) \in Nat
  <2>1. IsFiniteSet(Rows)
    BY ListAssumption, FS_Subset DEF Typed, Rows, ListAssumption
  <2> QED
    BY <2>1, FS_CardinalityType
<1>6. Typed'
  BY <1>1, <1>2, <1>3, <1>5 DEF Typed
<1>7. Ahead' /\ Beyond'
  BY <1>1, <1>2 DEF Ahead, Beyond
<1>8. Counted'
  BY <1>1, <1>2, <1>3 DEF Counted
<1>9. More'
  BY <1>1, <1>2, <1>3, <1>4 DEF More, Beyond
<1> QED
  BY <1>1, <1>6, <1>7, <1>8, <1>9 DEF Over

LEMMA TurnWalk ==
  ASSUME WalkInv, Turn
  PROVE  WalkInv'
<1> USE DEF WalkInv
<1>1. pc = "both" /\ UNCHANGED <<coll, stored, total, seen, start>>
  BY DEF Turn
<1>2. Answer.skip \in Nat /\ Answer.limit \in Nat /\ total \in Nat
  BY <1>1, AnswerTyped DEF Typed
<1>3. CASE LastPage
  <2>1. pc' = "end" /\ UNCHANGED <<query, torn>>
    BY <1>3 DEF Turn
  <2>2. /\ Rows' = Rows /\ Allowed(query)' = Allowed(query) /\ Single' = Single
    BY <1>1, <2>1, Same
  <2>3. Typed'
    BY <1>1, <2>1, <2>2 DEF Typed
  <2>4. Over'
    BY <1>1, <1>2, <1>3, <2>1, <2>2 DEF Over, More, LastPage
  <2> QED
    BY <2>1, <2>3, <2>4 DEF Ahead, Beyond, Counted, More
<1>4. CASE ~LastPage
  <2>1. /\ pc' = "ask" /\ torn' = FALSE
        /\ query' = [query EXCEPT !.page = @ + 1, !.offset = @ + query.limit]
    BY <1>4 DEF Turn
  <2>2. /\ query' \in ListRequests /\ Allowed(query)'
        /\ Answer'.skip = Answer.skip + Answer.limit
        /\ Answer'.order = Answer.order
        /\ Rows' = Rows
    BY <1>1, <1>4, <2>1, NextPage
  <2>3. Typed'
    BY <1>1, <2>1, <2>2 DEF Typed
  <2>4. \A d : Place(d)' = Place(d)
    BY <2>2 DEF Place, InFront
  <2>5. Single' = Single
    <3>1. start \subseteq stored
      BY DEF Typed
    <3>2. \A d \in start : Wanted(d)' <=> Wanted(d)
      BY <1>1, <2>2, <3>1 DEF Rows
    <3> QED
      BY <1>1, <2>2, <3>2 DEF Single
  <2>6. Ahead'
    BY <1>1, <2>2, <2>4, <2>5 DEF Ahead, Beyond
  <2> QED
    BY <2>1, <2>3, <2>6 DEF Beyond, Counted, More, Over
<1> QED
  BY <1>3, <1>4

LEMMA NextWalk == WalkInv /\ [ListNext]_listVars => WalkInv'
<1> SUFFICES ASSUME WalkInv, [ListNext]_listVars PROVE WalkInv'
  OBVIOUS
<1>1. ASSUME NEW d \in Docs, NEW wallet, NEW value, Mark(d, wallet, value) PROVE WalkInv'
  BY <1>1, QuietWalk DEF Mark
<1>2. CASE UNCHANGED listVars
  BY <1>2, QuietWalk DEF listVars
<1> QED
  BY <1>1, <1>2, InsertWalk, AskWalk, FindWalk, CountWalk, TurnWalk DEF ListNext

\* The list endpoints and their paging: a walk to the last page shows every
\* document that was there when it began and sorts like no other, however
\* many come in meanwhile, and none that was not asked for; only a document
\* between the rows and the total of the last page can cut it short.
THEOREM NothingSkipped == ListSpec => []WalkComplete
<1>1. WalkInv => WalkComplete
  <2> SUFFICES ASSUME WalkInv, pc = "end"
               PROVE  /\ \A d \in seen : Wanted(d)
                      /\ ~torn => \A d \in start :
                            Wanted(d) /\ Peers(d, Answer.rows, Answer.order) = {d} => d \in seen
    BY DEF WalkComplete
  <2>1. Answer.rows = Rows
    BY AnswerRows DEF WalkInv
  <2> QED
    BY <2>1 DEF WalkInv, Typed, Over, Single, Rows
<1> QED
  BY <1>1, InitWalk, NextWalk, PTL DEF ListSpec

-------------------------------------------------------------------------------
(* The aggregations grow with the documents.                                *)

AmountIn  == [d \in Items |-> d.in]
AmountOut == [d \in Items |-> d.out]

\* The amounts of a document are naturals.
LEMMA ItemFields ==
  \A d \in Items : d.kind \in STRING /\ d.token \in STRING /\ d.in \in Nat /\ d.out \in Nat
  BY StatisticsAssumption DEF StatisticsAssumption, Documents

\* The totals of the aggregations are sums over the documents.
LEMMA TotalIsSum ==
  ASSUME NEW S \in SUBSET Items, IsFiniteSet(S)
  PROVE  TotalIn(S) = SumFunctionOnSet(AmountIn, S) /\ TotalOut(S) = SumFunctionOnSet(AmountOut, S)
<1>1. \A x \in S : /\ [d \in S |-> d.in][x] \in Int /\ [d \in S |-> d.in][x] = AmountIn[x]
                   /\ [d \in S |-> d.out][x] \in Int /\ [d \in S |-> d.out][x] = AmountOut[x]
  BY ItemFields DEF AmountIn, AmountOut
<1>2. SumFunctionOnSet([d \in S |-> d.in], S) = SumFunctionOnSet(AmountIn, S)
  <2> DEFINE f == [d \in S |-> d.in]
  <2> HIDE DEF f, AmountIn
  <2> QED
    BY <1>1, SumSame DEF f
<1>3. SumFunctionOnSet([d \in S |-> d.out], S) = SumFunctionOnSet(AmountOut, S)
  <2> DEFINE f == [d \in S |-> d.out]
  <2> HIDE DEF f
  <2> QED
    BY <1>1, SumSame DEF f
<1> QED
  BY <1>2, <1>3 DEF TotalIn, TotalOut, SumFunction

\* More documents, no smaller totals.
LEMMA TotalGrows ==
  ASSUME NEW N \in SUBSET Items, IsFiniteSet(N), NEW S \in SUBSET N
  PROVE  /\ TotalIn(S) \in Nat /\ TotalIn(N) \in Nat /\ TotalIn(S) <= TotalIn(N)
         /\ TotalOut(S) \in Nat /\ TotalOut(N) \in Nat /\ TotalOut(S) <= TotalOut(N)
<1>1. IsFiniteSet(S) /\ S \in SUBSET Items
  BY FS_Subset
<1>2. \A x \in N : AmountIn[x] \in Nat /\ AmountOut[x] \in Nat
  BY ItemFields DEF AmountIn, AmountOut
<1> QED
  BY <1>1, <1>2, SumGrows, TotalIsSum

\* The sum of the gains is that of the documents of a kind that gains.
LEMMA GainsAre ==
  ASSUME NEW E \in SUBSET Items, IsFiniteSet(E), NEW P \in SUBSET E,
         NEW f \in [Items -> Nat], NEW w,
         \A d \in P : w[d] = f[d],
         \A d \in E \ P : w[d] \in Int /\ w[d] <= 0
  PROVE  Gains(w, E) = SumFunctionOnSet(f, P)
<1> DEFINE G == {d \in E : w[d] > 0}
           Z == P \ G
           c == [d \in G |-> w[d]]
<1>1. G \subseteq P /\ IsFiniteSet(G) /\ IsFiniteSet(Z) /\ P = G \cup Z /\ G \cap Z = {}
  <2>1. G \subseteq P
    OBVIOUS
  <2> QED
    BY <2>1, FS_Subset
<1>2. \A d \in G : c[d] \in Int /\ c[d] = f[d]
  BY <1>1
<1>3. \A d \in Z : f[d] = 0
  <2> SUFFICES ASSUME NEW d \in Z PROVE f[d] = 0
    OBVIOUS
  <2>1. w[d] = f[d] /\ f[d] \in Nat /\ ~(w[d] > 0)
    OBVIOUS
  <2> QED
    BY <2>1
<1>4. Gains(w, E) = SumFunctionOnSet(c, G)
  BY DEF Gains, SumFunction
<1> HIDE DEF G, Z, c
<1>5. SumFunctionOnSet(c, G) = SumFunctionOnSet(f, G)
  BY <1>1, <1>2, SumSame
<1>6. SumFunctionOnSet(f, Z) = 0
  BY <1>1, <1>3, SumZero
<1>7. SumFunctionOnSet(f, P) = SumFunctionOnSet(f, G) + SumFunctionOnSet(f, Z)
  BY <1>1, SumUnion
<1>8. SumFunctionOnSet(f, G) \in Int
  BY <1>1, SumRemove
<1> QED
  BY <1>4, <1>5, <1>6, <1>7, <1>8

\* Amounts taken away add up to their sum, taken away.
LEMMA SumNegative ==
  ASSUME NEW S, IsFiniteSet(S), NEW f, NEW g,
         \A x \in S : f[x] \in Int /\ g[x] \in Int /\ g[x] = -f[x]
  PROVE  SumFunctionOnSet(g, S) = -SumFunctionOnSet(f, S)
<1> DEFINE Good == {T \in SUBSET S : SumFunctionOnSet(g, T) = -SumFunctionOnSet(f, T)}
<1>1. ASSUME NEW T \in SUBSET S, \A U \in SUBSET T : U # T => U \in Good
      PROVE  T \in Good
  <2>1. IsFiniteSet(T)
    BY FS_Subset
  <2>2. CASE T = {}
    BY <2>2, SumEmpty
  <2>3. CASE T # {}
    <3>1. PICK x \in T : TRUE
      BY <2>3
    <3>2. T \ {x} \in Good /\ IsFiniteSet(T \ {x})
      BY <1>1, <2>1, FS_Subset
    <3>3. /\ SumFunctionOnSet(f, T) = f[x] + SumFunctionOnSet(f, T \ {x})
          /\ SumFunctionOnSet(g, T) = g[x] + SumFunctionOnSet(g, T \ {x})
      BY <2>1, SumRemove
    <3>4. SumFunctionOnSet(f, T \ {x}) \in Int
      BY <3>2, SumRemove
    <3> QED
      BY <3>2, <3>3, <3>4
  <2> QED
    BY <2>2, <2>3
<1>2. S \in Good
  <2> HIDE DEF Good
  <2> QED
    BY <1>1, SetInduction
<1> QED
  BY <1>2

\* The sum of the losses is that of the documents of a kind that loses.
LEMMA LossesAre ==
  ASSUME NEW E \in SUBSET Items, IsFiniteSet(E), NEW P \in SUBSET E,
         NEW f \in [Items -> Nat], NEW w,
         \A d \in P : w[d] = -f[d],
         \A d \in E \ P : w[d] \in Int /\ w[d] >= 0
  PROVE  Losses(w, E) = -SumFunctionOnSet(f, P)
<1> DEFINE G == {d \in E : w[d] < 0}
           Z == P \ G
           c == [d \in G |-> w[d]]
<1>1. G \subseteq P /\ IsFiniteSet(G) /\ IsFiniteSet(Z) /\ P = G \cup Z /\ G \cap Z = {}
  <2>1. G \subseteq P
    OBVIOUS
  <2> QED
    BY <2>1, FS_Subset
<1>2. \A d \in G : c[d] \in Int /\ f[d] \in Int /\ c[d] = -f[d]
  BY <1>1
<1>3. \A d \in Z : f[d] = 0
  <2> SUFFICES ASSUME NEW d \in Z PROVE f[d] = 0
    OBVIOUS
  <2>1. w[d] = -f[d] /\ f[d] \in Nat /\ ~(w[d] < 0)
    OBVIOUS
  <2> QED
    BY <2>1
<1>4. Losses(w, E) = SumFunctionOnSet(c, G)
  BY DEF Losses, SumFunction
<1> HIDE DEF G, Z, c
<1>5. SumFunctionOnSet(c, G) = -SumFunctionOnSet(f, G)
  BY <1>1, <1>2, SumNegative
<1>6. SumFunctionOnSet(f, Z) = 0
  BY <1>1, <1>3, SumZero
<1>7. SumFunctionOnSet(f, P) = SumFunctionOnSet(f, G) + SumFunctionOnSet(f, Z)
  BY <1>1, SumUnion
<1>8. SumFunctionOnSet(f, G) \in Int
  BY <1>1, SumRemove
<1> QED
  BY <1>4, <1>5, <1>6, <1>7, <1>8

\* What was minted and what was redeemed, and for how many dollars, on either
\* network.
LEMMA SupplyIs ==
  ASSUME NEW S \in SUBSET Items, IsFiniteSet(S), NEW route \in {"bnb", "ton"}
  PROVE  LET mint == IF route = "bnb" THEN "EMint" ELSE "MINT"
             redeem == IF route = "bnb" THEN "ERedeem" ELSE "REDEEM"
         IN  /\ Gains(Coins, Entries(route, S)) = TotalOut(Of(mint, S))
             /\ Losses(Coins, Entries(route, S)) = -TotalIn(Of(redeem, S))
             /\ Gains(Dollars, Entries(route, S)) = TotalIn(Of(mint, S))
             /\ Losses(Dollars, Entries(route, S)) = -TotalOut(Of(redeem, S))
<1>1. AmountIn \in [Items -> Nat] /\ AmountOut \in [Items -> Nat]
  BY ItemFields DEF AmountIn, AmountOut
<1> DEFINE mint == IF route = "bnb" THEN "EMint" ELSE "MINT"
           redeem == IF route = "bnb" THEN "ERedeem" ELSE "REDEEM"
           E == Entries(route, S)
           M == Of(mint, S)
           R == Of(redeem, S)
<1>2. /\ E \in SUBSET Items /\ M \in SUBSET E /\ R \in SUBSET E
      /\ M \in SUBSET Items /\ R \in SUBSET Items
      /\ IsFiniteSet(E) /\ IsFiniteSet(M) /\ IsFiniteSet(R)
  <2>1. E \in SUBSET S /\ M \in SUBSET E /\ R \in SUBSET E
    BY DEF Entries, Of, Kinds
  <2> QED
    BY <2>1, FS_Subset
<1>3. E = M \cup R
  BY DEF Entries, Of, Kinds
<1>4. \A d \in M : /\ Coins[d] = AmountOut[d] /\ Coins[d] \in Nat
                  /\ Dollars[d] = AmountIn[d] /\ Dollars[d] \in Nat
  BY <1>2, ItemFields DEF Of, Coins, Dollars, AmountIn, AmountOut
<1>5. \A d \in R : /\ Coins[d] = -AmountIn[d] /\ Coins[d] \in Int /\ Coins[d] <= 0
                  /\ Dollars[d] = -AmountOut[d] /\ Dollars[d] \in Int /\ Dollars[d] <= 0
  BY <1>2, ItemFields DEF Of, Coins, Dollars, AmountIn, AmountOut
<1> HIDE DEF E, M, R
<1>6. Gains(Coins, E) = SumFunctionOnSet(AmountOut, M)
  BY <1>1, <1>2, <1>3, <1>4, <1>5, GainsAre
<1>7. Losses(Coins, E) = -SumFunctionOnSet(AmountIn, R)
  BY <1>1, <1>2, <1>3, <1>4, <1>5, LossesAre
<1>8. Gains(Dollars, E) = SumFunctionOnSet(AmountIn, M)
  BY <1>1, <1>2, <1>3, <1>4, <1>5, GainsAre
<1>9. Losses(Dollars, E) = -SumFunctionOnSet(AmountOut, R)
  BY <1>1, <1>2, <1>3, <1>4, <1>5, LossesAre
<1>10. /\ TotalOut(M) = SumFunctionOnSet(AmountOut, M) /\ TotalIn(R) = SumFunctionOnSet(AmountIn, R)
       /\ TotalIn(M) = SumFunctionOnSet(AmountIn, M) /\ TotalOut(R) = SumFunctionOnSet(AmountOut, R)
  BY <1>2, TotalIsSum
<1> QED
  BY <1>6, <1>7, <1>8, <1>9, <1>10 DEF E, M, R

\* What a token's contributions and liquidity make.
LEMMA ByTokenIs ==
  ASSUME NEW S \in SUBSET Items, IsFiniteSet(S), NEW t
  PROVE  /\ Gains(Coins, OfToken(t, Entries("contributions", S))) = TotalIn(OfToken(t, Of("contribution", S)))
         /\ Losses(Coins, OfToken(t, Entries("contributions", S))) = 0
         /\ Gains(Coins, OfToken(t, Entries("liquidity", S)))
               = TotalIn(Of("OUT", OfToken(t, Entries("liquidity", S))))
         /\ Losses(Coins, OfToken(t, Entries("liquidity", S)))
               = -TotalIn(Of("IN", OfToken(t, Entries("liquidity", S))))
<1>1. AmountIn \in [Items -> Nat]
  BY ItemFields DEF AmountIn
<1>2. /\ Gains(Coins, OfToken(t, Entries("contributions", S))) = TotalIn(OfToken(t, Of("contribution", S)))
      /\ Losses(Coins, OfToken(t, Entries("contributions", S))) = 0
  <2> DEFINE E == OfToken(t, Entries("contributions", S))
  <2>1. E = OfToken(t, Of("contribution", S))
    BY DEF OfToken, Of, Entries, Kinds
  <2>2. E \in SUBSET Items /\ IsFiniteSet(E)
    <3>1. E \in SUBSET S
      BY DEF OfToken, Entries
    <3> QED
      BY <3>1, FS_Subset
  <2>3. \A d \in E : Coins[d] = AmountIn[d] /\ Coins[d] \in Nat
    BY <2>2, ItemFields DEF OfToken, Entries, Kinds, Coins, AmountIn
  <2> HIDE DEF E
  <2>4. Gains(Coins, E) = SumFunctionOnSet(AmountIn, E)
    BY <1>1, <2>2, <2>3, GainsAre
  <2>5. Losses(Coins, E) = -SumFunctionOnSet(AmountIn, {})
    BY <1>1, <2>2, <2>3, LossesAre
  <2>6. TotalIn(E) = SumFunctionOnSet(AmountIn, E) /\ SumFunctionOnSet(AmountIn, {}) = 0
    BY <2>2, TotalIsSum, SumEmpty
  <2> QED
    BY <2>1, <2>4, <2>5, <2>6 DEF E
<1>3. /\ Gains(Coins, OfToken(t, Entries("liquidity", S)))
            = TotalIn(Of("OUT", OfToken(t, Entries("liquidity", S))))
      /\ Losses(Coins, OfToken(t, Entries("liquidity", S)))
            = -TotalIn(Of("IN", OfToken(t, Entries("liquidity", S))))
  <2> DEFINE E == OfToken(t, Entries("liquidity", S))
             G == Of("OUT", E)
             L == Of("IN", E)
  <2>1. /\ E \in SUBSET Items /\ G \in SUBSET E /\ L \in SUBSET E
        /\ G \in SUBSET Items /\ L \in SUBSET Items
        /\ IsFiniteSet(E) /\ IsFiniteSet(G) /\ IsFiniteSet(L)
    <3>1. E \in SUBSET S /\ G \in SUBSET E /\ L \in SUBSET E
      BY DEF OfToken, Entries, Of
    <3> QED
      BY <3>1, FS_Subset
  <2>2. E = G \cup L
    BY DEF OfToken, Entries, Of, Kinds
  <2>3. \A d \in G : Coins[d] = AmountIn[d] /\ Coins[d] \in Nat
    BY <2>1, ItemFields DEF Of, Coins, AmountIn
  <2>4. \A d \in L : Coins[d] = -AmountIn[d] /\ Coins[d] \in Int /\ Coins[d] <= 0
    BY <2>1, ItemFields DEF Of, Coins, AmountIn
  <2> HIDE DEF E, G, L
  <2>5. Gains(Coins, E) = SumFunctionOnSet(AmountIn, G)
    BY <1>1, <2>1, <2>2, <2>3, <2>4, GainsAre
  <2>6. Losses(Coins, E) = -SumFunctionOnSet(AmountIn, L)
    BY <1>1, <2>1, <2>2, <2>3, <2>4, LossesAre
  <2>7. TotalIn(G) = SumFunctionOnSet(AmountIn, G) /\ TotalIn(L) = SumFunctionOnSet(AmountIn, L)
    BY <2>1, TotalIsSum
  <2> QED
    BY <2>5, <2>6, <2>7 DEF E, G, L
<1> QED
  BY <1>2, <1>3

-------------------------------------------------------------------------------
(* Requests.  What each query of a request returned is what it returns for  *)
(* the documents of some moment since the request began.                    *)

Answered(route, got, B, N) ==
    \A part \in DOMAIN got :
        \E S \in SUBSET N : B \subseteq S /\ got[part] = Result(route, part, S)

\* The figures that only grow, and their counterparts in dollars.
Figures(route, S) ==
    [minted |-> IF route = "bnb" THEN TotalOut(Of("EMint", S)) ELSE TotalOut(Of("MINT", S)),
     redeemed |-> IF route = "bnb" THEN TotalIn(Of("ERedeem", S)) ELSE TotalIn(Of("REDEEM", S)),
     paid |-> IF route = "bnb" THEN TotalIn(Of("EMint", S)) ELSE TotalIn(Of("MINT", S)),
     returned |-> IF route = "bnb" THEN TotalOut(Of("ERedeem", S)) ELSE TotalOut(Of("REDEEM", S)),
     transactions |-> IF route = "bnb" THEN CountAllTxn(S) ELSE CountAllTransactions(S)]

Figured(figures) ==
    figures.minted \in Nat /\ figures.redeemed \in Nat /\ figures.transactions \in Nat

\* More documents, no smaller figures.
LEMMA FiguresGrow ==
  ASSUME NEW N \in SUBSET Items, IsFiniteSet(N), NEW S \in SUBSET N, NEW route \in {"bnb", "ton"}
  PROVE  /\ Figured(Figures(route, S)) /\ Figured(Figures(route, N))
         /\ NotBehind(Figures(route, N), Figures(route, S))
         /\ Figures(route, S).paid \in Nat /\ Figures(route, N).paid \in Nat
         /\ Figures(route, S).paid <= Figures(route, N).paid
         /\ Figures(route, S).returned \in Nat /\ Figures(route, N).returned \in Nat
         /\ Figures(route, S).returned <= Figures(route, N).returned
<1>1. \A k : /\ Of(k, N) \in SUBSET Items /\ IsFiniteSet(Of(k, N)) /\ Of(k, S) \in SUBSET Of(k, N)
  <2> TAKE k
  <2>1. Of(k, N) \in SUBSET N /\ Of(k, S) \in SUBSET Of(k, N)
    BY DEF Of
  <2> QED
    BY <2>1, FS_Subset
<1>2. \A k : /\ TotalIn(Of(k, S)) \in Nat /\ TotalIn(Of(k, N)) \in Nat
             /\ TotalIn(Of(k, S)) <= TotalIn(Of(k, N))
             /\ TotalOut(Of(k, S)) \in Nat /\ TotalOut(Of(k, N)) \in Nat
             /\ TotalOut(Of(k, S)) <= TotalOut(Of(k, N))
  BY <1>1, TotalGrows
<1>3. \A k, l : /\ Cardinality(Of(k, S) \cup Of(l, S)) \in Nat
                /\ Cardinality(Of(k, N) \cup Of(l, N)) \in Nat
                /\ Cardinality(Of(k, S) \cup Of(l, S)) <= Cardinality(Of(k, N) \cup Of(l, N))
  <2> TAKE k, l
  <2> DEFINE A == Of(k, S) \cup Of(l, S)
             B == Of(k, N) \cup Of(l, N)
  <2>1. IsFiniteSet(B) /\ A \in SUBSET B
    BY <1>1, FS_Union
  <2> HIDE DEF A, B
  <2>2. IsFiniteSet(A) /\ Cardinality(A) <= Cardinality(B)
    BY <2>1, FS_Subset
  <2>3. Cardinality(A) \in Nat /\ Cardinality(B) \in Nat
    BY <2>1, <2>2, FS_CardinalityType
  <2> QED
    BY <2>2, <2>3 DEF A, B
<1> QED
  BY <1>2, <1>3 DEF Figures, Figured, NotBehind, CountAllTxn, CountAllTransactions

\* The figures of an answer are not behind those of the request's beginning,
\* nor ahead of those of its end.
LEMMA AnswerFigures ==
  ASSUME NEW N \in SUBSET Items, IsFiniteSet(N), NEW B \in SUBSET N, NEW route \in {"bnb", "ton"},
         NEW got, DOMAIN got = Queries(route), Answered(route, got, B, N), NEW pool
  PROVE  LET answer == StatsOf(route, got, pool)
         IN  Figured(answer) /\ NotBehind(answer, Figures(route, B)) /\ NotBehind(Figures(route, N), answer)
<1> DEFINE At(S) == S \in SUBSET N /\ B \in SUBSET S /\ S \in SUBSET Items /\ IsFiniteSet(S)
<1>1. \A S \in SUBSET N : B \subseteq S => At(S)
  BY FS_Subset
<1>2. \A part \in Queries(route) : \E S : At(S) /\ got[part] = Result(route, part, S)
  BY <1>1 DEF Answered
<1>3. \A S : At(S) => /\ Figured(Figures(route, B)) /\ Figured(Figures(route, S)) /\ Figured(Figures(route, N))
                      /\ NotBehind(Figures(route, S), Figures(route, B))
                      /\ NotBehind(Figures(route, N), Figures(route, S))
  BY FiguresGrow
<1> HIDE DEF At
<1>4. CASE route = "bnb"
  <2>1. PICK S1 : At(S1) /\ got["minted"] = Result(route, "minted", S1)
    BY <1>2, <1>4 DEF Queries
  <2>2. PICK S2 : At(S2) /\ got["redeemed"] = Result(route, "redeemed", S2)
    BY <1>2, <1>4 DEF Queries
  <2>3. PICK S3 : At(S3) /\ got["transactions"] = Result(route, "transactions", S3)
    BY <1>2, <1>4 DEF Queries
  <2>4. /\ StatsOf(route, got, pool).minted = Figures(route, S1).minted
        /\ StatsOf(route, got, pool).redeemed = Figures(route, S2).redeemed
        /\ StatsOf(route, got, pool).transactions = Figures(route, S3).transactions
    BY <1>4, <2>1, <2>2, <2>3 DEF StatsOf, Result, Figures, GetAmount
  <2> QED
    BY <1>3, <2>1, <2>2, <2>3, <2>4 DEF NotBehind, Figured
<1>5. CASE route = "ton"
  <2>1. PICK S1 : At(S1) /\ got["stats"] = Result(route, "stats", S1)
    BY <1>2, <1>5 DEF Queries
  <2>2. PICK S2 : At(S2) /\ got["transactions"] = Result(route, "transactions", S2)
    BY <1>2, <1>5 DEF Queries
  <2>3. /\ StatsOf(route, got, pool).minted = Figures(route, S1).minted
        /\ StatsOf(route, got, pool).redeemed = Figures(route, S1).redeemed
        /\ StatsOf(route, got, pool).transactions = Figures(route, S2).transactions
    BY <1>5, <2>1, <2>2 DEF StatsOf, Result, Figures, TonStats
  <2> QED
    BY <1>3, <2>1, <2>2, <2>3 DEF NotBehind, Figured
<1> QED
  BY <1>4, <1>5

-------------------------------------------------------------------------------
(* The answers.                                                             *)

\* Cutting off at nought keeps the order.
LEMMA NotNegativeGrows ==
  \A m, n \in Int : m <= n => /\ NotNegative(m) \in Nat /\ NotNegative(n) \in Nat
                              /\ NotNegative(m) <= NotNegative(n)
  BY DEF NotNegative

\* The totals by token, whatever tokens there are.
LEMMA TokensBetween ==
  ASSUME NEW N \in SUBSET Items, IsFiniteSet(N), NEW S \in SUBSET N, NEW B \in SUBSET S,
         NEW route \in {"contributions", "liquidity"}
  PROVE  Between(route, Result(route, "total", S), Entries(route, B), Entries(route, N))
<1> DEFINE answer == Result(route, "total", S)
<1>1. /\ S \in SUBSET Items /\ IsFiniteSet(S)
      /\ B \in SUBSET Items /\ IsFiniteSet(B)
  <2>1. B \in SUBSET N
    OBVIOUS
  <2> QED
    BY <2>1, FS_Subset
<1>2. SUFFICES ASSUME NEW t \in DOMAIN answer
               PROVE  answer[t] \in Least(Coins, OfToken(t, Entries(route, B)), OfToken(t, Entries(route, N)))
                                    ..Greatest(Coins, OfToken(t, Entries(route, B)), OfToken(t, Entries(route, N)))
  BY DEF Between
<1>3. CASE route = "contributions"
  <2> DEFINE C(X) == OfToken(t, Of("contribution", X))
  <2>1. answer[t] = TotalIn(C(S))
    BY <1>3 DEF Result, GetTotalContributions
  <2>2. C(N) \in SUBSET Items /\ IsFiniteSet(C(N)) /\ C(S) \in SUBSET C(N)
    <3>1. C(N) \in SUBSET N /\ C(S) \in SUBSET C(N)
      BY DEF OfToken, Of
    <3> QED
      BY <3>1, FS_Subset
  <2>3. C(S) \in SUBSET Items /\ IsFiniteSet(C(S)) /\ C(B) \in SUBSET C(S)
    <3>1. C(S) \in SUBSET S /\ C(B) \in SUBSET C(S)
      BY DEF OfToken, Of
    <3> QED
      BY <1>1, <3>1, FS_Subset
  <2>4. /\ TotalIn(C(B)) \in Nat /\ TotalIn(C(S)) \in Nat /\ TotalIn(C(N)) \in Nat
        /\ TotalIn(C(B)) <= TotalIn(C(S)) /\ TotalIn(C(S)) <= TotalIn(C(N))
    <3> HIDE DEF C
    <3> QED
      BY <2>2, <2>3, TotalGrows
  <2>5. /\ Least(Coins, OfToken(t, Entries(route, B)), OfToken(t, Entries(route, N))) = TotalIn(C(B))
        /\ Greatest(Coins, OfToken(t, Entries(route, B)), OfToken(t, Entries(route, N))) = TotalIn(C(N))
    <3>1. /\ Gains(Coins, OfToken(t, Entries(route, B))) = TotalIn(C(B))
          /\ Losses(Coins, OfToken(t, Entries(route, B))) = 0
          /\ Gains(Coins, OfToken(t, Entries(route, N))) = TotalIn(C(N))
          /\ Losses(Coins, OfToken(t, Entries(route, N))) = 0
      BY <1>1, <1>3, ByTokenIs
    <3> HIDE DEF C
    <3> QED
      BY <2>4, <3>1 DEF Least, Greatest
  <2> HIDE DEF C, answer
  <2> QED
    BY <2>1, <2>4, <2>5
<1>4. CASE route = "liquidity"
  <2> DEFINE G(X) == TotalIn(Of("OUT", OfToken(t, Entries("liquidity", X))))
             L(X) == TotalIn(Of("IN", OfToken(t, Entries("liquidity", X))))
  <2>1. answer[t] = G(S) - L(S)
    <3>1. Entries("liquidity", S) = Of("IN", S) \cup Of("OUT", S)
      BY DEF Entries, Of, Kinds
    <3> QED
      BY <1>4, <3>1 DEF Result, GetTotalLiquidity
  <2>2. ASSUME NEW X \in SUBSET Items, IsFiniteSet(X), NEW Y \in SUBSET X
        PROVE  /\ G(Y) \in Nat /\ G(X) \in Nat /\ G(Y) <= G(X)
               /\ L(Y) \in Nat /\ L(X) \in Nat /\ L(Y) <= L(X)
    <3> DEFINE P(k, Z) == Of(k, OfToken(t, Entries("liquidity", Z)))
    <3>1. \A k : P(k, X) \in SUBSET X /\ P(k, Y) \in SUBSET P(k, X)
      BY DEF Of, OfToken, Entries
    <3> HIDE DEF P
    <3>2. \A k : P(k, X) \in SUBSET Items /\ IsFiniteSet(P(k, X))
      BY <2>2, <3>1, FS_Subset
    <3>3. \A k : TotalIn(P(k, Y)) \in Nat /\ TotalIn(P(k, X)) \in Nat /\ TotalIn(P(k, Y)) <= TotalIn(P(k, X))
      BY <3>1, <3>2, TotalGrows
    <3> QED
      BY <3>3 DEF P
  <2>3. /\ Least(Coins, OfToken(t, Entries(route, B)), OfToken(t, Entries(route, N))) = G(B) + (-L(N))
        /\ Greatest(Coins, OfToken(t, Entries(route, B)), OfToken(t, Entries(route, N))) = G(N) + (-L(B))
    BY <1>1, <1>4, ByTokenIs DEF Least, Greatest
  <2> HIDE DEF G, L
  <2>4. /\ G(B) \in Nat /\ G(S) \in Nat /\ G(N) \in Nat /\ G(B) <= G(S) /\ G(S) <= G(N)
        /\ L(B) \in Nat /\ L(S) \in Nat /\ L(N) \in Nat /\ L(B) <= L(S) /\ L(S) <= L(N)
    BY <1>1, <2>2
  <2> HIDE DEF answer
  <2>5. answer[t] \in (G(B) + (-L(N)))..(G(N) + (-L(B)))
    BY <2>1, <2>4
  <2> QED
    BY <2>3, <2>5
<1> QED
  BY <1>3, <1>4

\* A difference of two sums, each taken at a moment of its own.
LEMMA DifferenceBetween ==
  ASSUME NEW m0 \in Nat, NEW m1 \in Nat, NEW m2 \in Nat, m0 <= m1, m1 <= m2,
         NEW r0 \in Nat, NEW r1 \in Nat, NEW r2 \in Nat, r0 <= r1, r1 <= r2
  PROVE  /\ m1 - r1 \in (m0 + (-r2))..(m2 + (-r0))
         /\ NotNegative(m1 - r1) \in NotNegative(m0 + (-r2))..NotNegative(m2 + (-r0))
<1>1. /\ m0 + (-r2) \in Int /\ m1 - r1 \in Int /\ m2 + (-r0) \in Int
      /\ m0 + (-r2) <= m1 - r1 /\ m1 - r1 <= m2 + (-r0)
  OBVIOUS
<1>2. /\ NotNegative(m0 + (-r2)) <= NotNegative(m1 - r1)
      /\ NotNegative(m1 - r1) <= NotNegative(m2 + (-r0))
      /\ NotNegative(m0 + (-r2)) \in Nat /\ NotNegative(m1 - r1) \in Nat
      /\ NotNegative(m2 + (-r0)) \in Nat
  BY <1>1, NotNegativeGrows
<1> QED
  BY <1>1, <1>2

\* A network's figures, each from the documents of a moment of its own.
LEMMA SupplyBetween ==
  ASSUME NEW N \in SUBSET Items, IsFiniteSet(N), NEW B \in SUBSET N, NEW route \in {"bnb", "ton"},
         NEW got, DOMAIN got = Queries(route), Answered(route, got, B, N), NEW pool
  PROVE  Between(route, StatsOf(route, got, pool), Entries(route, B), Entries(route, N))
<1> DEFINE answer == StatsOf(route, got, pool)
           m(S) == Figures(route, S).minted
           r(S) == Figures(route, S).redeemed
           u(S) == Figures(route, S).paid
           v(S) == Figures(route, S).returned
           At(S) == S \in SUBSET N /\ B \in SUBSET S /\ S \in SUBSET Items /\ IsFiniteSet(S)
<1>1. IsFiniteSet(B) /\ B \in SUBSET Items /\ \A S \in SUBSET N : B \subseteq S => At(S)
  BY FS_Subset
<1>2. ASSUME NEW S \in SUBSET Items, IsFiniteSet(S)
      PROVE  /\ Gains(Coins, Entries(route, S)) = m(S) /\ Losses(Coins, Entries(route, S)) = -r(S)
             /\ Gains(Dollars, Entries(route, S)) = u(S) /\ Losses(Dollars, Entries(route, S)) = -v(S)
  BY <1>2, SupplyIs DEF Figures
<1>3. ASSUME NEW S, At(S)
      PROVE  /\ m(B) \in Nat /\ m(S) \in Nat /\ m(N) \in Nat /\ m(B) <= m(S) /\ m(S) <= m(N)
             /\ r(B) \in Nat /\ r(S) \in Nat /\ r(N) \in Nat /\ r(B) <= r(S) /\ r(S) <= r(N)
             /\ u(B) \in Nat /\ u(S) \in Nat /\ u(N) \in Nat /\ u(B) <= u(S) /\ u(S) <= u(N)
             /\ v(B) \in Nat /\ v(S) \in Nat /\ v(N) \in Nat /\ v(B) <= v(S) /\ v(S) <= v(N)
  <2>1. /\ Figured(Figures(route, B)) /\ Figured(Figures(route, S)) /\ Figured(Figures(route, N))
        /\ NotBehind(Figures(route, S), Figures(route, B)) /\ NotBehind(Figures(route, N), Figures(route, S))
        /\ u(B) \in Nat /\ u(S) \in Nat /\ u(N) \in Nat /\ u(B) <= u(S) /\ u(S) <= u(N)
        /\ v(B) \in Nat /\ v(S) \in Nat /\ v(N) \in Nat /\ v(B) <= v(S) /\ v(S) <= v(N)
    BY <1>3, FiguresGrow
  <2> QED
    BY <2>1 DEF Figured, NotBehind
<1>4. /\ Figures(route, B).transactions = Cardinality(Entries(route, B))
      /\ Figures(route, N).transactions = Cardinality(Entries(route, N))
  <2>1. \A S : /\ Of("EMint", S) \cup Of("ERedeem", S) = Entries("bnb", S)
               /\ Of("MINT", S) \cup Of("REDEEM", S) = Entries("ton", S)
    BY DEF Entries, Of, Kinds
  <2> QED
    BY <2>1 DEF Figures, CountAllTxn, CountAllTransactions
<1>5. answer.transactions \in Cardinality(Entries(route, B))..Cardinality(Entries(route, N))
  <2>1. /\ Figured(answer) /\ Figured(Figures(route, B)) /\ Figured(Figures(route, N))
        /\ NotBehind(answer, Figures(route, B)) /\ NotBehind(Figures(route, N), answer)
    BY AnswerFigures, FiguresGrow
  <2> HIDE DEF answer
  <2> QED
    BY <1>4, <2>1 DEF Figured, NotBehind
<1>6. \E S1, S2 :
         /\ At(S1) /\ At(S2)
         /\ answer.minted = m(S1) /\ answer.redeemed = r(S2)
         /\ route = "bnb" => /\ answer.totalVNST = NotNegative(m(S1) - r(S2))
                             /\ answer.totalUSDT = NotNegative(u(S1) - v(S2))
         /\ route = "ton" => answer.totalVNST = m(S1) - r(S2) /\ answer.totalUSDT = u(S1) - v(S2)
  <2>1. CASE route = "bnb"
    <3>1. PICK S1 : At(S1) /\ got["minted"] = Result(route, "minted", S1)
      BY <1>1, <2>1 DEF Answered, Queries
    <3>2. PICK S2 : At(S2) /\ got["redeemed"] = Result(route, "redeemed", S2)
      BY <1>1, <2>1 DEF Answered, Queries
    <3>3. /\ answer.minted = m(S1) /\ answer.redeemed = r(S2)
          /\ answer.totalVNST = NotNegative(m(S1) - r(S2))
          /\ answer.totalUSDT = NotNegative(u(S1) - v(S2))
      BY <2>1, <3>1, <3>2 DEF StatsOf, Result, Figures, GetAmount
    <3> HIDE DEF answer, m, r, u, v, At
    <3> QED
      BY <2>1, <3>1, <3>2, <3>3
  <2>2. CASE route = "ton"
    <3>1. PICK S1 : At(S1) /\ got["stats"] = Result(route, "stats", S1)
      BY <1>1, <2>2 DEF Answered, Queries
    <3>2. /\ answer.minted = m(S1) /\ answer.redeemed = r(S1)
          /\ answer.totalVNST = m(S1) - r(S1) /\ answer.totalUSDT = u(S1) - v(S1)
      BY <2>2, <3>1 DEF StatsOf, Result, Figures, TonStats
    <3> HIDE DEF answer, m, r, u, v, At
    <3> QED
      BY <2>2, <3>1, <3>2
  <2> QED
    BY <2>1, <2>2
<1> HIDE DEF answer, m, r, u, v, At
<1>7. PICK S1, S2 :
         /\ At(S1) /\ At(S2)
         /\ answer.minted = m(S1) /\ answer.redeemed = r(S2)
         /\ route = "bnb" => /\ answer.totalVNST = NotNegative(m(S1) - r(S2))
                             /\ answer.totalUSDT = NotNegative(u(S1) - v(S2))
         /\ route = "ton" => answer.totalVNST = m(S1) - r(S2) /\ answer.totalUSDT = u(S1) - v(S2)
  BY <1>6
<1>8. /\ Least(Coins, Entries(route, B), Entries(route, N)) = m(B) + (-r(N))
      /\ Greatest(Coins, Entries(route, B), Entries(route, N)) = m(N) + (-r(B))
      /\ Least(Dollars, Entries(route, B), Entries(route, N)) = u(B) + (-v(N))
      /\ Greatest(Dollars, Entries(route, B), Entries(route, N)) = u(N) + (-v(B))
  BY <1>1, <1>2 DEF Least, Greatest
<1>9. /\ m(S1) - r(S2) \in (m(B) + (-r(N)))..(m(N) + (-r(B)))
      /\ NotNegative(m(S1) - r(S2)) \in NotNegative(m(B) + (-r(N)))..NotNegative(m(N) + (-r(B)))
      /\ u(S1) - v(S2) \in (u(B) + (-v(N)))..(u(N) + (-v(B)))
      /\ NotNegative(u(S1) - v(S2)) \in NotNegative(u(B) + (-v(N)))..NotNegative(u(N) + (-v(B)))
  BY <1>3, <1>7, DifferenceBetween
<1>10. answer.minted \in Gains(Coins, Entries(route, B))..Gains(Coins, Entries(route, N))
  BY <1>1, <1>2, <1>3, <1>7
<1>11. answer.redeemed \in -Losses(Coins, Entries(route, B))..-Losses(Coins, Entries(route, N))
  <2>1. /\ -Losses(Coins, Entries(route, B)) = r(B)
        /\ -Losses(Coins, Entries(route, N)) = r(N)
    BY <1>1, <1>2, <1>3, <1>7
  <2> QED
    BY <1>3, <1>7, <2>1
<1> QED
  BY <1>5, <1>7, <1>8, <1>9, <1>10, <1>11 DEF Between, answer

\* An answer lies between the documents of its request's begin and those now.
LEMMA AnswerBetween ==
  ASSUME NEW N \in SUBSET Items, IsFiniteSet(N), NEW B \in SUBSET N, NEW url \in Urls,
         NEW got, DOMAIN got = Queries(Route(url)), Answered(Route(url), got, B, N), NEW pool
  PROVE  Between(Route(url), StatsOf(Route(url), got, pool),
                 Entries(Route(url), B), Entries(Route(url), N))
<1> DEFINE route == Route(url)
<1>0. route \in {"bnb", "ton"} \/ route \in {"contributions", "liquidity"}
  BY DEF Urls, Route
<1> HIDE DEF route
<1>1. CASE route \in {"bnb", "ton"}
  BY <1>1, SupplyBetween DEF route
<1>2. CASE route \in {"contributions", "liquidity"}
  <2>1. PICK S \in SUBSET N : B \subseteq S /\ got["total"] = Result(route, "total", S)
    BY <1>2 DEF Answered, Queries, route
  <2>2. StatsOf(route, got, pool) = Result(route, "total", S)
    BY <1>2, <2>1 DEF StatsOf
  <2>3. Between(route, Result(route, "total", S), Entries(route, B), Entries(route, N))
    BY <1>2, <2>1, TokensBetween
  <2> QED
    BY <2>2, <2>3 DEF route
<1> QED
  BY <1>0, <1>1, <1>2

-------------------------------------------------------------------------------
(* The requests.  An answer that was shown is the answer to some request;   *)
(* what it is made of was found while the request ran (Computed).           *)

\* A request that runs: what its queries returned so far, from since on.
RunningClient(c) ==
    /\ client[c] = [url |-> client[c].url, got |-> client[c].got, since |-> client[c].since]
    /\ client[c].url \in Urls
    /\ client[c].since \in SUBSET items
    /\ DOMAIN client[c].got \subseteq Queries(Route(client[c].url))
    /\ Answered(Route(client[c].url), client[c].got, client[c].since, items)

\* An entry: the answer to some request that began when since was stored.
Computed(url, entry, S) ==
    /\ entry.since \in SUBSET S
    /\ \E got, pool : /\ DOMAIN got = Queries(Route(url))
                      /\ Answered(Route(url), got, entry.since, S)
                      /\ entry.answer = StatsOf(Route(url), got, pool)

StoredItems == site \subseteq Urls /\ items \subseteq Items /\ IsFiniteSet(items)

EntriesComputed ==
    /\ last = [url \in Urls |-> last[url]]
    /\ cache = [url \in Urls |-> cache[url]]
    /\ \A url \in Urls : /\ last[url] # None => Computed(url, last[url], items)
                         /\ cache[url] \in {None, last[url]}

ClientsRun ==
    /\ client = [c \in Clients |-> client[c]]
    /\ \A c \in Clients : client[c] # Idle => RunningClient(c)

\* Where no two requests ever met, there is one at most, and what it began
\* with is not behind what was shown last.
OneByOne ==
    \A url \in Urls \ overlap :
        /\ \A b, c \in Clients : client[b].url = url /\ client[c].url = url => b = c
        /\ Route(url) \in {"bnb", "ton"} /\ last[url] # None =>
              \A c \in Clients : client[c].url = url =>
                  NotBehind(Figures(Route(url), client[c].since), last[url].answer)

StatsInv == StoredItems /\ EntriesComputed /\ ClientsRun /\ OneByOne

\* No client that is idle has a URL.
LEMMA NoneIsUrl == "none" \notin Urls /\ Idle.url = "none"
  BY DEF Urls, Idle

\* What was stored stays stored, so an answer stays one.
LEMMA AnsweredGrows ==
  ASSUME NEW route, NEW got, NEW B, NEW S, NEW N, S \subseteq N, Answered(route, got, B, S)
  PROVE  Answered(route, got, B, N)
  BY DEF Answered

\* So does an entry.
LEMMA ComputedGrows ==
  ASSUME NEW url, NEW entry, NEW S, NEW N, S \subseteq N, Computed(url, entry, S)
  PROVE  Computed(url, entry, N)
<1>1. PICK got, pool : /\ DOMAIN got = Queries(Route(url))
                       /\ Answered(Route(url), got, entry.since, S)
                       /\ entry.answer = StatsOf(Route(url), got, pool)
  BY DEF Computed
<1>2. Answered(Route(url), got, entry.since, N)
  BY <1>1, AnsweredGrows
<1> QED
  BY <1>1, <1>2 DEF Computed

\* The figures of an entry are not ahead of what is stored.
LEMMA ComputedFigures ==
  ASSUME NEW S \in SUBSET Items, IsFiniteSet(S), NEW url \in Urls, Route(url) \in {"bnb", "ton"}, NEW entry,
         Computed(url, entry, S)
  PROVE  Figured(entry.answer) /\ NotBehind(Figures(Route(url), S), entry.answer)
<1>1. PICK got, pool : /\ DOMAIN got = Queries(Route(url))
                       /\ Answered(Route(url), got, entry.since, S)
                       /\ entry.answer = StatsOf(Route(url), got, pool)
  BY DEF Computed
<1>2. entry.since \in SUBSET S
  BY DEF Computed
<1> QED
  BY <1>1, <1>2, AnswerFigures

\* The invariant holds of an empty collection and an empty cache.
LEMMA StatsInitInv == ASSUME StatisticsAssumption, StatsInit PROVE StatsInv
<1>1. StoredItems
  BY FS_EmptySet DEF StatisticsAssumption, StatsInit, StoredItems
<1>2. EntriesComputed
  BY DEF StatsInit, EntriesComputed
<1>3. ClientsRun
  BY DEF StatsInit, ClientsRun
<1>4. OneByOne
  BY NoneIsUrl DEF StatsInit, OneByOne
<1> QED
  BY <1>1, <1>2, <1>3, <1>4 DEF StatsInv

\* A document comes in.
LEMMA StoreStep ==
  ASSUME StatsInv, NEW d \in Items, Store(d) PROVE StatsInv'
<1>1. items \subseteq items' /\ items' \subseteq Items /\ IsFiniteSet(items')
  BY FS_AddElement DEF Store, StatsInv, StoredItems
<1>2. UNCHANGED <<site, cache, client, last, overlap>>
  BY DEF Store
<1>3. StoredItems'
  BY <1>1, <1>2 DEF StatsInv, StoredItems
<1>4. EntriesComputed'
  BY <1>1, <1>2, ComputedGrows DEF StatsInv, EntriesComputed
<1>5. ClientsRun'
  <2> SUFFICES ASSUME NEW c \in Clients, client[c] # Idle PROVE RunningClient(c)'
    BY <1>2 DEF StatsInv, ClientsRun
  <2>1. RunningClient(c)
    BY DEF StatsInv, ClientsRun
  <2>2. Answered(Route(client[c].url), client[c].got, client[c].since, items')
    BY <1>1, <2>1, AnsweredGrows DEF RunningClient
  <2> QED
    BY <1>1, <1>2, <2>1, <2>2 DEF RunningClient
<1>6. OneByOne'
  BY <1>2 DEF StatsInv, OneByOne
<1> QED
  BY <1>3, <1>4, <1>5, <1>6 DEF StatsInv

\* A cache entry may go.
LEMMA ExpireStep ==
  ASSUME StatsInv, NEW url \in site, Expire(url) PROVE StatsInv'
<1>1. EntriesComputed'
  BY DEF StatsInv, EntriesComputed, Expire
<1> QED
  BY <1>1 DEF StatsInv, Expire, StoredItems, ClientsRun, RunningClient, OneByOne

\* A hit shows again what was shown last.
LEMMA HitStep ==
  ASSUME StatsInv, NEW url \in site, Hit(url) PROVE StatsInv' /\ last' = last
<1>1. url \in Urls /\ cache[url] = last[url]
  BY DEF StatsInv, StoredItems, EntriesComputed, Hit, Key
<1>2. last' = [last EXCEPT ![url] = last[url]] /\ UNCHANGED <<site, items, cache, client, overlap>>
  BY <1>1 DEF Hit, Key
<1>3. last' = last
  BY <1>1, <1>2 DEF StatsInv, EntriesComputed
<1> QED
  BY <1>2, <1>3 DEF StatsInv, StoredItems, EntriesComputed, ClientsRun, RunningClient, OneByOne

\* A request begins, with what is stored and after all that was shown.
LEMMA MissStep ==
  ASSUME StatsInv, NEW c \in Clients, NEW url \in site, Miss(c, url) PROVE StatsInv'
<1>1. url \in Urls /\ UNCHANGED <<site, items, cache, last>>
  BY DEF StatsInv, StoredItems, Miss
<1>2. client' = [client EXCEPT ![c] = [url |-> url, got |-> <<>>, since |-> items]]
  BY DEF Miss
<1>3. StoredItems' /\ EntriesComputed'
  BY <1>1 DEF StatsInv, StoredItems, EntriesComputed
<1>4. ClientsRun'
  <2>1. client' = [b \in Clients |-> client'[b]]
    BY <1>2 DEF StatsInv, ClientsRun
  <2>2. ASSUME NEW b \in Clients, client'[b] # Idle PROVE RunningClient(b)'
    <3>1. CASE b = c
      <4>1. client'[b] = [url |-> url, got |-> <<>>, since |-> items]
        BY <1>2, <3>1 DEF StatsInv, ClientsRun
      <4>2. DOMAIN client'[b].got = {}
        BY <4>1
      <4>3. Answered(Route(url), client'[b].got, items, items)
        BY <4>2 DEF Answered
      <4> QED
        BY <1>1, <4>1, <4>2, <4>3 DEF RunningClient
    <3>2. CASE b # c
      <4>1. client'[b] = client[b]
        BY <1>2, <3>2 DEF StatsInv, ClientsRun
      <4> QED
        BY <1>1, <2>2, <4>1 DEF StatsInv, ClientsRun, RunningClient
    <3> QED
      BY <3>1, <3>2
  <2> QED
    BY <2>1, <2>2 DEF ClientsRun
<1>5. OneByOne'
  <2> SUFFICES ASSUME NEW u \in Urls, u \notin overlap'
               PROVE  /\ \A a, b \in Clients : client'[a].url = u /\ client'[b].url = u => a = b
                      /\ Route(u) \in {"bnb", "ton"} /\ last[u] # None =>
                            \A b \in Clients : client'[b].url = u =>
                                NotBehind(Figures(Route(u), client'[b].since), last[u].answer)
    BY <1>1 DEF OneByOne
  <2>1. u \notin overlap /\ (u = url => \A b \in Clients : client[b].url # url)
    BY DEF Miss
  <2>2. /\ \A a, b \in Clients : client[a].url = u /\ client[b].url = u => a = b
        /\ Route(u) \in {"bnb", "ton"} /\ last[u] # None =>
              \A b \in Clients : client[b].url = u =>
                  NotBehind(Figures(Route(u), client[b].since), last[u].answer)
    BY <2>1 DEF StatsInv, OneByOne
  <2>3. /\ client'[c].url = url /\ client'[c].since = items
        /\ \A b \in Clients \ {c} : client'[b] = client[b]
    BY <1>2 DEF StatsInv, ClientsRun
  <2>4. CASE u = url
    <3>1. \A b \in Clients : client'[b].url = u => b = c
      BY <2>1, <2>3, <2>4
    <3>2. Route(url) \in {"bnb", "ton"} /\ last[url] # None =>
             NotBehind(Figures(Route(url), items), last[url].answer)
      BY <1>1, ComputedFigures DEF StatsInv, StoredItems, EntriesComputed
    <3> QED
      BY <2>3, <2>4, <3>1, <3>2
  <2>5. CASE u # url
    <3>1. \A b \in Clients : client'[b].url = u => client'[b] = client[b]
      BY <2>3, <2>5
    <3> QED
      BY <2>2, <3>1
  <2> QED
    BY <2>4, <2>5
<1> QED
  BY <1>3, <1>4, <1>5 DEF StatsInv

\* A query of a request returns.
LEMMA QueryStep ==
  ASSUME StatsInv, NEW c \in Clients, NEW part, Query(c, part) PROVE StatsInv'
<1>1. UNCHANGED <<site, items, cache, last, overlap>>
  BY DEF Query
<1>2. RunningClient(c) /\ part \in Queries(Route(client[c].url))
  BY DEF StatsInv, ClientsRun, Query
<1> DEFINE url == client[c].url
           got == client[c].got
           since == client[c].since
           more == With(got, part, Result(Route(url), part, items))
<1>3. client' = [client EXCEPT ![c] = [url |-> url, got |-> more, since |-> since]]
  <2>1. client' = [client EXCEPT ![c] = [client[c] EXCEPT !.got = more]]
    BY DEF Query
  <2>2. [client[c] EXCEPT !.got = more] = [url |-> url, got |-> more, since |-> since]
    <3> HIDE DEF more
    <3> QED
      BY <1>2 DEF RunningClient
  <2> QED
    BY <2>1, <2>2
<1>9. part \notin DOMAIN got
  BY DEF Query
<1>4. /\ DOMAIN more = DOMAIN got \cup {part}
      /\ \A x \in DOMAIN got : more[x] = got[x]
      /\ more[part] = Result(Route(url), part, items)
  BY <1>9 DEF With
<1>6. Answered(Route(url), more, since, items)
  <2>1. since \in SUBSET items /\ Answered(Route(url), got, since, items)
    BY <1>2 DEF RunningClient
  <2> HIDE DEF more, got, since, url
  <2> QED
    BY <1>4, <2>1 DEF Answered
<1> HIDE DEF more
<1>7. ClientsRun'
  <2>1. client' = [b \in Clients |-> client'[b]]
    BY <1>3 DEF StatsInv, ClientsRun
  <2>2. ASSUME NEW b \in Clients, client'[b] # Idle PROVE RunningClient(b)'
    <3>1. CASE b = c
      <4>1. client'[b] = [url |-> url, got |-> more, since |-> since]
        BY <1>3, <3>1 DEF StatsInv, ClientsRun
      <4> QED
        BY <1>1, <1>2, <1>4, <1>6, <4>1 DEF RunningClient
    <3>2. CASE b # c
      <4>1. client'[b] = client[b]
        BY <1>3, <3>2 DEF StatsInv, ClientsRun
      <4> QED
        BY <1>1, <2>2, <4>1 DEF StatsInv, ClientsRun, RunningClient
    <3> QED
      BY <3>1, <3>2
  <2> QED
    BY <2>1, <2>2 DEF ClientsRun
<1>8. OneByOne'
  <2>1. \A b \in Clients : client'[b].url = client[b].url
                           /\ (client[b].url \in Urls => client'[b].since = client[b].since)
    BY <1>3 DEF StatsInv, ClientsRun
  <2> QED
    BY <1>1, <2>1 DEF StatsInv, OneByOne
<1> QED
  BY <1>1, <1>7, <1>8 DEF StatsInv, StoredItems, EntriesComputed

\* A request is over: one fewer runs.
LEMMA FewerRun ==
  ASSUME StatsInv, NEW c \in Clients, client' = [client EXCEPT ![c] = Idle], UNCHANGED items
  PROVE  /\ ClientsRun'
         /\ \A b \in Clients : client'[b].url \in Urls => client'[b] = client[b] /\ b # c
<1>1. DOMAIN client' = Clients /\ client'[c] = Idle /\ \A b \in Clients \ {c} : client'[b] = client[b]
  BY DEF StatsInv, ClientsRun
<1>2. ASSUME NEW b \in Clients, client'[b] # Idle PROVE RunningClient(b)'
  <2>1. client'[b] = client[b] /\ RunningClient(b)
    BY <1>1, <1>2 DEF StatsInv, ClientsRun
  <2> QED
    BY <2>1 DEF RunningClient
<1> QED
  BY <1>1, <1>2, NoneIsUrl DEF ClientsRun

\* A request fails.
LEMMA FailStep ==
  ASSUME StatsInv, NEW c \in Clients, Fail(c) PROVE StatsInv'
<1>1. UNCHANGED <<site, items, cache, last, overlap>> /\ client' = [client EXCEPT ![c] = Idle]
  BY DEF Fail
<1>2. /\ ClientsRun'
      /\ \A b \in Clients : client'[b].url \in Urls => client'[b] = client[b] /\ b # c
  BY <1>1, FewerRun
<1>3. OneByOne'
  BY <1>1, <1>2 DEF StatsInv, OneByOne
<1> QED
  BY <1>1, <1>2, <1>3 DEF StatsInv, StoredItems, EntriesComputed

\* What a request that ends tells, and what it leaves alone.
LEMMA ReplyTells ==
  ASSUME StatsInv, NEW c \in Clients, Reply(c)
  PROVE  \E entry :
           /\ client[c].url \in Urls /\ RunningClient(c) /\ entry # None
           /\ entry.since = client[c].since /\ Computed(client[c].url, entry, items)
           /\ last' = [last EXCEPT ![client[c].url] = entry]
           /\ cache' = [cache EXCEPT ![client[c].url] = entry]
           /\ Route(client[c].url) \in {"bnb", "ton"} =>
                 NotBehind(entry.answer, Figures(Route(client[c].url), client[c].since))
<1> DEFINE url == client[c].url
           got == client[c].got
           since == client[c].since
<1>1. RunningClient(c) /\ DOMAIN got = Queries(Route(url))
  BY DEF StatsInv, ClientsRun, Reply
<1>2. PICK pool : /\ last' = [last EXCEPT ![url] = [answer |-> StatsOf(Route(url), got, pool), since |-> since]]
                  /\ cache' = [cache EXCEPT ![url] = [answer |-> StatsOf(Route(url), got, pool), since |-> since]]
  BY DEF Reply, Key
<1> DEFINE entry == [answer |-> StatsOf(Route(url), got, pool), since |-> since]
<1>3. entry # None
  BY DEF None
<1>4. url \in Urls /\ since \in SUBSET items /\ Answered(Route(url), got, since, items)
  BY <1>1 DEF RunningClient
<1>5. Computed(url, entry, items)
  BY <1>1, <1>4 DEF Computed
<1>6. Route(url) \in {"bnb", "ton"} => NotBehind(entry.answer, Figures(Route(url), since))
  <2> HIDE DEF url, got, since
  <2>1. items \in SUBSET Items /\ IsFiniteSet(items)
    BY DEF StatsInv, StoredItems
  <2> QED
    BY <1>1, <1>4, <2>1, AnswerFigures
<1> QED
  BY <1>1, <1>2, <1>3, <1>4, <1>5, <1>6

\* A request ends, and its answer is kept and shown.
LEMMA ReplyStep ==
  ASSUME StatsInv, NEW c \in Clients, Reply(c) PROVE StatsInv'
<1>1. PICK entry :
           /\ client[c].url \in Urls /\ RunningClient(c) /\ entry # None
           /\ entry.since = client[c].since /\ Computed(client[c].url, entry, items)
           /\ last' = [last EXCEPT ![client[c].url] = entry]
           /\ cache' = [cache EXCEPT ![client[c].url] = entry]
           /\ Route(client[c].url) \in {"bnb", "ton"} =>
                 NotBehind(entry.answer, Figures(Route(client[c].url), client[c].since))
  BY ReplyTells
<1>2. UNCHANGED <<site, items, overlap>> /\ client' = [client EXCEPT ![c] = Idle]
  BY DEF Reply
<1>3. /\ ClientsRun'
      /\ \A b \in Clients : client'[b].url \in Urls => client'[b] = client[b] /\ b # c
  BY <1>2, FewerRun
<1>4. EntriesComputed'
  BY <1>1, <1>2 DEF StatsInv, EntriesComputed
<1>5. OneByOne'
  <2> SUFFICES ASSUME NEW u \in Urls, u \notin overlap
               PROVE  /\ \A a, b \in Clients : client'[a].url = u /\ client'[b].url = u => a = b
                      /\ Route(u) \in {"bnb", "ton"} /\ last'[u] # None =>
                            \A b \in Clients : client'[b].url = u =>
                                NotBehind(Figures(Route(u), client'[b].since), last'[u].answer)
    BY <1>2 DEF OneByOne
  <2>1. /\ \A a, b \in Clients : client[a].url = u /\ client[b].url = u => a = b
        /\ Route(u) \in {"bnb", "ton"} /\ last[u] # None =>
              \A b \in Clients : client[b].url = u =>
                  NotBehind(Figures(Route(u), client[b].since), last[u].answer)
    BY DEF StatsInv, OneByOne
  <2>2. CASE u = client[c].url
    BY <1>3, <2>1, <2>2
  <2>3. CASE u # client[c].url
    <3>1. last'[u] = last[u]
      BY <1>1, <2>3 DEF StatsInv, EntriesComputed
    <3> QED
      BY <1>3, <2>1, <3>1
  <2> QED
    BY <2>2, <2>3
<1> QED
  BY <1>2, <1>3, <1>4, <1>5 DEF StatsInv, StoredItems

\* Every step keeps the invariant.
LEMMA StatsStep == ASSUME StatsInv, [StatsNext]_statsVars PROVE StatsInv'
<1>1. CASE UNCHANGED statsVars
  BY <1>1 DEF statsVars, StatsInv, StoredItems, EntriesComputed, ClientsRun, RunningClient, OneByOne
<1>2. CASE \E d \in Items : Store(d)
  BY <1>2, StoreStep
<1>3. CASE \E url \in site : Expire(url) \/ Hit(url)
  BY <1>3, ExpireStep, HitStep
<1>4. CASE \E c \in Clients, url \in site : Miss(c, url)
  BY <1>4, MissStep
<1>5. CASE \E c \in Clients, part \in UNION {Queries(Route(url)) : url \in site} : Query(c, part)
  BY <1>5, QueryStep
<1>6. CASE \E c \in Clients : Reply(c) \/ Fail(c)
  BY <1>6, ReplyStep, FailStep
<1> QED
  BY <1>1, <1>2, <1>3, <1>4, <1>5, <1>6 DEF StatsNext

\* The bracket follows from where the answers come from.
LEMMA InvBracketed == ASSUME StatsInv PROVE StatsBracketed
<1> SUFFICES ASSUME NEW url \in Urls, last[url] # None
             PROVE  Between(Route(url), last[url].answer,
                            Entries(Route(url), last[url].since), Entries(Route(url), items))
  BY DEF StatsBracketed
<1>1. Computed(url, last[url], items) /\ items \in SUBSET Items /\ IsFiniteSet(items)
  BY DEF StatsInv, EntriesComputed, StoredItems
<1>2. PICK got, pool : /\ DOMAIN got = Queries(Route(url))
                       /\ Answered(Route(url), got, last[url].since, items)
                       /\ last[url].answer = StatsOf(Route(url), got, pool)
  BY <1>1 DEF Computed
<1>3. last[url].since \in SUBSET items
  BY <1>1 DEF Computed
<1>4. Between(Route(url), StatsOf(Route(url), got, pool),
              Entries(Route(url), last[url].since), Entries(Route(url), items))
  BY <1>1, <1>2, <1>3, AnswerBetween
<1> QED
  BY <1>2, <1>4

\* A step shows no figures behind those shown before.
NeverBehind ==
    \A url \in Urls :
        Route(url) \in {"bnb", "ton"} /\ url \notin overlap /\ last[url] # None
            => NotBehind(last'[url].answer, last[url].answer)

\* What stays as it is does not fall back.
LEMMA NotBehindSelf ==
  ASSUME StatsInv, NEW url \in Urls, Route(url) \in {"bnb", "ton"}, last[url] # None
  PROVE  Figured(last[url].answer) /\ NotBehind(last[url].answer, last[url].answer)
<1>1. Figured(last[url].answer)
  BY ComputedFigures DEF StatsInv, EntriesComputed, StoredItems, Urls
<1> QED
  BY <1>1 DEF Figured, NotBehind

\* An answer computed alone is not behind the last one: that one was shown
\* before the request began, and all its queries are later.
LEMMA ReplyForward ==
  ASSUME StatsInv, NEW c \in Clients, Reply(c) PROVE NeverBehind
<1>1. PICK entry :
           /\ client[c].url \in Urls /\ RunningClient(c) /\ entry # None
           /\ entry.since = client[c].since /\ Computed(client[c].url, entry, items)
           /\ last' = [last EXCEPT ![client[c].url] = entry]
           /\ cache' = [cache EXCEPT ![client[c].url] = entry]
           /\ Route(client[c].url) \in {"bnb", "ton"} =>
                 NotBehind(entry.answer, Figures(Route(client[c].url), client[c].since))
  BY ReplyTells
<1> SUFFICES ASSUME NEW url \in Urls, Route(url) \in {"bnb", "ton"}, url \notin overlap, last[url] # None
             PROVE  NotBehind(last'[url].answer, last[url].answer)
  BY DEF NeverBehind
<1>2. url \in Urls /\ DOMAIN last = Urls
  BY DEF Urls, StatsInv, EntriesComputed
<1>3. Figured(last[url].answer) /\ NotBehind(last[url].answer, last[url].answer)
  BY NotBehindSelf
<1>4. CASE url # client[c].url
  BY <1>1, <1>2, <1>3, <1>4
<1>5. CASE url = client[c].url
  <2> DEFINE began == Figures(Route(url), client[c].since)
  <2>1. last'[url] = entry
    BY <1>1, <1>2, <1>5
  <2>2. items \in SUBSET Items /\ IsFiniteSet(items) /\ client[c].since \in SUBSET items
    BY <1>1 DEF StatsInv, StoredItems, RunningClient
  <2>3. NotBehind(began, last[url].answer)
    BY <1>2, <1>5 DEF StatsInv, OneByOne
  <2>4. NotBehind(entry.answer, began)
    BY <1>1, <1>5
  <2>5. Figured(entry.answer)
    BY <1>1, <1>5, <2>2, ComputedFigures
  <2>6. Figured(began)
    BY <2>2, FiguresGrow
  <2> HIDE DEF began
  <2> QED
    BY <1>3, <2>1, <2>3, <2>4, <2>5, <2>6 DEF NotBehind, Figured
<1> QED
  BY <1>4, <1>5

\* No other step shows anything new.
LEMMA StepForward == ASSUME StatsInv, [StatsNext]_statsVars PROVE [NeverBehind]_statsVars
<1>1. CASE last' = last
  BY <1>1, NotBehindSelf DEF NeverBehind
<1>2. CASE \E url \in site : Hit(url)
  BY <1>1, <1>2, HitStep
<1>3. CASE \E c \in Clients : Reply(c)
  BY <1>3, ReplyForward
<1> QED
  BY <1>1, <1>2, <1>3 DEF StatsNext, Store, Expire, Miss, Query, Fail, statsVars

\* The invariant holds throughout.
LEMMA StatsInvariant == ASSUME StatisticsAssumption PROVE StatsSpec => []StatsInv
<1>1. StatsInit => StatsInv
  BY StatsInitInv
<1>2. StatsInv /\ [StatsNext]_statsVars => StatsInv'
  BY StatsStep
<1> QED
  BY <1>1, <1>2, PTL DEF StatsSpec

\* Whatever is stored while the queries of a request run, in whatever order they
\* return, however old the cache: each answer of GET /stats and of the totals
\* lies between what the documents at the start of its request make and what
\* those stored now make, gains and losses taken at their worst: what was minted
\* and redeemed, the supply and its backing on either network, the number of
\* transactions, and what each token comes to.
THEOREM StatsStayBracketed == StatsSpec => []StatsBracketed
<1>1. StatsInv => StatsBracketed
  BY InvBracketed
<1>2. StatsSpec => []StatsInv
  BY StatsInvariant, StatisticsAssumption
<1> QED
  BY <1>1, <1>2, PTL

\* However many documents come in, requests fail and cache entries expire: the
\* figures shown at a URL never fall back, as long as no two requests for it
\* compute them at the same time.
THEOREM StatsNeverFallBack == StatsSpec => StatsForward
<1>1. StatsInv /\ [StatsNext]_statsVars => [NeverBehind]_statsVars
  BY StepForward
<1>2. StatsSpec => []StatsInv
  BY StatsInvariant, StatisticsAssumption
<1>3. StatsSpec => [][NeverBehind]_statsVars
  BY <1>1, <1>2, PTL DEF StatsSpec
<1> QED
  BY <1>3 DEF StatsForward, NeverBehind

-------------------------------------------------------------------------------
(* The calendar.                                                            *)

DaysOf(p) == DaysIn(p[1], p[2])
Covered(p, day) == DaysBefore[p] <= day /\ day < DaysBefore[p] + DaysOf(p)
Preceding(p) == {o \in Months : Earlier(o, p)}

\* A month has 28 to 31 days.
LEMMA DaysInMonth == \A y, m : DaysIn(y, m) \in Nat /\ 28 <= DaysIn(y, m) /\ DaysIn(y, m) <= 31
  BY DEF DaysIn

\* A month is a year and a number.
LEMMA MonthPair ==
  \A p \in Months : /\ p = <<p[1], p[2]>> /\ p[1] \in FirstYear..LastYear /\ p[2] \in 1..12
                    /\ p[1] \in Nat /\ p[2] \in Nat
  BY TokenPriceAssumption DEF Months, TokenPriceAssumption

\* The calendar is finite.
LEMMA MonthsFinite == IsFiniteSet(Months)
<1>1. IsFiniteSet(FirstYear..LastYear) /\ IsFiniteSet(1..12)
  <2>1. FirstYear \in Int /\ LastYear \in Int /\ 1 \in Int /\ 12 \in Int
    BY TokenPriceAssumption DEF TokenPriceAssumption
  <2> QED
    BY <2>1, FS_Interval
<1> QED
  BY <1>1, FS_Product DEF Months

\* The months are in a total order.
LEMMA EarlierOrder ==
  /\ \A p, q \in Months : Earlier(p, q) \/ p = q \/ Earlier(q, p)
  /\ \A p \in Months : ~Earlier(p, p)
  /\ \A o, p, q \in Months : Earlier(o, p) /\ Earlier(p, q) => Earlier(o, q)
  BY MonthPair DEF Earlier

\* The days of a set of months: a natural, no less than those of a part of it,
\* and a month more is its days more.
LEMMA LengthIs ==
  ASSUME NEW S \in SUBSET Months
  PROVE  /\ IsFiniteSet(S)
         /\ Length(S) \in Nat
         /\ \A T \in SUBSET S : Length(T) \in Nat /\ Length(T) <= Length(S)
         /\ \A p \in Months \ S : Length(S \cup {p}) = Length(S) + DaysOf(p)
<1> DEFINE f == [p \in Months |-> DaysIn(p[1], p[2])]
<1>1. \A p \in Months : f[p] \in Nat /\ f[p] \in Int /\ f[p] = DaysOf(p)
  BY DaysInMonth DEF DaysOf
<1>2. ASSUME NEW T \in SUBSET Months
      PROVE  IsFiniteSet(T) /\ Length(T) = SumFunctionOnSet(f, T)
  <2> DEFINE g == [p \in T |-> DaysIn(p[1], p[2])]
  <2>1. \A x \in T : g[x] \in Int /\ g[x] = f[x]
    BY <1>1
  <2>2. DOMAIN g = T
    OBVIOUS
  <2>3. IsFiniteSet(T)
    BY MonthsFinite, FS_Subset
  <2>4. Length(T) = SumFunctionOnSet(g, T)
    BY <2>2 DEF Length, SumFunction
  <2> HIDE DEF f, g
  <2> QED
    BY <2>1, <2>3, <2>4, SumSame
<1> HIDE DEF f
<1>3. IsFiniteSet(S) /\ Length(S) \in Nat
  BY <1>1, <1>2, SumNat
<1>4. ASSUME NEW T \in SUBSET S PROVE Length(T) \in Nat /\ Length(T) <= Length(S)
  <2>1. /\ SumFunctionOnSet(f, T) \in Nat
        /\ SumFunctionOnSet(f, T) <= SumFunctionOnSet(f, S)
    BY <1>1, <1>3, SumGrows
  <2>2. T \in SUBSET Months
    OBVIOUS
  <2> QED
    BY <1>2, <2>1, <2>2
<1>5. ASSUME NEW p \in Months \ S PROVE Length(S \cup {p}) = Length(S) + DaysOf(p)
  <2> DEFINE U == S \cup {p}
  <2>1. U \in SUBSET Months /\ p \in U /\ U \ {p} = S
    OBVIOUS
  <2> HIDE DEF U
  <2>2. IsFiniteSet(U) /\ Length(U) = SumFunctionOnSet(f, U)
    BY <1>2, <2>1
  <2>3. SumFunctionOnSet(f, U) = f[p] + SumFunctionOnSet(f, U \ {p})
    BY <1>1, <2>1, <2>2, SumRemove
  <2>4. Length(U) = f[p] + Length(S)
    BY <1>2, <2>1, <2>2, <2>3
  <2> QED
    BY <1>1, <1>3, <2>4 DEF U
<1> QED
  BY <1>3, <1>4, <1>5

\* The days before a month, and before the next one.
LEMMA BeforeIs ==
  ASSUME NEW p \in Months
  PROVE  /\ DaysBefore[p] = Length(Preceding(p)) /\ DaysBefore[p] \in Nat
         /\ DaysOf(p) \in 28..31
         /\ Length(Preceding(p) \cup {p}) = DaysBefore[p] + DaysOf(p)
         /\ DaysBefore[p] + DaysOf(p) <= Length(Months) /\ Length(Months) \in Nat
<1>1. DaysBefore[p] = Length(Preceding(p))
  BY DEF DaysBefore, Preceding
<1>2. Preceding(p) \in SUBSET Months /\ p \notin Preceding(p)
  BY EarlierOrder DEF Preceding
<1>3. Length(Preceding(p)) \in Nat /\ Length(Preceding(p) \cup {p}) = Length(Preceding(p)) + DaysOf(p)
  BY <1>2, LengthIs
<1>4. Length(Preceding(p) \cup {p}) <= Length(Months) /\ Length(Months) \in Nat
  <2>1. Preceding(p) \cup {p} \in SUBSET Months
    BY <1>2
  <2> QED
    BY <2>1, LengthIs
<1> QED
  BY <1>1, <1>3, <1>4, DaysInMonth DEF DaysOf

\* The same, for arithmetic.
LEMMA MonthTypes ==
  \A p \in Months : DaysBefore[p] \in Nat /\ DaysOf(p) \in Nat /\ 28 <= DaysOf(p) /\ DaysOf(p) <= 31
<1> SUFFICES ASSUME NEW p \in Months
             PROVE  DaysBefore[p] \in Nat /\ DaysOf(p) \in Nat /\ 28 <= DaysOf(p) /\ DaysOf(p) <= 31
  OBVIOUS
<1>1. DaysBefore[p] \in Nat /\ DaysOf(p) \in 28..31
  BY BeforeIs
<1> QED
  BY <1>1

\* Months do not overlap.
LEMMA MonthsApart ==
  ASSUME NEW p \in Months, NEW q \in Months, Earlier(p, q)
  PROVE  DaysBefore[p] + DaysOf(p) <= DaysBefore[q]
<1>1. Preceding(q) \in SUBSET Months /\ Preceding(p) \cup {p} \in SUBSET Preceding(q)
  BY EarlierOrder DEF Preceding
<1>2. Length(Preceding(p) \cup {p}) <= Length(Preceding(q))
  BY <1>1, LengthIs
<1> QED
  BY <1>2, BeforeIs

\* A month begins where the one before it ends.
LEMMA NextMonth ==
  ASSUME NEW p \in Months, NEW q \in Months, Earlier(p, q),
         \A o \in Months : ~(Earlier(p, o) /\ Earlier(o, q))
  PROVE  DaysBefore[q] = DaysBefore[p] + DaysOf(p)
<1>1. Preceding(q) = Preceding(p) \cup {p}
  BY EarlierOrder DEF Preceding
<1> QED
  BY <1>1, BeforeIs

\* Of some months, one is the latest.
LEMMA LatestMonth ==
  ASSUME NEW S \in SUBSET Months, S # {}
  PROVE  \E l \in S : \A o \in S : o = l \/ Earlier(o, l)
<1> DEFINE HasLatest(T) == \E l \in T : \A o \in T : o = l \/ Earlier(o, l)
           Good == {T \in SUBSET S : T # {} => HasLatest(T)}
<1>1. ASSUME NEW T \in SUBSET S, \A U \in SUBSET T : U # T => U \in Good
      PROVE  T \in Good
  <2> SUFFICES ASSUME T # {} PROVE HasLatest(T)
    OBVIOUS
  <2>1. PICK x \in T : TRUE
    OBVIOUS
  <2>2. CASE T = {x}
    BY <2>2
  <2>3. CASE T \ {x} # {}
    <3>1. T \ {x} \in Good
      BY <1>1, <2>1
    <3>2. PICK l \in T \ {x} : \A o \in T \ {x} : o = l \/ Earlier(o, l)
      BY <2>3, <3>1
    <3>3. x \in Months /\ l \in Months /\ T \subseteq Months
      BY <2>1, <3>2
    <3>4. CASE Earlier(x, l)
      BY <3>2, <3>4
    <3>5. CASE Earlier(l, x)
      <4>1. \A o \in T : o = x \/ Earlier(o, x)
        BY <3>2, <3>3, <3>5, EarlierOrder
      <4> QED
        BY <2>1, <4>1
    <3> QED
      BY <3>2, <3>3, <3>4, <3>5, EarlierOrder
  <2> QED
    BY <2>1, <2>2, <2>3
<1>2. IsFiniteSet(S)
  BY LengthIs
<1> HIDE DEF Good
<1>3. S \in Good
  BY <1>1, <1>2, SetInduction
<1> QED
  BY <1>3 DEF Good

\* A day that the months up to it do not reach, is not among them.
LEMMA Reach ==
  ASSUME NEW T \in SUBSET Months, NEW day \in Nat, day < Length(T),
         \A p \in T : Preceding(p) \subseteq T
  PROVE  \E p \in T : day < DaysBefore[p] + DaysOf(p)
<1>1. T # {}
  <2>1. Length({}) = 0
    BY SumEmpty DEF Length, SumFunction
  <2> QED
    BY <2>1
<1>2. PICK l \in T : \A o \in T : o = l \/ Earlier(o, l)
  BY <1>1, LatestMonth
<1>3. T = Preceding(l) \cup {l}
  BY <1>2 DEF Preceding
<1> QED
  BY <1>2, <1>3, BeforeIs

\* Every day of the calendar lies in a month.
LEMMA FirstToReach ==
  ASSUME NEW day \in Nat, day < Length(Months)
  PROVE  \E p \in Months : Covered(p, day)
<1> DEFINE Ends(p) == day < DaysBefore[p] + DaysOf(p)
           Past == {p \in Months : ~Ends(p)}
<1>1. \A p \in Past : Preceding(p) \subseteq Past
  <2> SUFFICES ASSUME NEW p \in Past, NEW o \in Preceding(p) PROVE o \in Past
    OBVIOUS
  <2>1. p \in Months /\ o \in Months /\ Earlier(o, p)
    BY DEF Preceding
  <2>2. DaysBefore[o] + DaysOf(o) <= DaysBefore[p]
    BY <2>1, MonthsApart
  <2>3. DaysBefore[o] \in Nat /\ DaysOf(o) \in Nat /\ DaysBefore[p] \in Nat /\ DaysOf(p) \in Nat
    BY <2>1, MonthTypes
  <2> QED
    BY <2>1, <2>2, <2>3
<1>2. ~(day < Length(Past))
  <2>1. Past \in SUBSET Months
    OBVIOUS
  <2> HIDE DEF Past
  <2> QED
    BY <1>1, <2>1, Reach DEF Past
<1>3. SUFFICES ASSUME \A p \in Months : ~Covered(p, day) PROVE FALSE
  OBVIOUS
<1>4. \A p \in Months : Preceding(p) \subseteq Past => p \in Past
  <2> SUFFICES ASSUME NEW p \in Months, Preceding(p) \subseteq Past PROVE p \in Past
    OBVIOUS
  <2>1. Past \in SUBSET Months /\ Preceding(p) \in SUBSET Past
    OBVIOUS
  <2>2. Length(Preceding(p)) <= Length(Past) /\ Length(Past) \in Nat
    <3> HIDE DEF Past
    <3> QED
      BY <2>1, LengthIs
  <2>3. DaysBefore[p] <= day
    <3>1. DaysBefore[p] = Length(Preceding(p)) /\ DaysBefore[p] \in Nat
      BY BeforeIs
    <3> HIDE DEF Past
    <3> QED
      BY <1>2, <2>2, <3>1
  <2> QED
    BY <1>3, <2>3 DEF Covered
<1> DEFINE Good == {T \in SUBSET Months : (\A p \in T : Preceding(p) \subseteq T) => T \subseteq Past}
<1>5. ASSUME NEW T \in SUBSET Months, \A U \in SUBSET T : U # T => U \in Good
      PROVE  T \in Good
  <2> SUFFICES ASSUME \A p \in T : Preceding(p) \subseteq T, NEW p \in T PROVE p \in Past
    OBVIOUS
  <2>1. Preceding(p) \in SUBSET T /\ p \notin Preceding(p)
    BY EarlierOrder DEF Preceding
  <2>2. \A o \in Preceding(p) : Preceding(o) \subseteq Preceding(p)
    BY EarlierOrder DEF Preceding
  <2>3. Preceding(p) \in Good
    BY <1>5, <2>1
  <2> QED
    BY <1>4, <2>2, <2>3
<1>6. Months \in Good
  <2> HIDE DEF Good
  <2> QED
    BY <1>5, MonthsFinite, SetInduction
<1>7. Months = Past
  <2>1. \A p \in Months : Preceding(p) \subseteq Months
    BY DEF Preceding
  <2> QED
    BY <1>6, <2>1
<1> QED
  BY <1>2, <1>7

\* In exactly one.
LEMMA CalendarIs ==
  ASSUME NEW day \in Nat, day < Length(Months)
  PROVE  /\ Calendar[day] \in Months /\ Covered(Calendar[day], day)
         /\ \A p \in Months : Covered(p, day) => p = Calendar[day]
<1>1. day \in 0..(Length(Months) - 1)
  BY LengthIs
<1>2. Calendar[day] = CHOOSE p \in Months : Covered(p, day)
  BY <1>1 DEF Calendar, Covered, DaysOf
<1>3. Calendar[day] \in Months /\ Covered(Calendar[day], day)
  BY <1>2, FirstToReach
<1>4. ASSUME NEW p \in Months, NEW q \in Months, Covered(p, day), Covered(q, day) PROVE p = q
  <2>1. DaysBefore[p] \in Nat /\ DaysOf(p) \in Nat /\ DaysBefore[q] \in Nat /\ DaysOf(q) \in Nat
    BY MonthTypes
  <2>2. ~Earlier(p, q)
    BY <1>4, <2>1, MonthsApart DEF Covered
  <2>3. ~Earlier(q, p)
    BY <1>4, <2>1, MonthsApart DEF Covered
  <2> QED
    BY <2>2, <2>3, EarlierOrder
<1> QED
  BY <1>3, <1>4

\* The hours of the calendar.
Hours == 0..(24 * Length(Months) - 1)

\* The year and month, day and hour of a moment.
LEMMA Parts ==
  ASSUME NEW t \in Hours
  PROVE  /\ MonthOf(t) \in Months /\ Covered(MonthOf(t), t \div 24)
         /\ t \div 24 \in Nat /\ t % 24 \in 0..23 /\ t = 24 * (t \div 24) + (t % 24)
         /\ DayOf(t) \in 1..DaysOf(MonthOf(t))
         /\ DaysBefore[MonthOf(t)] + DayOf(t) - 1 = t \div 24
         /\ \A p \in Months : Covered(p, t \div 24) => p = MonthOf(t)
<1>1. Length(Months) \in Nat
  BY LengthIs
<1>2. t \in Nat /\ t < 24 * Length(Months)
  BY <1>1 DEF Hours
<1>3. t \div 24 \in Nat /\ t % 24 \in 0..23 /\ t = 24 * (t \div 24) + (t % 24)
  BY <1>2
<1>4. t \div 24 < Length(Months)
  BY <1>1, <1>2, <1>3
<1>5. /\ MonthOf(t) \in Months /\ Covered(MonthOf(t), t \div 24)
      /\ \A p \in Months : Covered(p, t \div 24) => p = MonthOf(t)
  BY <1>3, <1>4, CalendarIs DEF MonthOf
<1>6. DaysBefore[MonthOf(t)] \in Nat /\ DaysOf(MonthOf(t)) \in Nat
  BY <1>5, MonthTypes
<1> QED
  BY <1>3, <1>5, <1>6 DEF DayOf, Covered

\* Days and hours are told apart by 24.
LEMMA HourParts ==
  \A n \in Int, h \in 0..23 : (n * 24 + h) \div 24 = n /\ (n * 24 + h) % 24 = h
  OBVIOUS

\* An hour of a day of a month is in that month.
LEMMA DateIs ==
  ASSUME NEW p \in Months, NEW day \in Nat, Covered(p, day), NEW h \in 0..23
  PROVE  LET t == day * 24 + h
         IN  t \in Hours /\ t \div 24 = day /\ t % 24 = h /\ MonthOf(t) = p
<1> DEFINE t == day * 24 + h
<1>1. DaysBefore[p] \in Nat /\ DaysOf(p) \in Nat /\ DaysBefore[p] + DaysOf(p) <= Length(Months) /\ Length(Months) \in Nat
  BY BeforeIs, MonthTypes
<1>2. day < Length(Months)
  BY <1>1 DEF Covered
<1>3. t \in Hours
  BY <1>1, <1>2 DEF Hours
<1>4. t \div 24 = day /\ t % 24 = h
  <2>1. day \in Int
    OBVIOUS
  <2>2. (day * 24 + h) \div 24 = day /\ (day * 24 + h) % 24 = h
    BY <2>1, HourParts
  <2> QED
    BY <2>2
<1> HIDE DEF t
<1>5. MonthOf(t) = p
  BY <1>3, <1>4, Parts
<1> QED
  BY <1>3, <1>4, <1>5 DEF t

\* The start of a day, of this or another month.
LEMMA DayIs ==
  ASSUME NEW p \in Months, NEW d \in 1..DaysOf(p), NEW h \in 0..23
  PROVE  /\ Date(p[1], p[2], d, h) = (DaysBefore[p] + d - 1) * 24 + h
         /\ DaysBefore[p] + d - 1 \in Nat /\ Covered(p, DaysBefore[p] + d - 1)
         /\ Date(p[1], p[2], d, h) \div 24 = DaysBefore[p] + d - 1
<1>1. DaysBefore[p] \in Nat /\ DaysOf(p) \in Nat /\ p = <<p[1], p[2]>>
  BY MonthTypes, MonthPair
<1>2. Date(p[1], p[2], d, h) = (DaysBefore[p] + d - 1) * 24 + h
  BY <1>1 DEF Date
<1>3. DaysBefore[p] + d - 1 \in Nat /\ Covered(p, DaysBefore[p] + d - 1)
  BY <1>1 DEF Covered
<1>4. \A n \in Int : (n * 24 + h) \div 24 = n
  BY HourParts
<1> QED
  BY <1>2, <1>3, <1>4

-------------------------------------------------------------------------------
(* How far back a chart goes.                                               *)

Leap(y) == IF IsLeap(y) THEN 1 ELSE 0

\* From a month to the next, in a year ...
LEMMA OneMonthOn ==
  ASSUME NEW y \in FirstYear..LastYear, NEW m \in 1..11
  PROVE  /\ <<y, m>> \in Months /\ <<y, m + 1>> \in Months
         /\ DaysBefore[<<y, m>>] \in Nat
         /\ DaysBefore[<<y, m + 1>>] = DaysBefore[<<y, m>>] + DaysIn(y, m)
<1> DEFINE p == <<y, m>>
           q == <<y, m + 1>>
<1>1. p \in Months /\ q \in Months /\ y \in Nat
  BY TokenPriceAssumption DEF Months, TokenPriceAssumption
<1>2. Earlier(p, q)
  BY DEF Earlier
<1>3. \A o \in Months : ~(Earlier(p, o) /\ Earlier(o, q))
  BY <1>1, MonthPair DEF Earlier
<1>4. DaysBefore[p] \in Nat /\ DaysOf(p) = DaysIn(y, m)
  BY <1>1, MonthTypes DEF DaysOf
<1> HIDE DEF p, q
<1>5. DaysBefore[q] = DaysBefore[p] + DaysOf(p)
  BY <1>1, <1>2, <1>3, NextMonth
<1> QED
  BY <1>1, <1>4, <1>5 DEF p, q

\* ... and from December to January.
LEMMA OneYearOn ==
  ASSUME NEW y \in FirstYear..LastYear, y + 1 \in FirstYear..LastYear
  PROVE  /\ <<y, 12>> \in Months /\ <<y + 1, 1>> \in Months
         /\ DaysBefore[<<y, 12>>] \in Nat
         /\ DaysBefore[<<y + 1, 1>>] = DaysBefore[<<y, 12>>] + 31
<1> DEFINE p == <<y, 12>>
           q == <<y + 1, 1>>
<1>1. p \in Months /\ q \in Months /\ y \in Nat
  BY TokenPriceAssumption DEF Months, TokenPriceAssumption
<1>2. Earlier(p, q)
  BY <1>1 DEF Earlier
<1>3. \A o \in Months : ~(Earlier(p, o) /\ Earlier(o, q))
  BY <1>1, MonthPair DEF Earlier
<1>4. DaysBefore[p] \in Nat /\ DaysOf(p) = 31
  BY <1>1, MonthTypes DEF DaysOf, DaysIn
<1> HIDE DEF p, q
<1>5. DaysBefore[q] = DaysBefore[p] + DaysOf(p)
  BY <1>1, <1>2, <1>3, NextMonth
<1> QED
  BY <1>1, <1>4, <1>5 DEF p, q

\* The days of a year before each of its months, but for a leap day.
Ordinal == <<0, 31, 59, 90, 120, 151, 181, 212, 243, 273, 304, 334>>

\* The days before a month, counted from January.
LEMMA YearIs ==
  ASSUME NEW y \in FirstYear..LastYear, NEW m \in 1..12
  PROVE  /\ <<y, m>> \in Months /\ <<y, 1>> \in Months /\ DaysBefore[<<y, 1>>] \in Nat
         /\ DaysBefore[<<y, m>>] = DaysBefore[<<y, 1>>] + Ordinal[m] + (IF m > 2 THEN Leap(y) ELSE 0)
<1> DEFINE b(n) == DaysBefore[<<y, n>>]
<1>1. <<y, m>> \in Months /\ <<y, 1>> \in Months /\ b(1) \in Nat
  <2>1. <<y, m>> \in Months /\ <<y, 1>> \in Months
    BY DEF Months
  <2> QED
    BY <2>1, MonthTypes
<1>2. \A n \in 1..11 : b(n + 1) = b(n) + DaysIn(y, n)
  BY OneMonthOn
<1>3. /\ DaysIn(y, 1) = 31 /\ DaysIn(y, 2) = 28 + Leap(y) /\ DaysIn(y, 3) = 31 /\ DaysIn(y, 4) = 30
      /\ DaysIn(y, 5) = 31 /\ DaysIn(y, 6) = 30 /\ DaysIn(y, 7) = 31 /\ DaysIn(y, 8) = 31
      /\ DaysIn(y, 9) = 30 /\ DaysIn(y, 10) = 31 /\ DaysIn(y, 11) = 30
  BY DEF DaysIn, Leap
<1>4. Leap(y) \in 0..1
  BY DEF Leap
<1> HIDE DEF b
<1>5. /\ b(2) = b(1) + 31 /\ b(3) = b(2) + 28 + Leap(y) /\ b(4) = b(3) + 31 /\ b(5) = b(4) + 30
      /\ b(6) = b(5) + 31 /\ b(7) = b(6) + 30 /\ b(8) = b(7) + 31 /\ b(9) = b(8) + 31
      /\ b(10) = b(9) + 30 /\ b(11) = b(10) + 31 /\ b(12) = b(11) + 30
  <2>1. /\ b(1 + 1) = b(1) + 31 /\ b(2 + 1) = b(2) + (28 + Leap(y)) /\ b(3 + 1) = b(3) + 31
        /\ b(4 + 1) = b(4) + 30 /\ b(5 + 1) = b(5) + 31 /\ b(6 + 1) = b(6) + 30 /\ b(7 + 1) = b(7) + 31
        /\ b(8 + 1) = b(8) + 31 /\ b(9 + 1) = b(9) + 30 /\ b(10 + 1) = b(10) + 31 /\ b(11 + 1) = b(11) + 30
    BY <1>2, <1>3
  <2>2. b(2) \in Nat
    BY <1>1, <2>1
  <2> QED
    BY <1>4, <2>1, <2>2
<1>6. b(m) = b(1) + Ordinal[m] + (IF m > 2 THEN Leap(y) ELSE 0)
  <2>1. /\ b(2) = b(1) + 31 /\ b(3) = b(1) + 59 + Leap(y) /\ b(4) = b(1) + 90 + Leap(y)
        /\ b(5) = b(1) + 120 + Leap(y) /\ b(6) = b(1) + 151 + Leap(y) /\ b(7) = b(1) + 181 + Leap(y)
        /\ b(8) = b(1) + 212 + Leap(y) /\ b(9) = b(1) + 243 + Leap(y) /\ b(10) = b(1) + 273 + Leap(y)
        /\ b(11) = b(1) + 304 + Leap(y) /\ b(12) = b(1) + 334 + Leap(y)
    BY <1>1, <1>4, <1>5
  <2>2. m \in {1, 2, 3, 4, 5, 6, 7, 8, 9, 10, 11, 12}
    OBVIOUS
  <2> QED
    BY <1>1, <1>4, <2>1, <2>2 DEF Ordinal
<1> QED
  BY <1>1, <1>6 DEF b

\* A year has 365 days, or 366.
LEMMA NextYear ==
  ASSUME NEW y \in FirstYear..LastYear, y + 1 \in FirstYear..LastYear
  PROVE  DaysBefore[<<y + 1, 1>>] = DaysBefore[<<y, 1>>] + 365 + Leap(y)
<1>1. DaysBefore[<<y, 12>>] = DaysBefore[<<y, 1>>] + 334 + Leap(y) /\ DaysBefore[<<y, 1>>] \in Nat
  <2>1. 12 \in 1..12 /\ Ordinal[12] = 334 /\ 12 > 2
    BY DEF Ordinal
  <2>2. /\ DaysBefore[<<y, 1>>] \in Nat
        /\ DaysBefore[<<y, 12>>] = DaysBefore[<<y, 1>>] + Ordinal[12] + (IF 12 > 2 THEN Leap(y) ELSE 0)
    <3> DEFINE m == 12
    <3>1. m \in 1..12
      OBVIOUS
    <3> HIDE DEF m
    <3>2. /\ DaysBefore[<<y, 1>>] \in Nat
          /\ DaysBefore[<<y, m>>] = DaysBefore[<<y, 1>>] + Ordinal[m] + (IF m > 2 THEN Leap(y) ELSE 0)
      BY <3>1, YearIs
    <3> QED
      BY <3>2 DEF m
  <2> QED
    BY <2>1, <2>2
<1>2. Leap(y) \in 0..1
  BY DEF Leap
<1> QED
  BY <1>1, <1>2, OneYearOn

\* The first year is over after 366 days.
LEMMA NotFirstYear ==
  ASSUME NEW p \in Months, NEW day \in Nat, Covered(p, day), day >= 366
  PROVE  p[1] # FirstYear
<1> SUFFICES ASSUME p[1] = FirstYear PROVE FALSE
  OBVIOUS
<1>1. p = <<FirstYear, p[2]>> /\ p[2] \in 1..12 /\ FirstYear \in FirstYear..LastYear /\ FirstYear \in Nat
  BY MonthPair
<1>2. DaysBefore[<<FirstYear, 1>>] = 0
  <2>1. <<FirstYear, 1>> \in Months
    BY <1>1 DEF Months
  <2>2. Preceding(<<FirstYear, 1>>) = {}
    BY <1>1, MonthPair DEF Preceding, Earlier
  <2>3. Length({}) = 0
    BY SumEmpty DEF Length, SumFunction
  <2> QED
    BY <2>1, <2>2, <2>3, BeforeIs
<1>3. DaysBefore[p] = Ordinal[p[2]] + (IF p[2] > 2 THEN Leap(FirstYear) ELSE 0)
  <2>1. Ordinal[p[2]] \in Nat /\ Leap(FirstYear) \in Nat
    BY <1>1 DEF Ordinal, Leap
  <2>2. DaysBefore[<<FirstYear, p[2]>>] =
           DaysBefore[<<FirstYear, 1>>] + Ordinal[p[2]] + (IF p[2] > 2 THEN Leap(FirstYear) ELSE 0)
    BY <1>1, YearIs
  <2> QED
    BY <1>1, <1>2, <2>1, <2>2
<1>4. Leap(FirstYear) \in 0..1 /\ p[2] \in 1..12 /\ Ordinal[p[2]] \in 0..334
  BY <1>1 DEF Leap, Ordinal
<1>5. DaysOf(p) \in Nat /\ DaysOf(p) <= 31
  BY MonthTypes
<1> QED
  BY <1>3, <1>4, <1>5 DEF Covered

\* The same day some months back, cut to the length of that month.
LEMMA MonthsBack ==
  ASSUME NEW t \in Hours, NEW q \in Months, NEW n \in Nat,
         n < 13, MonthOf(t)[1] * 12 + MonthOf(t)[2] - 1 - n = q[1] * 12 + q[2] - 1
  PROVE  LET d == DayOf(t)
         IN  /\ MonthsEarlier(t, n) \in Int
             /\ MonthsEarlier(t, n) \div 24
                   = DaysBefore[q] + (IF d > DaysOf(q) THEN DaysOf(q) ELSE d) - 1
<1> DEFINE p == MonthOf(t)
           k == p[1] * 12 + p[2] - 1 - n
           d == DayOf(t)
           cut == IF d > DaysOf(q) THEN DaysOf(q) ELSE d
<1>1. p \in Months /\ d \in 1..DaysOf(p) /\ DaysOf(p) \in Nat /\ DaysOf(q) \in Nat /\ DaysOf(q) >= 28
  BY Parts, MonthTypes
<1>2. q[1] \in Nat /\ q[2] \in 1..12
  BY MonthPair
<1>3. k \div 12 = q[1] /\ (k % 12) + 1 = q[2]
  <2>1. k = q[1] * 12 + (q[2] - 1)
    BY <1>2
  <2>2. \A a \in Nat, b \in 0..11 : (a * 12 + b) \div 12 = a /\ (a * 12 + b) % 12 = b
    OBVIOUS
  <2>3. q[2] - 1 \in 0..11
    BY <1>2
  <2> HIDE DEF k
  <2>4. k \div 12 = q[1] /\ k % 12 = q[2] - 1
    BY <1>2, <2>1, <2>2, <2>3
  <2> QED
    BY <1>2, <2>4
<1>4. MonthsEarlier(t, n) = Date(q[1], q[2], cut, 0)
  BY <1>3 DEF MonthsEarlier, DaysOf
<1>5. cut \in 1..DaysOf(q)
  BY <1>1
<1> HIDE DEF cut
<1>6. /\ Date(q[1], q[2], cut, 0) \div 24 = DaysBefore[q] + cut - 1
      /\ Date(q[1], q[2], cut, 0) = (DaysBefore[q] + cut - 1) * 24
      /\ DaysBefore[q] + cut - 1 \in Nat
  BY <1>5, DayIs
<1> QED
  BY <1>4, <1>6 DEF cut

\* A chart begins as many days back as it should.
LEMMA MonthBefore ==
  ASSUME NEW t \in Hours, t >= 366 * 24
  PROVE  /\ MonthsEarlier(t, 1) \in Int
         /\ t \div 24 - MonthsEarlier(t, 1) \div 24 \in 28..31
<1> DEFINE p == MonthOf(t)
           d == DayOf(t)
           q == IF p[2] = 1 THEN <<p[1] - 1, 12>> ELSE <<p[1], p[2] - 1>>
<1>1. /\ p \in Months /\ Covered(p, t \div 24) /\ t \div 24 \in Nat
      /\ d \in 1..DaysOf(p) /\ DaysBefore[p] + d - 1 = t \div 24
  BY Parts
<1>2. t \div 24 >= 366
  <2>1. t = 24 * (t \div 24) + (t % 24) /\ t % 24 \in 0..23
    BY Parts
  <2> QED
    BY <1>1, <2>1
<1>3. p[1] # FirstYear
  BY <1>1, <1>2, NotFirstYear
<1>4. p[1] \in FirstYear..LastYear /\ p[2] \in 1..12 /\ p = <<p[1], p[2]>> /\ FirstYear \in Nat /\ LastYear \in Nat
  BY <1>1, MonthPair, TokenPriceAssumption DEF TokenPriceAssumption
<1> HIDE DEF p
<1>5. q \in Months /\ p[1] * 12 + p[2] - 1 - 1 = q[1] * 12 + q[2] - 1
  BY <1>3, <1>4 DEF Months
<1>6. DaysBefore[p] = DaysBefore[q] + DaysOf(q)
  <2>1. CASE p[2] = 1
    <3>1. p[1] - 1 \in FirstYear..LastYear /\ (p[1] - 1) + 1 = p[1]
      BY <1>3, <1>4
    <3>2. DaysBefore[<<(p[1] - 1) + 1, 1>>] = DaysBefore[<<p[1] - 1, 12>>] + 31
      BY <1>4, <3>1, OneYearOn
    <3>3. DaysOf(q) = 31 /\ q = <<p[1] - 1, 12>>
      BY <2>1 DEF DaysOf, DaysIn
    <3> HIDE DEF q
    <3> QED
      BY <1>4, <2>1, <3>1, <3>2, <3>3
  <2>2. CASE p[2] # 1
    <3>1. p[2] - 1 \in 1..11 /\ (p[2] - 1) + 1 = p[2]
      BY <1>4, <2>2
    <3>2. DaysBefore[<<p[1], (p[2] - 1) + 1>>] = DaysBefore[<<p[1], p[2] - 1>>] + DaysIn(p[1], p[2] - 1)
      BY <1>4, <3>1, OneMonthOn
    <3>3. DaysOf(q) = DaysIn(p[1], p[2] - 1) /\ q = <<p[1], p[2] - 1>>
      BY <2>2 DEF DaysOf
    <3> HIDE DEF q
    <3> QED
      BY <1>4, <3>1, <3>2, <3>3
  <2> QED
    BY <2>1, <2>2
<1> HIDE DEF q
<1>7. MonthsEarlier(t, 1) \div 24 = DaysBefore[q] + (IF d > DaysOf(q) THEN DaysOf(q) ELSE d) - 1
  BY <1>5, MonthsBack DEF p
<1>8. /\ DaysBefore[q] \in Nat /\ DaysOf(q) \in Nat /\ 28 <= DaysOf(q) /\ DaysOf(q) <= 31
      /\ DaysOf(p) \in Nat /\ DaysOf(p) <= 31
  BY <1>1, <1>5, MonthTypes
<1> HIDE DEF d
<1>9. t \div 24 - MonthsEarlier(t, 1) \div 24 \in 28..31
  BY <1>1, <1>6, <1>7, <1>8
<1>10. MonthsEarlier(t, 1) \in Int
  BY <1>5, MonthsBack DEF p
<1> QED
  BY <1>9, <1>10

\* A year back, 29 February being cut to the 28th.
LEMMA YearBefore ==
  ASSUME NEW t \in Hours, t >= 366 * 24
  PROVE  /\ MonthsEarlier(t, 12) \in Int
         /\ t \div 24 - MonthsEarlier(t, 12) \div 24 \in 365..366
<1> DEFINE p == MonthOf(t)
           d == DayOf(t)
           y == p[1] - 1
           m == p[2]
           q == <<y, m>>
<1>1. /\ p \in Months /\ Covered(p, t \div 24) /\ t \div 24 \in Nat
      /\ d \in 1..DaysOf(p) /\ DaysBefore[p] + d - 1 = t \div 24
  BY Parts
<1>2. t \div 24 >= 366
  <2>1. t = 24 * (t \div 24) + (t % 24) /\ t % 24 \in 0..23
    BY Parts
  <2> QED
    BY <1>1, <2>1
<1>3. p[1] # FirstYear
  BY <1>1, <1>2, NotFirstYear
<1>4. p[1] \in FirstYear..LastYear /\ m \in 1..12 /\ p = <<p[1], m>> /\ FirstYear \in Nat /\ LastYear \in Nat
  BY <1>1, MonthPair, TokenPriceAssumption DEF TokenPriceAssumption
<1> HIDE DEF p
<1>5. /\ y \in FirstYear..LastYear /\ y + 1 = p[1] /\ y + 1 \in FirstYear..LastYear
      /\ p[1] * 12 + p[2] - 1 - 12 = y * 12 + m - 1
  BY <1>3, <1>4
<1>6. p = <<y + 1, m>>
  BY <1>4, <1>5
<1> HIDE DEF y, m
<1>7. q \in Months /\ q[1] = y /\ q[2] = m
  BY <1>4, <1>5 DEF Months
<1>8. /\ DaysBefore[q] = DaysBefore[<<y, 1>>] + Ordinal[m] + (IF m > 2 THEN Leap(y) ELSE 0)
      /\ DaysBefore[<<y, 1>>] \in Nat
  BY <1>4, <1>5, YearIs
<1>9. DaysBefore[p] = DaysBefore[<<y + 1, 1>>] + Ordinal[m] + (IF m > 2 THEN Leap(y + 1) ELSE 0)
  BY <1>4, <1>5, <1>6, YearIs
<1>10. DaysBefore[<<y + 1, 1>>] = DaysBefore[<<y, 1>>] + 365 + Leap(y)
  BY <1>5, NextYear
<1>11. Leap(y) \in 0..1 /\ Leap(y + 1) \in 0..1 /\ Ordinal[m] \in Nat
  BY <1>4 DEF Leap, Ordinal
<1>12. DaysBefore[p] = DaysBefore[q] + 365 + (IF m > 2 THEN Leap(y + 1) ELSE Leap(y))
  BY <1>4, <1>8, <1>9, <1>10, <1>11
<1>13. /\ MonthsEarlier(t, 12) \in Int
       /\ MonthsEarlier(t, 12) \div 24
             = DaysBefore[q] + (IF d > DaysOf(q) THEN DaysOf(q) ELSE d) - 1
  <2>1. p[1] * 12 + p[2] - 1 - 12 = q[1] * 12 + q[2] - 1
    BY <1>5, <1>7
  <2> HIDE DEF q
  <2> QED
    BY <1>7, <2>1, MonthsBack DEF p
<1>14. /\ DaysBefore[q] \in Nat /\ DaysOf(p) \in Nat /\ DaysOf(q) \in Nat
       /\ m # 2 => DaysOf(p) = DaysOf(q)
       /\ m = 2 => DaysOf(p) = 28 + Leap(y + 1) /\ DaysOf(q) = 28 + Leap(y)
  <2>1. DaysBefore[q] \in Nat /\ DaysOf(p) \in Nat /\ DaysOf(q) \in Nat
    BY <1>1, <1>7, MonthTypes
  <2>2. DaysOf(p) = DaysIn(y + 1, m) /\ DaysOf(q) = DaysIn(y, m)
    BY <1>6, <1>7 DEF DaysOf
  <2> QED
    BY <1>4, <2>1, <2>2 DEF DaysIn, Leap
<1> HIDE DEF d, q
<1> QED
  BY <1>1, <1>4, <1>11, <1>12, <1>13, <1>14

-------------------------------------------------------------------------------
(* The candles.                                                             *)

\* A candle covers the moments of its group, and no others.
LEMMA CandleCovers ==
  ASSUME NEW range \in Ranges, NEW u \in Hours, NEW t \in Hours, NEW c,
         c.timestamp = DateFromParts(range, GroupTime(range, u))
  PROVE  Covers(range, c, t) <=> GroupTime(range, t) = GroupTime(range, u)
<1> DEFINE p == MonthOf(u)
           q == MonthOf(t)
           du == u \div 24
           dt == t \div 24
<1>1. /\ p \in Months /\ Covered(p, du) /\ du \in Nat /\ u % 24 \in 0..23 /\ u = 24 * du + (u % 24)
      /\ DayOf(u) \in 1..DaysOf(p) /\ DaysBefore[p] + DayOf(u) - 1 = du
  BY Parts
<1>2. /\ q \in Months /\ Covered(q, dt) /\ dt \in Nat /\ t % 24 \in 0..23 /\ t = 24 * dt + (t % 24)
      /\ DayOf(t) \in 1..DaysOf(q) /\ DaysBefore[q] + DayOf(t) - 1 = dt
  BY Parts
<1>3. /\ DaysBefore[p] \in Nat /\ DaysOf(p) \in Nat /\ DaysOf(p) >= 28
      /\ DaysBefore[q] \in Nat /\ DaysOf(q) \in Nat
  BY <1>1, <1>2, MonthTypes
<1>4. p = q <=> <<p[1], p[2]>> = <<q[1], q[2]>>
  BY <1>1, <1>2, MonthPair
<1>5. du = dt <=> p = q /\ DayOf(u) = DayOf(t)
  <2>1. du = dt => p = q
    BY <1>1, <1>2, Parts
  <2>2. DayOf(u) \in Int /\ DayOf(t) \in Int
    BY <1>1, <1>2
  <2>3. DayOf(u) = du - DaysBefore[p] + 1 /\ DayOf(t) = dt - DaysBefore[q] + 1
    BY DEF DayOf
  <2>4. du = DaysBefore[p] + DayOf(u) - 1 /\ dt = DaysBefore[q] + DayOf(t) - 1
    BY <1>1, <1>2
  <2> HIDE DEF p, q, du, dt
  <2> QED
    BY <2>1, <2>3, <2>4
<1>6. CASE range = "d"
  <2>1. c.timestamp = Date(p[1], p[2], DayOf(u), u % 24)
    BY <1>6 DEF DateFromParts, GroupTime
  <2>2. Date(p[1], p[2], DayOf(u), u % 24) = (DaysBefore[p] + DayOf(u) - 1) * 24 + (u % 24)
    BY <1>1, DayIs
  <2>3. c.timestamp = du * 24 + (u % 24)
    BY <1>1, <2>1, <2>2
  <2>4. Covers(range, c, t) <=> t = u
    <3>1. Covers(range, c, t) <=> c.timestamp + 0 <= t /\ t < c.timestamp + 0 + 1
      BY <1>6 DEF Covers
    <3> HIDE DEF du
    <3> QED
      BY <1>1, <1>2, <2>3, <3>1 DEF Hours
  <2>5. t = u <=> p = q /\ DayOf(u) = DayOf(t) /\ u % 24 = t % 24
    BY <1>1, <1>2, <1>5
  <2>6. GroupTime(range, t) = GroupTime(range, u)
           <=> <<q[1], q[2], DayOf(t), t % 24>> = <<p[1], p[2], DayOf(u), u % 24>>
    BY <1>6 DEF GroupTime
  <2> HIDE DEF p, q
  <2> QED
    BY <1>4, <2>4, <2>5, <2>6
<1>7. CASE range \in {"w", "m"}
  <2>1. c.timestamp = Date(p[1], p[2], DayOf(u), 0) - Zone
    BY <1>7 DEF DateFromParts, GroupTime
  <2>2. Date(p[1], p[2], DayOf(u), 0) = (DaysBefore[p] + DayOf(u) - 1) * 24 + 0
    BY <1>1, DayIs
  <2>3. c.timestamp = du * 24 - 7
    <3> HIDE DEF p, du
    <3> QED
      BY <1>1, <2>1, <2>2 DEF Zone
  <2>4. Covers(range, c, t) <=> du = dt
    <3>1. Covers(range, c, t) <=> c.timestamp + 7 <= t /\ t < c.timestamp + 7 + 24
      BY <1>7 DEF Covers, Zone
    <3> HIDE DEF du, dt
    <3> QED
      BY <1>1, <1>2, <2>3, <3>1 DEF Hours
  <2>5. GroupTime(range, t) = GroupTime(range, u)
           <=> <<q[1], q[2], DayOf(t)>> = <<p[1], p[2], DayOf(u)>>
    BY <1>7 DEF GroupTime
  <2> HIDE DEF p, q, du, dt
  <2> QED
    BY <1>4, <1>5, <2>4, <2>5
<1>8. CASE range = "y"
  <2>1. c.timestamp = Date(p[1], p[2], 1, 0) - Zone
    BY <1>8 DEF DateFromParts, GroupTime
  <2>2. /\ Date(p[1], p[2], 1, 0) = (DaysBefore[p] + 1 - 1) * 24 + 0
        /\ Covered(p, DaysBefore[p] + 1 - 1)
    <3> DEFINE d == 1
               h == 0
    <3>1. d \in 1..DaysOf(p) /\ h \in 0..23
      BY <1>3
    <3> HIDE DEF d, h, p
    <3>2. /\ Date(p[1], p[2], d, h) = (DaysBefore[p] + d - 1) * 24 + h
          /\ Covered(p, DaysBefore[p] + d - 1)
      BY <1>1, <3>1, DayIs
    <3> QED
      BY <3>2 DEF d, h
  <2>3. c.timestamp + Zone = DaysBefore[p] * 24
    <3> HIDE DEF p
    <3> QED
      BY <1>3, <2>1, <2>2 DEF Zone
  <2>4. MonthOf(DaysBefore[p] * 24) = p
    <3>1. Covered(p, DaysBefore[p])
      BY <1>3, <2>2
    <3>2. MonthOf(DaysBefore[p] * 24 + 0) = p
      BY <1>1, <1>3, <3>1, DateIs
    <3> HIDE DEF p
    <3> QED
      BY <1>3, <3>2
  <2>5. Covers(range, c, t) <=> DaysBefore[p] * 24 <= t /\ t < DaysBefore[p] * 24 + 24 * DaysOf(p)
    BY <1>8, <2>3, <2>4 DEF Covers, DaysOf
  <2>6. Covers(range, c, t) <=> Covered(p, dt)
    <3> HIDE DEF p, dt
    <3> QED
      BY <1>2, <1>3, <2>5 DEF Covered
  <2>7. Covered(p, dt) <=> p = q
    BY <1>1, <1>2, Parts
  <2>8. GroupTime(range, t) = GroupTime(range, u) <=> <<q[1], q[2]>> = <<p[1], p[2]>>
    BY <1>8 DEF GroupTime
  <2> HIDE DEF p, q, dt
  <2> QED
    BY <1>4, <2>6, <2>7, <2>8
<1> QED
  BY <1>6, <1>7, <1>8 DEF Ranges

Samples == now \in Moments /\ prices \subseteq [time: Moments, price: Nat, network: Networks]

\* The samples are prices of the networks at moments of the calendar.
LEMMA SamplesKept == PriceSpec => []Samples
<1>1. PriceInit => Samples
  BY DEF PriceInit, Samples
<1>2. Samples /\ [PriceNext]_priceVars => Samples'
  BY TokenPriceAssumption
  DEF TokenPriceAssumption, Samples, PriceNext, Wait, CronGetPrice, priceVars
<1> QED
  BY <1>1, <1>2, PTL DEF PriceSpec

\* The moments lie in the calendar, a year and more after its begin.
LEMMA MomentsAreHours == \A t \in Moments : t \in Hours /\ t >= 366 * 24
<1>1. Length(Months) \in Nat
  BY LengthIs
<1> QED
  BY <1>1, TokenPriceAssumption DEF TokenPriceAssumption, Hours

\* The four ranges begin where they should.
LEMMA FarEnough ==
  ASSUME Samples, NEW range \in Ranges
  PROVE  /\ StartDate(range) \in Int
         /\ now \div 24 - StartDate(range) \div 24 \in DaysBack(range)
<1>1. now \in Hours /\ now >= 366 * 24 /\ now \in Nat
  BY MomentsAreHours, LengthIs DEF Samples, Hours
<1>2. CASE range = "d"
  BY <1>1, <1>2 DEF StartDate, DaysBack
<1>3. CASE range = "w"
  BY <1>1, <1>3 DEF StartDate, DaysBack, StartOfDay
<1>4. CASE range = "m"
  BY <1>1, <1>4, MonthBefore DEF StartDate, DaysBack
<1>5. CASE range = "y"
  BY <1>1, <1>5, YearBefore DEF StartDate, DaysBack
<1> QED
  BY <1>2, <1>3, <1>4, <1>5 DEF Ranges

\* Samples with one stamp are those with the same parts.
LEMMA StampIs ==
  ASSUME NEW range \in Ranges, NEW u \in Hours, NEW t \in Hours
  PROVE  Stamp(range, t) = Stamp(range, u) <=> GroupTime(range, t) = GroupTime(range, u)
<1> DEFINE c == Candle(Stamp(range, u), {})
           e == Candle(Stamp(range, t), {})
<1>1. /\ c.timestamp = DateFromParts(range, GroupTime(range, u))
      /\ e.timestamp = DateFromParts(range, GroupTime(range, t))
  BY DEF Candle, Stamp
<1>2. Stamp(range, t) = Stamp(range, u) => c = e
  OBVIOUS
<1> HIDE DEF c, e
<1>3. Covers(range, c, t) <=> GroupTime(range, t) = GroupTime(range, u)
  BY <1>1, CandleCovers
<1>4. Covers(range, e, t)
  BY <1>1, CandleCovers
<1> QED
  BY <1>2, <1>3, <1>4 DEF Stamp

\* The candles hold the samples asked for, each its own group.
LEMMA CandlesWhole ==
  ASSUME Samples, NEW range \in Ranges, NEW network \in Networks,
         NEW asked, asked = {s \in prices : s.network = network /\ s.time >= StartDate(range)}
  PROVE  CandlesFit(range, Chart(range, network), asked)
<1> DEFINE chart == Chart(range, network)
           In(c) == {s \in asked : Covers(range, c, s.time)}
           StampOf(u) == Stamp(range, u.time)
           Those(stamp) == {s \in asked : Stamp(range, s.time) = stamp}
           CandleOf(stamp) == Candle(stamp, Those(stamp))
<1>1. chart = {CandleOf(StampOf(s)) : s \in asked}
  <2>1. {s \in prices : s.time >= StartDate(range) /\ s.network = network} = asked
    OBVIOUS
  <2>2. chart = {CandleOf(stamp) : stamp \in {StampOf(s) : s \in asked}}
    BY <2>1 DEF Chart, Candles
  <2> HIDE DEF chart, CandleOf
  <2> QED
    BY <2>2
<1>2. \A s \in asked : s \in prices /\ s.time \in Hours /\ s.network = network
  BY MomentsAreHours DEF Samples
<1>3. \A u, s \in asked : Covers(range, CandleOf(StampOf(u)), s.time) <=> StampOf(s) = StampOf(u)
  <2> SUFFICES ASSUME NEW u \in asked, NEW s \in asked
               PROVE  Covers(range, CandleOf(StampOf(u)), s.time) <=> StampOf(s) = StampOf(u)
    OBVIOUS
  <2> DEFINE c == CandleOf(StampOf(u))
  <2>1. c.timestamp = DateFromParts(range, GroupTime(range, u.time))
    BY DEF Candle, Stamp
  <2> HIDE DEF c
  <2>2. Covers(range, c, s.time) <=> GroupTime(range, s.time) = GroupTime(range, u.time)
    BY <1>2, <2>1, CandleCovers
  <2> QED
    BY <1>2, <2>2, StampIs DEF c
<1>4. \A stamp : /\ CandleOf(stamp).count = Cardinality(Those(stamp))
                 /\ CandleOf(stamp).sum = SumPrices(Those(stamp))
  BY DEF Candle
<1> HIDE DEF chart, CandleOf
<1>5. ASSUME NEW s \in asked PROVE Cardinality({c \in chart : Covers(range, c, s.time)}) = 1
  <2>1. \A u \in asked : StampOf(s) = StampOf(u) => CandleOf(StampOf(u)) = CandleOf(StampOf(s))
    BY DEF CandleOf
  <2>2. {c \in chart : Covers(range, c, s.time)} = {CandleOf(StampOf(s))}
    BY <1>1, <1>3, <2>1
  <2> QED
    BY <2>2, FS_Singleton
<1>6. ASSUME NEW c \in chart PROVE c.count = Cardinality(In(c)) /\ c.sum = SumPrices(In(c))
  <2>1. PICK u \in asked : c = CandleOf(StampOf(u))
    BY <1>1
  <2>2. In(c) = Those(StampOf(u))
    BY <1>3, <2>1
  <2> QED
    BY <1>4, <2>1, <2>2
<1> QED
  BY <1>5, <1>6 DEF chart, CandlesFit

\* The latest price is not older than any of the chart.
LEMMA LatestAsked ==
  ASSUME Samples, NEW range \in Ranges, NEW network \in Networks,
         NEW asked, asked = {s \in prices : s.network = network /\ s.time >= StartDate(range)},
         NEW s \in prices, IsLatestPrice(s, network), asked # {}
  PROVE  s \in asked
<1>1. PICK t \in asked : TRUE
  OBVIOUS
<1>2. t.time <= s.time /\ s.network = network
  BY <1>1 DEF IsLatestPrice
<1>3. s.time \in Int /\ t.time \in Int /\ StartDate(range) \in Int
  BY <1>1, FarEnough, MomentsAreHours, LengthIs DEF Samples, Hours
<1> QED
  BY <1>1, <1>2, <1>3

\* For any years and any moments in them: a chart begins a day, a week, a month
\* of 28 to 31 days or a year of 365 or 366 days back, each sample since is in one
\* candle, which holds those of its hour, day or month and no others, and the
\* latest price is among them.
THEOREM ChartsAreWhole == PriceSpec => []ChartWhole
<1>1. Samples => ChartWhole
  BY FarEnough, CandlesWhole, LatestAsked DEF ChartWhole
<1>2. PriceSpec => []Samples
  BY SamplesKept
<1> QED
  BY <1>1, <1>2, PTL
=============================================================================
