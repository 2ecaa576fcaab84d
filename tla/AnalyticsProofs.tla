-------------------------- MODULE AnalyticsProofs --------------------------
(* Proofs about the rules of module Intelligence, over every database and     *)
(* all limits in the proportion of the code's.  Totals are sums over finite   *)
(* sets; what a sum computes is shown by induction on the subsets of the set. *)
EXTENDS AddressGraph, FiniteSetTheorems, NaturalsInduction, WellFoundedInduction, TLAPS

LEMMA LeastNumber ==
  ASSUME NEW T \in SUBSET Nat, T # {}
  PROVE  \E m \in T : \A k \in T : m <= k
<1>1. PICK m \in T : \A y \in T : ~(<<y, m>> \in OpToRel(<, Nat))
  BY NatLessThanWellFounded, WFMin
<1>2. ASSUME NEW k \in T
      PROVE  m <= k
  <2>1. ~(k < m)
    BY <1>1 DEF OpToRel
  <2> QED
    BY <2>1
<1> QED
  BY <1>2

(* Induction on the numbers of a set, and on the subsets of a finite one.     *)
LEMMA SetInduction ==
  ASSUME NEW T, 0 \in T, \A n \in Nat : n \in T => n + 1 \in T
  PROVE  Nat \subseteq T
<1>1. ASSUME Nat \ T # {}
      PROVE  FALSE
  <2>1. PICK m \in Nat \ T : \A k \in Nat \ T : m <= k
    BY <1>1, LeastNumber
  <2>2. m # 0
    BY <2>1
  <2>3. m - 1 \in Nat /\ ~(m <= m - 1) /\ (m - 1) + 1 = m
    BY <2>1, <2>2
  <2>4. m - 1 \in T
    BY <2>1, <2>3
  <2>5. m \in T
    BY <2>3, <2>4
  <2> QED
    BY <2>1, <2>5
<1> QED
  BY <1>1

LEMMA FiniteInduction ==
  ASSUME NEW S, IsFiniteSet(S), NEW F, {} \in F,
         \A T \in SUBSET S : \A x \in S \ T : T \in F => T \cup {x} \in F
  PROVE  S \in F
<1> DEFINE Sized == {n \in Nat : \A T \in SUBSET S : Cardinality(T) = n => T \in F}
<1>1. \A T \in SUBSET S : IsFiniteSet(T)
  BY FS_Subset
<1>2. 0 \in Sized
  BY <1>1, FS_EmptySet
<1>3. ASSUME NEW n \in Nat, n \in Sized
      PROVE  n + 1 \in Sized
  <2> SUFFICES ASSUME NEW T \in SUBSET S, Cardinality(T) = n + 1
               PROVE  T \in F
    OBVIOUS
  <2>1. IsFiniteSet(T) /\ T # {}
    BY <1>1, FS_EmptySet
  <2>2. PICK x \in T : TRUE
    BY <2>1
  <2>3. Cardinality(T \ {x}) = n
    <3>1. Cardinality(T \ {x}) = Cardinality(T) - 1
      BY <2>1, <2>2, FS_RemoveElement
    <3> QED
      BY <3>1
  <2>4. T \ {x} \in F
    BY <1>3, <2>3
  <2>5. (T \ {x}) \cup {x} \in F
    BY <2>4
  <2>6. (T \ {x}) \cup {x} = T
    BY <2>2
  <2> QED
    BY <2>5, <2>6
<1>4. Nat \subseteq Sized
  <2> HIDE DEF Sized
  <2> QED
    BY <1>2, <1>3, SetInduction
<1>5. Cardinality(S) \in Nat
  BY FS_CardinalityType
<1> QED
  BY <1>4, <1>5

-----------------------------------------------------------------------------
IsSum(f, v, S) ==
  f = [s \in SUBSET S |-> IF s = {} THEN 0
                          ELSE v[CHOOSE x \in s : TRUE] + f[s \ {CHOOSE x \in s : TRUE}]]

LEMMA SumUnfolded ==
  ASSUME NEW v, NEW S
  PROVE  SumFunctionOnSet(v, S) = (CHOOSE f : IsSum(f, v, S))[S]
  BY Zenon DEF SumFunctionOnSet, FoldFunctionOnSet, MapThenFoldSet, IsSum

LEMMA SumDefined ==
  ASSUME NEW v, NEW S, IsFiniteSet(S), \A x \in S : v[x] \in Int
  PROVE  \E f \in [SUBSET S -> Int] : IsSum(f, v, S)
<1> DEFINE pick(s) == CHOOSE x \in s : TRUE
           Small(n) == {s \in SUBSET S : Cardinality(s) <= n}
           Eq(f, D) == f = [s \in D |-> IF s = {} THEN 0 ELSE v[pick(s)] + f[s \ {pick(s)}]]
           T == {n \in Nat : \E f \in [Small(n) -> Int] : Eq(f, Small(n))}
<1>1. \A s \in SUBSET S : s # {} => pick(s) \in s
  OBVIOUS
<1>2. \A s \in SUBSET S : IsFiniteSet(s) /\ Cardinality(s) \in Nat
  BY FS_Subset, FS_CardinalityType
<1> HIDE DEF pick
<1>3. \A s \in SUBSET S : s # {} => Cardinality(s \ {pick(s)}) = Cardinality(s) - 1
  BY <1>1, <1>2, FS_RemoveElement
<1>4. 0 \in T
  <2> DEFINE f == [s \in Small(0) |-> 0]
  <2>1. \A s \in Small(0) : s = {}
    BY <1>2, FS_EmptySet
  <2>2. f \in [Small(0) -> Int]
    OBVIOUS
  <2>3. Eq(f, Small(0))
    BY <2>1
  <2> QED
    BY <2>2, <2>3
<1>5. ASSUME NEW n \in Nat, n \in T
      PROVE  n + 1 \in T
  <2>1. PICK f \in [Small(n) -> Int] : Eq(f, Small(n))
    BY <1>5
  <2> DEFINE g == [s \in Small(n + 1) |-> IF s = {} THEN 0 ELSE v[pick(s)] + f[s \ {pick(s)}]]
  <2>2. \A s \in Small(n + 1) : s # {} => s \ {pick(s)} \in Small(n)
    BY <1>1, <1>2, <1>3
  <2>3. \A s \in Small(n) : s \in Small(n + 1)
    BY <1>2
  <2>4. \A s \in Small(n + 1) : s # {} => v[pick(s)] \in Int
    BY <1>1
  <2> HIDE DEF Small
  <2>5. \A s \in Small(n) : g[s] = f[s]
    BY <2>1, <2>3
  <2>6. g \in [Small(n + 1) -> Int]
    <3>1. \A s \in Small(n + 1) : s # {} => f[s \ {pick(s)}] \in Int
      BY <2>1, <2>2
    <3>2. \A s \in Small(n + 1) : (IF s = {} THEN 0 ELSE v[pick(s)] + f[s \ {pick(s)}]) \in Int
      BY <2>4, <3>1
    <3> QED
      BY <3>2
  <2>7. g = [s \in Small(n + 1) |-> IF s = {} THEN 0 ELSE v[pick(s)] + g[s \ {pick(s)}]]
    <3>1. \A s \in Small(n + 1) : s # {} => g[s \ {pick(s)}] = f[s \ {pick(s)}]
      BY <2>2, <2>5
    <3> QED
      BY <3>1
  <2>8. Eq(g, Small(n + 1))
    BY <2>7
  <2>9. \E f1 \in [Small(n + 1) -> Int] : Eq(f1, Small(n + 1))
    <3> HIDE DEF g, Eq
    <3> QED
      BY <2>6, <2>8
  <2> HIDE DEF Eq
  <2> QED
    BY <2>9
<1>6. Nat \subseteq T
  <2> HIDE DEF T
  <2> QED
    BY <1>4, <1>5, SetInduction
<1>7. Small(Cardinality(S)) = SUBSET S
  BY FS_Subset, FS_CardinalityType
<1>8. PICK f \in [Small(Cardinality(S)) -> Int] : Eq(f, Small(Cardinality(S)))
  BY <1>6, FS_CardinalityType
<1>9. f \in [SUBSET S -> Int] /\ Eq(f, SUBSET S)
  BY <1>7, <1>8
<1> QED
  BY <1>9 DEF IsSum, pick

(* Two such functions give the subsets of both domains the same sum.          *)
LEMMA SumAgrees ==
  ASSUME NEW v, NEW S, NEW U \in SUBSET S, NEW f, NEW g,
         IsFiniteSet(S), IsSum(f, v, S), IsSum(g, v, U)
  PROVE  f[U] = g[U]
<1> DEFINE pick(s) == CHOOSE x \in s : TRUE
           T == {n \in Nat : \A s \in SUBSET U : Cardinality(s) = n => f[s] = g[s]}
<1>1. \A s \in SUBSET S : s # {} => pick(s) \in s
  OBVIOUS
<1>2. \A s \in SUBSET U : IsFiniteSet(s) /\ Cardinality(s) \in Nat
  BY FS_Subset, FS_CardinalityType
<1>3. /\ f = [s \in SUBSET S |-> IF s = {} THEN 0 ELSE v[pick(s)] + f[s \ {pick(s)}]]
      /\ g = [s \in SUBSET U |-> IF s = {} THEN 0 ELSE v[pick(s)] + g[s \ {pick(s)}]]
  BY DEF IsSum
<1> HIDE DEF pick
<1>3a. \A s \in SUBSET U : /\ f[s] = IF s = {} THEN 0 ELSE v[pick(s)] + f[s \ {pick(s)}]
                           /\ g[s] = IF s = {} THEN 0 ELSE v[pick(s)] + g[s \ {pick(s)}]
  BY <1>3
<1>4. \A s \in SUBSET U : s # {} => Cardinality(s \ {pick(s)}) = Cardinality(s) - 1
  BY <1>1, <1>2, FS_RemoveElement
<1>5. 0 \in T
  BY <1>2, <1>3a, FS_EmptySet
<1>6. ASSUME NEW n \in Nat, n \in T
      PROVE  n + 1 \in T
  <2> SUFFICES ASSUME NEW s \in SUBSET U, Cardinality(s) = n + 1
               PROVE  f[s] = g[s]
    OBVIOUS
  <2>1. s # {}
    BY FS_EmptySet
  <2>2. s \ {pick(s)} \in SUBSET U /\ Cardinality(s \ {pick(s)}) = n
    BY <1>4, <2>1
  <2>3. f[s \ {pick(s)}] = g[s \ {pick(s)}]
    BY <1>6, <2>2
  <2> QED
    BY <1>3a, <2>1, <2>3
<1>7. Nat \subseteq T
  <2> HIDE DEF T
  <2> QED
    BY <1>5, <1>6, SetInduction
<1>8. Cardinality(U) \in Nat
  BY <1>2
<1> QED
  BY <1>7, <1>8

LEMMA SumOfSubset ==
  ASSUME NEW v, NEW S, IsFiniteSet(S), \A x \in S : v[x] \in Int,
         NEW f, IsSum(f, v, S), NEW U \in SUBSET S
  PROVE  SumFunctionOnSet(v, U) = f[U]
<1>1. IsFiniteSet(U) /\ \A x \in U : v[x] \in Int
  BY FS_Subset
<1>2. \E g : IsSum(g, v, U)
  BY <1>1, SumDefined
<1>3. IsSum(CHOOSE g : IsSum(g, v, U), v, U)
  BY <1>2
<1>4. f[U] = (CHOOSE g : IsSum(g, v, U))[U]
  BY <1>3, SumAgrees
<1> QED
  BY <1>4, SumUnfolded

LEMMA SumEmpty ==
  ASSUME NEW v
  PROVE  SumFunctionOnSet(v, {}) = 0
<1>1. PICK f \in [SUBSET {} -> Int] : IsSum(f, v, {})
  BY SumDefined, FS_EmptySet
<1>2. SumFunctionOnSet(v, {}) = f[{}]
  BY <1>1, SumOfSubset, FS_EmptySet
<1>3. f[{}] = 0
  BY <1>1 DEF IsSum
<1> QED
  BY <1>2, <1>3

LEMMA SumRemove ==
  ASSUME NEW v, NEW S, IsFiniteSet(S), \A x \in S : v[x] \in Int, NEW e \in S
  PROVE  SumFunctionOnSet(v, S) = v[e] + SumFunctionOnSet(v, S \ {e})
<1>1. PICK f \in [SUBSET S -> Int] : IsSum(f, v, S)
  BY SumDefined
<1> DEFINE pick(s) == CHOOSE x \in s : TRUE
           T == {n \in Nat : \A s \in SUBSET S : \A x \in s :
                   Cardinality(s) = n => f[s] = v[x] + f[s \ {x}]}
<1>2. \A s \in SUBSET S : s # {} => pick(s) \in s
  OBVIOUS
<1>3. \A s \in SUBSET S : s # {} => f[s] = v[pick(s)] + f[s \ {pick(s)}]
  BY <1>1 DEF IsSum
<1> HIDE DEF pick
<1>4. \A s \in SUBSET S : IsFiniteSet(s) /\ Cardinality(s) \in Nat
  BY FS_Subset, FS_CardinalityType
<1>5. 0 \in T
  BY <1>4, FS_EmptySet
<1>6. ASSUME NEW n \in Nat, n \in T
      PROVE  n + 1 \in T
  <2> SUFFICES ASSUME NEW s \in SUBSET S, NEW x \in s, Cardinality(s) = n + 1, pick(s) # x
               PROVE  f[s] = v[x] + f[s \ {x}]
    BY <1>3
  <2> DEFINE y == pick(s)
             rest == s \ {x, y}
  <2>1. y \in s /\ y # x
    BY <1>2
  <2>2. /\ s \ {x} \in SUBSET S /\ y \in s \ {x}
        /\ s \ {y} \in SUBSET S /\ x \in s \ {y}
        /\ (s \ {x}) \ {y} = rest /\ (s \ {y}) \ {x} = rest
        /\ rest \in SUBSET S
    BY <2>1
  <2>3. f[s] = v[y] + f[s \ {y}]
    BY <1>3
  <2> HIDE DEF rest, y
  <2>4. Cardinality(s \ {x}) = n /\ Cardinality(s \ {y}) = n
    <3>1. Cardinality(s \ {x}) = Cardinality(s) - 1 /\ Cardinality(s \ {y}) = Cardinality(s) - 1
      BY <1>4, <2>1, FS_RemoveElement
    <3> QED
      BY <3>1
  <2>5. f[s \ {x}] = v[y] + f[rest] /\ f[s \ {y}] = v[x] + f[rest]
    <3>1. \A z \in SUBSET S : \A q \in z : Cardinality(z) = n => f[z] = v[q] + f[z \ {q}]
      BY <1>6
    <3>2. f[s \ {x}] = v[y] + f[(s \ {x}) \ {y}] /\ f[s \ {y}] = v[x] + f[(s \ {y}) \ {x}]
      BY <2>2, <2>4, <3>1
    <3> QED
      BY <2>2, <3>2
  <2>6. v[x] \in Int /\ v[y] \in Int /\ f[rest] \in Int
    BY <1>1, <2>1, <2>2
  <2> QED
    BY <2>3, <2>5, <2>6
<1>7. Nat \subseteq T
  <2> HIDE DEF T
  <2> QED
    BY <1>5, <1>6, SetInduction
<1>8. f[S] = v[e] + f[S \ {e}]
  BY <1>4, <1>7
<1>9. SumFunctionOnSet(v, S) = f[S] /\ SumFunctionOnSet(v, S \ {e}) = f[S \ {e}]
  BY <1>1, SumOfSubset
<1> QED
  BY <1>8, <1>9

LEMMA SumAdd ==
  ASSUME NEW v, NEW S, IsFiniteSet(S), NEW e, e \notin S,
         \A x \in S \cup {e} : v[x] \in Int
  PROVE  SumFunctionOnSet(v, S \cup {e}) = v[e] + SumFunctionOnSet(v, S)
<1>1. IsFiniteSet(S \cup {e}) /\ e \in S \cup {e}
  BY FS_AddElement
<1>2. (S \cup {e}) \ {e} = S
  OBVIOUS
<1>3. SumFunctionOnSet(v, S \cup {e}) = v[e] + SumFunctionOnSet(v, (S \cup {e}) \ {e})
  BY <1>1, SumRemove
<1> QED
  BY <1>2, <1>3

(* A sum of numbers is at least what they have in common times their number.  *)
LEMMA SumAtLeast ==
  ASSUME NEW v, NEW S, IsFiniteSet(S), NEW k \in Nat,
         \A x \in S : v[x] \in Nat /\ v[x] >= k
  PROVE  SumFunctionOnSet(v, S) \in Nat /\ SumFunctionOnSet(v, S) >= k * Cardinality(S)
<1> DEFINE F == {T \in SUBSET S : /\ SumFunctionOnSet(v, T) \in Nat
                                  /\ SumFunctionOnSet(v, T) >= k * Cardinality(T)}
<1>1. {} \in F
  BY SumEmpty, FS_EmptySet
<1>2. ASSUME NEW T \in SUBSET S, NEW x \in S \ T, T \in F
      PROVE  T \cup {x} \in F
  <2>1. IsFiniteSet(T) /\ Cardinality(T) \in Nat
    BY FS_Subset, FS_CardinalityType
  <2>2. SumFunctionOnSet(v, T \cup {x}) = v[x] + SumFunctionOnSet(v, T)
    BY <2>1, SumAdd
  <2>3. Cardinality(T \cup {x}) = Cardinality(T) + 1
    BY <2>1, FS_AddElement
  <2> DEFINE n == Cardinality(T)
             t == SumFunctionOnSet(v, T)
  <2>4. n \in Nat /\ t \in Nat /\ t >= k * n /\ v[x] \in Nat /\ v[x] >= k
    BY <1>2, <2>1
  <2> HIDE DEF n, t
  <2>5. v[x] + t \in Nat /\ v[x] + t >= k * (n + 1)
    <3>1. k * (n + 1) = k * n + k /\ k * n \in Nat
      BY <2>4
    <3> QED
      BY <2>4, <3>1
  <2> QED
    BY <2>2, <2>3, <2>5 DEF n, t
<1>3. S \in F
  <2> HIDE DEF F
  <2> QED
    BY <1>1, <1>2, FiniteInduction
<1> QED
  BY <1>3

-----------------------------------------------------------------------------
\* The queries of labels.rs against those of address.rs, on one database: what
\* each counts is finite, and transfers either way are at most those of the
\* two directions together.
LEMMA CountsCompare ==
  ASSUME NEW c \in Chains, NEW a \in Addresses
  PROVE  /\ Cardinality(Called(c, a)) \in Nat
         /\ Cardinality(Sent(c, a)) \in Nat
         /\ Cardinality(TokensSent(c, a)) \in Nat
         /\ Cardinality(TokensReceived(c, a)) \in Nat
         /\ Cardinality(Moved(c, a)) \in Nat
         /\ Cardinality(Involving(c, a)) \in Nat
         /\ Cardinality(Sent(c, a)) <= Cardinality(Involving(c, a))
         /\ Cardinality(Moved(c, a)) <= Cardinality(TokensSent(c, a))
                                          + Cardinality(TokensReceived(c, a))
<1> DEFINE away == TokensSent(c, a)
           home == TokensReceived(c, a)
<1>1. IsFiniteSet(Called(c, a))
  <2>1. Called(c, a) \in SUBSET Addresses
    BY FiniteDatabases DEF Called, Sent
  <2> QED
    BY <2>1, FiniteDatabases, FS_Subset
<1>2. IsFiniteSet(Involving(c, a))
  <2>1. Involving(c, a) \in SUBSET Rows(c)
    BY DEF Involving
  <2> QED
    BY <2>1, FiniteDatabases, FS_Subset
<1>3. /\ IsFiniteSet(Sent(c, a))
      /\ Cardinality(Sent(c, a)) <= Cardinality(Involving(c, a))
  <2>1. Sent(c, a) \in SUBSET Involving(c, a)
    BY DEF Sent, Involving
  <2> QED
    BY <2>1, <1>2, FS_Subset
<1>4. IsFiniteSet(away) /\ IsFiniteSet(home)
  <2>1. away \in SUBSET TransferRows(c) /\ home \in SUBSET TransferRows(c)
    BY DEF TokensSent, TokensReceived
  <2> HIDE DEF away, home
  <2> QED
    BY <2>1, FiniteDatabases, FS_Subset
<1>5. Moved(c, a) = away \cup home
  BY DEF Moved, TokensSent, TokensReceived
<1> HIDE DEF away, home
<1>6. /\ IsFiniteSet(Moved(c, a))
      /\ Cardinality(Moved(c, a)) = Cardinality(away) + Cardinality(home)
                                      - Cardinality(away \cap home)
  BY <1>4, <1>5, FS_Union
<1>7. IsFiniteSet(away \cap home)
  <2>1. away \cap home \in SUBSET away
    OBVIOUS
  <2> QED
    BY <2>1, <1>4, FS_Subset
<1>8. /\ Cardinality(away) \in Nat /\ Cardinality(home) \in Nat
      /\ Cardinality(away \cap home) \in Nat
  BY <1>4, <1>7, FS_CardinalityType
<1>9. Cardinality(Moved(c, a)) <= Cardinality(away) + Cardinality(home)
  BY <1>6, <1>8
<1> QED
  BY <1>1, <1>2, <1>3, <1>6, <1>8, <1>9, FS_CardinalityType DEF away, home

\* On every database the labels stay within the analysis.
LEMMA LabelsWithinAnalysis ==
  ASSUME chain \in Chains
  PROVE  LabelsAgree
<1> SUFFICES ASSUME NEW a \in Addresses
             PROVE  LET labels == AddressLabels(chain, a)
                        classes == Classifications(chain, a)
                    IN /\ "Token Trader" \in labels => "token_trader" \in classes
                       /\ "NFT Collector" \in labels => "nft_participant" \in classes
                       /\ "DeFi User" \in labels => "contract_interactor" \in classes
                       /\ ActivityLevel(chain, a) = "very_high" => "High Activity" \in labels
  BY DEF LabelsAgree
<1>1. /\ Limits.tokens \in Nat /\ Limits.labelTokens \in Nat /\ Limits.contracts \in Nat
      /\ Limits.labelContracts \in Nat /\ Limits.labelNfts \in Nat /\ Limits.veryHigh \in Nat
  BY LabelLimits, LimitsAreNumbers
<1>2. /\ "token_trader" \in Classifications(chain, a)
           <=> \/ Cardinality(TokensSent(chain, a)) > Limits.tokens
               \/ Cardinality(TokensReceived(chain, a)) > Limits.tokens
      /\ "nft_participant" \in Classifications(chain, a) <=> NftsMoved(chain, a) # {}
      /\ "contract_interactor" \in Classifications(chain, a)
           <=> Cardinality(Called(chain, a)) > Limits.contracts
  BY DEF Classifications
<1>3. /\ "Token Trader" \in AddressLabels(chain, a)
           <=> Cardinality(Moved(chain, a)) > Limits.labelTokens
      /\ "NFT Collector" \in AddressLabels(chain, a)
           <=> Cardinality(NftsMoved(chain, a)) > Limits.labelNfts
      /\ "DeFi User" \in AddressLabels(chain, a)
           <=> Cardinality(Called(chain, a)) > Limits.labelContracts
      /\ "High Activity" \in AddressLabels(chain, a)
           <=> Cardinality(Involving(chain, a)) > Limits.veryHigh
  BY DEF AddressLabels, TradesMany
<1>4. "Token Trader" \in AddressLabels(chain, a) => "token_trader" \in Classifications(chain, a)
  <2> DEFINE n == Cardinality(Moved(chain, a))
             sent == Cardinality(TokensSent(chain, a))
             received == Cardinality(TokensReceived(chain, a))
  <2>1. n \in Nat /\ sent \in Nat /\ received \in Nat /\ n <= sent + received
    BY CountsCompare
  <2> HIDE DEF n, sent, received
  <2>2. n > Limits.labelTokens => sent > Limits.tokens \/ received > Limits.tokens
    BY <1>1, <2>1, LabelLimits
  <2> QED
    BY <1>2, <1>3, <2>2 DEF n, sent, received
<1>5. "NFT Collector" \in AddressLabels(chain, a) => "nft_participant" \in Classifications(chain, a)
  <2>1. CASE NftsMoved(chain, a) # {}
    BY <1>2, <2>1
  <2>2. CASE NftsMoved(chain, a) = {}
    <3>1. Cardinality(NftsMoved(chain, a)) = 0
      BY <2>2, FS_EmptySet
    <3>2. ~(0 > Limits.labelNfts)
      BY <1>1
    <3>3. "NFT Collector" \notin AddressLabels(chain, a)
      BY <1>3, <3>1, <3>2
    <3> QED
      BY <3>3
  <2> QED
    BY <2>1, <2>2
<1>6. "DeFi User" \in AddressLabels(chain, a) => "contract_interactor" \in Classifications(chain, a)
  <2> DEFINE n == Cardinality(Called(chain, a))
  <2>1. n \in Nat
    BY CountsCompare
  <2> HIDE DEF n
  <2>2. n > Limits.labelContracts => n > Limits.contracts
    BY <1>1, <2>1, LabelLimits
  <2> QED
    BY <1>2, <1>3, <2>2 DEF n
<1>7. ActivityLevel(chain, a) = "very_high" => "High Activity" \in AddressLabels(chain, a)
  <2> DEFINE n == Cardinality(Sent(chain, a))
             either == Cardinality(Involving(chain, a))
  <2>1. n \in Nat /\ either \in Nat /\ n <= either
    BY CountsCompare
  <2>2. ActivityLevel(chain, a) = "very_high" => n > Limits.veryHigh
    BY DEF ActivityLevel
  <2> HIDE DEF n, either
  <2>3. n > Limits.veryHigh => either > Limits.veryHigh
    BY <1>1, <2>1
  <2> QED
    BY <1>3, <2>2, <2>3 DEF n, either
<1> QED
  BY <1>4, <1>5, <1>6, <1>7

\* The searches never change the database.
LEMMA DatabaseKept == Spec => [](chain \in Chains)
<1>1. Init => chain \in Chains
  BY DEF Init
<1>2. chain \in Chains /\ [Next]_vars => (chain \in Chains)'
  BY DEF Next, vars, ExpandGraph, ExpandCluster, Finish
<1> QED
  BY <1>1, <1>2, PTL DEF Spec

\* LabelsAgree: on every database and for every limits of that proportion, a
\* label (labels.rs, get_address_labels) never goes beyond what the rules of
\* analyze_address (address.rs) say of the same address.
THEOREM LabelsStayInAgreement == Spec => []LabelsAgree
<1>1. chain \in Chains => LabelsAgree
  BY LabelsWithinAnalysis
<1> QED
  BY <1>1, DatabaseKept, PTL
=============================================================================
