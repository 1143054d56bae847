-------------------------- MODULE Recommend_proofs --------------------------
(***************************************************************************)
(* The recommend API and the page in front of it, for any number of calls, *)
(* any queries, libraries and versions of names.json, and any k: what the  *)
(* cached name index is, what a page leaves out and how far it fills, and  *)
(* that the page does with the service what the service allows.            *)
(***************************************************************************)
EXTENDS WebPage, FiniteSetTheorems, FunctionTheorems, WellFoundedInduction, TLAPS

-----------------------------------------------------------------------------
(* Positions: the n-th of a finite set of naturals                         *)

(* A set of naturals that has an element has a least one.                  *)
LEMMA LeastNatural ==
  ASSUME NEW S, S \subseteq Nat, S # {}
  PROVE  \E m \in S : \A n \in S : m <= n
<1>1. PICK m \in S : \A n \in S : <<n, m>> \notin OpToRel(<, Nat)
  BY WFMin, NatLessThanWellFounded, Zenon
<1>2. \A n \in S : ~(n < m)
  BY <1>1, Zenon DEF OpToRel
<1> QED BY <1>2

(* A bounded one has a greatest one.                                       *)
LEMMA GreatestNatural ==
  ASSUME NEW S, S \subseteq Nat, S # {}, NEW bound \in Nat, \A n \in S : n <= bound
  PROVE  \E m \in S : \A n \in S : n <= m
<1> DEFINE gaps == {g \in Nat : \E n \in S : g = bound - n}
<1>1. gaps # {}
  <2>1. PICK n \in S : n <= bound OBVIOUS
  <2>2. bound - n \in gaps BY <2>1
  <2> QED BY <2>2
<1>2. PICK g \in gaps : \A h \in gaps : g <= h
  <2> HIDE DEF gaps
  <2>1. gaps \subseteq Nat BY DEF gaps
  <2> QED BY <1>1, <2>1, LeastNatural
<1>3. PICK m \in S : g = bound - m OBVIOUS
<1>4. ASSUME NEW n \in S PROVE n <= m
  <2>1. bound - n \in gaps OBVIOUS
  <2>2. bound - m <= bound - n BY <1>2, <1>3, <2>1
  <2> QED BY <2>2
<1> QED BY <1>4

LEMMA SizeOfInterval == ASSUME NEW n \in Nat PROVE IsFiniteSet(1..n) /\ Cardinality(1..n) = n
<1>1. IsFiniteSet(1..n) /\ Cardinality(1..n) = IF 1 > n THEN 0 ELSE n - 1 + 1
  BY FS_Interval
<1> QED BY <1>1

Below(kept, i) == {j \in kept : j < i}

(* One after the other, the positions are counted off.                     *)
LEMMA NthOfPositions ==
  ASSUME NEW len \in Nat, NEW kept \in SUBSET (1..len), NEW n \in 1..Cardinality(kept)
  PROVE  Nth(kept, n) \in kept
<1>0. kept \subseteq Nat /\ \A i \in kept : i <= len OBVIOUS
<1>1. IsFiniteSet(kept) /\ Cardinality(kept) \in Nat
  <2>1. IsFiniteSet(1..len) BY FS_Interval
  <2>2. IsFiniteSet(kept) BY <2>1, FS_Subset
  <2> QED BY <2>2, FS_CardinalityType
<1>2. \A i \in kept : /\ IsFiniteSet(Below(kept, i)) /\ Cardinality(Below(kept, i)) \in Nat
  BY <1>1, FS_Subset, FS_CardinalityType DEF Below
<1>3. \A i, k \in kept : i < k /\ (\A j \in kept : j < k => j <= i) =>
        Cardinality(Below(kept, k)) = Cardinality(Below(kept, i)) + 1
  <2> TAKE i, k \in kept
  <2> HAVE i < k /\ \A j \in kept : j < k => j <= i
  <2>a. i \in Nat /\ k \in Nat BY <1>0
  <2>b. \A j \in kept : j < k <=> j < i \/ j = i BY <1>0, <2>a
  <2>1. Below(kept, k) = Below(kept, i) \cup {i} BY <2>b DEF Below
  <2>2. i \notin Below(kept, i) BY <1>0 DEF Below
  <2> QED BY <1>2, <2>1, <2>2, FS_AddElement
<1> DEFINE late == {i \in kept : Cardinality(Below(kept, i)) >= n - 1}
<1>4. late # {}
  <2>1. kept # {} BY <1>1, FS_EmptySet
  <2>2. PICK last \in kept : \A j \in kept : j <= last
    BY <1>0, <2>1, GreatestNatural
  <2>a. \A j \in kept : j < last <=> j # last BY <1>0, <2>2
  <2>3. Below(kept, last) = kept \ {last} BY <2>a DEF Below
  <2>4. Cardinality(Below(kept, last)) = Cardinality(kept) - 1
    BY <1>1, <2>3, FS_RemoveElement
  <2> QED BY <1>1, <2>4
<1>5. PICK i \in late : \A j \in late : i <= j
  <2> HIDE DEF late
  <2>1. late \subseteq Nat BY <1>0 DEF late
  <2> QED BY <1>4, <2>1, LeastNatural
<1>6. Cardinality(Below(kept, i)) = n - 1
  <2> SUFFICES ASSUME Cardinality(Below(kept, i)) # n - 1 PROVE FALSE OBVIOUS
  <2>1. Cardinality(Below(kept, i)) >= n BY <1>2
  <2>2. Below(kept, i) # {} BY <2>1, FS_EmptySet
  <2>3. PICK j \in Below(kept, i) : \A h \in Below(kept, i) : h <= j
    <3>1. Below(kept, i) \subseteq Nat /\ \A h \in Below(kept, i) : h <= len BY <1>0 DEF Below
    <3> QED BY <2>2, <3>1, GreatestNatural
  <2>4. j \in kept /\ j < i BY DEF Below
  <2>5. Cardinality(Below(kept, i)) = Cardinality(Below(kept, j)) + 1
    BY <1>0, <1>3, <2>3, <2>4 DEF Below
  <2>6. j \in late BY <1>2, <2>1, <2>4, <2>5
  <2> QED BY <1>0, <1>5, <2>4, <2>6
<1> QED BY <1>6 DEF Nth, Below

-----------------------------------------------------------------------------
(* The page of an answer                                                   *)

LEMMA KeptPositions ==
  ASSUME NEW all \in Seq(Game), NEW out
  PROVE  /\ Kept(all, out) \in SUBSET (1..Len(all)) /\ Len(all) \in Nat
         /\ IsFiniteSet(Kept(all, out)) /\ Cardinality(Kept(all, out)) \in Nat
<1>1. Kept(all, out) \in SUBSET (1..Len(all)) /\ Len(all) \in Nat BY DEF Kept
<1>2. IsFiniteSet(1..Len(all)) BY <1>1, FS_Interval
<1>3. IsFiniteSet(Kept(all, out)) BY <1>1, <1>2, FS_Subset
<1> QED BY <1>1, <1>3, FS_CardinalityType

AtMost(n) == IF n < TopK THEN n ELSE TopK

(* A page is made of hits that are not excluded, as many as it has room    *)
(* for.                                                                    *)
LEMMA PageOfHits ==
  ASSUME NEW all \in Seq(Game), NEW out
  PROVE  /\ Page(all, out) \in Seq(Game)
         /\ Len(Page(all, out)) = AtMost(Cardinality(Kept(all, out)))
         /\ \A n \in DOMAIN Page(all, out) :
              /\ Page(all, out)[n] \notin out
              /\ \E i \in DOMAIN all : Page(all, out)[n] = all[i]
<1> DEFINE kept == Kept(all, out)
           size == AtMost(Cardinality(kept))
<1>1. /\ kept \in SUBSET (1..Len(all)) /\ Len(all) \in Nat
      /\ Cardinality(kept) \in Nat
  BY KeptPositions
<1>2. size \in Nat /\ size <= Cardinality(kept) BY <1>1, RecommendAssumption DEF AtMost
<1>3. Page(all, out) = [n \in 1..size |-> all[Nth(kept, n)]] BY DEF Page, AtMost
<1>4. \A i \in kept : i \in DOMAIN all /\ all[i] \in Game /\ all[i] \notin out BY DEF Kept
<1> HIDE DEF kept, size
<1>5. ASSUME NEW n \in 1..size PROVE Nth(kept, n) \in kept
  <2>1. n \in 1..Cardinality(kept) BY <1>1, <1>2
  <2> QED BY <1>1, <2>1, NthOfPositions
<1>6. Page(all, out) \in [1..size -> Game] BY <1>3, <1>4, <1>5
<1>7. Page(all, out) \in Seq(Game) /\ Len(Page(all, out)) = size BY <1>2, <1>6
<1>8. \A n \in DOMAIN Page(all, out) : Page(all, out)[n] = all[Nth(kept, n)] /\ Nth(kept, n) \in kept
  BY <1>3, <1>5
<1> QED BY <1>4, <1>7, <1>8 DEF size, kept

(* A ranking lists games of the corpus once, so it lists them all when it  *)
(* is as long as the corpus.                                               *)
LEMMA RankingsList ==
  ASSUME corpus \subseteq Game, NEW most \in Nat, NEW best \in Rankings(most)
  PROVE  /\ best \in Seq(Game)
         /\ Len(best) = IF Cardinality(corpus) < most THEN Cardinality(corpus) ELSE most
         /\ best \in Injection(1..Len(best), corpus)
<1>1. IsFiniteSet(corpus) /\ Cardinality(corpus) \in Nat
  BY RecommendAssumption, FS_Subset, FS_CardinalityType
<1> DEFINE size == IF Cardinality(corpus) < most THEN Cardinality(corpus) ELSE most
<1>2. size \in Nat BY <1>1
<1>3. /\ best \in [1..size -> corpus]
      /\ \A i, j \in 1..size : best[i] = best[j] => i = j
  BY DEF Rankings
<1> HIDE DEF size
<1>4. best \in Seq(Game) /\ Len(best) = size BY <1>2, <1>3
<1>5. best \in Injection(1..size, corpus) BY <1>3 DEF Injection, IsInjective
<1> QED BY <1>4, <1>5 DEF size

(* One extra candidate per excluded id is enough for the page to fill.     *)
LEMMA PageIsFull ==
  ASSUME corpus \subseteq Game, NEW out \in SUBSET Game,
         NEW most \in Nat, most = TopK + Cardinality(out), NEW best \in Rankings(most)
  PROVE  Len(Page(best, out)) = AtMost(Cardinality(corpus \ out))
<1> DEFINE kept == Kept(best, out)
           dropped == (1..Len(best)) \ kept
           left == corpus \ out
<1>1. /\ IsFiniteSet(corpus) /\ Cardinality(corpus) \in Nat
      /\ IsFiniteSet(left) /\ Cardinality(left) \in Nat
      /\ IsFiniteSet(out) /\ Cardinality(out) \in Nat
  BY RecommendAssumption, FS_Subset, FS_CardinalityType
<1>2. /\ best \in Seq(Game) /\ best \in Injection(1..Len(best), corpus)
      /\ Len(best) = IF Cardinality(corpus) < most THEN Cardinality(corpus) ELSE most
  BY RankingsList
<1>3. kept \in SUBSET (1..Len(best)) /\ Len(best) \in Nat /\ Cardinality(kept) \in Nat
  BY <1>2, KeptPositions
<1>4. /\ best \in [1..Len(best) -> corpus]
      /\ \A i, j \in 1..Len(best) : best[i] = best[j] => i = j
  BY <1>2 DEF Injection, IsInjective
<1>5. Cardinality(kept) <= Cardinality(left)
  <2> DEFINE f == [i \in kept |-> best[i]]
  <2>1. f \in Injection(kept, left) BY <1>3, <1>4 DEF Injection, IsInjective, Kept
  <2> QED BY <1>1, <2>1, FS_Injection
<1>6. IsFiniteSet(dropped) /\ Cardinality(dropped) \in Nat /\ Cardinality(dropped) <= Cardinality(out)
  <2> DEFINE f == [i \in dropped |-> best[i]]
  <2>1. \A i \in dropped : best[i] \in out BY <1>2 DEF Kept
  <2>2. f \in Injection(dropped, out) BY <1>4, <2>1 DEF Injection, IsInjective
  <2> QED BY <1>1, <2>2, FS_Injection, FS_CardinalityType
<1>7. Cardinality(kept) = Len(best) - Cardinality(dropped)
  <2>1. IsFiniteSet(1..Len(best)) /\ Cardinality(1..Len(best)) = Len(best)
    BY <1>3, SizeOfInterval
  <2>2. kept = (1..Len(best)) \ dropped /\ (1..Len(best)) \cap dropped = dropped BY <1>3
  <2> HIDE DEF kept, dropped
  <2>3. Cardinality((1..Len(best)) \ dropped)
          = Cardinality(1..Len(best)) - Cardinality((1..Len(best)) \cap dropped)
    BY <2>1, FS_Difference
  <2> QED BY <2>1, <2>2, <2>3
<1>8. CASE Cardinality(corpus) < most
  <2>1. Cardinality(1..Len(best)) = Cardinality(corpus) BY <1>2, <1>3, <1>8, SizeOfInterval
  <2>2. best \in Surjection(1..Len(best), corpus) BY <1>1, <1>2, <2>1, FS_Injection
  <2>3. \A g \in corpus : \E i \in 1..Len(best) : best[i] = g BY <2>2 DEF Surjection
  <2> DEFINE f == [i \in kept |-> best[i]]
  <2>4. f \in Injection(kept, left) BY <1>3, <1>4 DEF Injection, IsInjective, Kept
  <2>5. \A g \in left : \E i \in kept : f[i] = g
    <3> TAKE g \in left
    <3>1. PICK i \in 1..Len(best) : best[i] = g BY <2>3
    <3>2. i \in kept BY <1>2, <3>1 DEF Kept
    <3> QED BY <3>1, <3>2
  <2>6. f \in Surjection(kept, left) BY <2>4, <2>5 DEF Injection, Surjection
  <2>7. Cardinality(kept) = Cardinality(left) BY <1>1, <2>4, <2>6, FS_Injection
  <2> QED BY <1>2, <2>7, PageOfHits
<1>9. CASE ~(Cardinality(corpus) < most)
  <2>1. Cardinality(kept) >= TopK BY RecommendAssumption, <1>1, <1>2, <1>6, <1>7, <1>9
  <2>2. Cardinality(left) >= TopK BY RecommendAssumption, <1>1, <1>3, <1>5, <2>1
  <2>3. Len(Page(best, out)) = AtMost(Cardinality(kept)) BY <1>2, PageOfHits
  <2> QED BY RecommendAssumption, <1>1, <1>3, <2>1, <2>2, <2>3 DEF AtMost
<1> QED BY <1>8, <1>9

-----------------------------------------------------------------------------
(* The types of the service's variables                                    *)

LEMMA InitTyped == ServiceInit => ServiceTypeOK
<1> SUFFICES ASSUME ServiceInit PROVE ServiceTypeOK OBVIOUS
<1> USE DEF ServiceInit
<1>1. 0 \in Versions BY RecommendAssumption DEF Versions
<1>2. /\ mtime \in Nat /\ changes \in 0..MaxChanges /\ namesMtime \in 0..mtime
      /\ seen \in [Call -> 0..mtime]
  BY RecommendAssumption
<1>3. <<>> \in Seq(Game) OBVIOUS
<1>4. answer \in [Call -> [code : {0, 200, 404, 500, 503}, results : Seq(Game)]]
  BY <1>3 DEF NoAnswer
<1>5. hits \in [Call -> Seq(Game)] BY <1>3
<1>6. /\ pc \in [Call -> Reloading \cup {"idle", "stat", "seed", "library", "search", "negated",
                                        "answered"}]
      /\ query \in [Call -> Queries \cup {Mood}]
      /\ filtered \in [Call -> {"none", "yes", "no"}]
  OBVIOUS
<1>7. /\ exclude \in [Call -> SUBSET Game] /\ library \in [Call -> SUBSET Game]
      /\ loaded \in [Call -> Versions]
  BY <1>1
<1>8. /\ version \in Versions /\ names \in Versions
      /\ torn \in BOOLEAN /\ overlapped \in BOOLEAN /\ corpus \subseteq Game
  BY <1>1
<1>9. since \in 0..version
  <2>1. since = 0 /\ version = 0 OBVIOUS
  <2> HIDE DEF ServiceInit
  <2> QED BY <2>1
<1> HIDE DEF ServiceInit
<1> QED BY <1>2, <1>4, <1>5, <1>6, <1>7, <1>8, <1>9 DEF ServiceTypeOK

(* What a call answers is a page, and what it leaves behind is nothing.    *)
LEMMA RespondTyped ==
  ASSUME ServiceTypeOK, NEW c \in Call, NEW code \in {200, 404, 500, 503},
         NEW results \in Seq(Game), Respond(c, code, results),
         UNCHANGED <<version, since, torn, mtime, corpus, changes, names, namesMtime, overlapped>>
  PROVE  ServiceTypeOK'
<1> USE DEF ServiceTypeOK, Respond
<1>1. pc' \in [Call -> Reloading \cup {"idle", "stat", "seed", "library", "search", "negated",
                                       "answered"}]
  OBVIOUS
<1>2. query' \in [Call -> Queries \cup {Mood}] OBVIOUS
<1>3. answer' \in [Call -> [code : {0, 200, 404, 500, 503}, results : Seq(Game)]] OBVIOUS
<1>4. 0 \in Versions BY RecommendAssumption DEF Versions
<1>5. seen' \in [Call -> 0..mtime] /\ loaded' \in [Call -> Versions] BY <1>4
<1>6. <<>> \in Seq(Game) OBVIOUS
<1>7. hits' \in [Call -> Seq(Game)] BY <1>6
<1> QED BY <1>1, <1>2, <1>3, <1>5, <1>7

(* An answer that is no page has no results.                               *)
LEMMA RefusalTyped ==
  ASSUME ServiceTypeOK, NEW c \in Call, NEW code \in {404, 500, 503},
         Respond(c, code, <<>>), UNCHANGED <<file, mindb, cache>>
  PROVE  ServiceTypeOK'
<1> DEFINE nothing == <<>>
<1>1. nothing \in Seq(Game) OBVIOUS
<1>2. Respond(c, code, nothing) OBVIOUS
<1>3. UNCHANGED <<version, since, torn, mtime, corpus, changes, names, namesMtime, overlapped>>
  BY DEF file, mindb, cache
<1> HIDE DEF nothing
<1> QED BY <1>1, <1>2, <1>3, RespondTyped

LEMMA WantedIsNat ==
  ASSUME ServiceTypeOK, NEW c \in Call
  PROVE  Wanted(c) \in Nat /\ IsFiniteSet(exclude[c]) /\ Cardinality(exclude[c]) \in Nat
<1>1. exclude[c] \in SUBSET Game BY DEF ServiceTypeOK
<1>2. IsFiniteSet(exclude[c]) BY <1>1, RecommendAssumption, FS_Subset
<1>3. Cardinality(exclude[c]) \in Nat BY <1>2, FS_CardinalityType
<1> QED BY <1>2, <1>3, RecommendAssumption DEF Wanted

LEMMA AfterNamesIsNext ==
  ASSUME NEW c PROVE AfterNames(c) \in {"seed", "library", "search"}
BY DEF AfterNames

LEMMA StepTyped == ASSUME ServiceTypeOK, [ServiceNext]_service PROVE ServiceTypeOK'
<1>0. <<>> \in Seq(Game) OBVIOUS
<1>1. CASE Truncate
  <2>0. /\ version \in Nat /\ since \in 0..version /\ version' = version + 1
        /\ since' \in {since, version'} /\ mtime' \in {mtime, mtime + 1} /\ mtime \in Nat
        /\ namesMtime' = namesMtime /\ seen' = seen
    BY <1>1 DEF ServiceTypeOK, Truncate, Stamped, Versions, cache, locals
  <2>1. /\ version' \in Versions /\ mtime' \in Nat /\ namesMtime' \in 0..mtime'
        /\ seen' \in [Call -> 0..mtime'] /\ since' \in 0..version'
    BY <1>1, <2>0 DEF ServiceTypeOK, Truncate
  <2> QED BY <1>1, <2>1 DEF ServiceTypeOK, Truncate, mindb, cache, locals
<1>2. CASE Write
  <2>0. /\ version \in Nat /\ since \in 0..version /\ version' = version
        /\ since' \in {since, version} /\ mtime' \in {mtime, mtime + 1} /\ mtime \in Nat
        /\ namesMtime' = namesMtime /\ seen' = seen
    BY <1>2 DEF ServiceTypeOK, Write, Stamped, Versions, cache, locals
  <2>1. /\ mtime' \in Nat /\ namesMtime' \in 0..mtime' /\ seen' \in [Call -> 0..mtime']
        /\ since' \in 0..version'
    BY <1>2, <2>0 DEF ServiceTypeOK
  <2> QED BY <1>2, <2>1 DEF ServiceTypeOK, Write, mindb, cache, locals
<1>3. CASE CorpusChanges
  <2>1. corpus' \subseteq Game /\ changes' \in 0..MaxChanges
    BY <1>3, RecommendAssumption DEF ServiceTypeOK, CorpusChanges
  <2> QED BY <1>3, <2>1 DEF ServiceTypeOK, CorpusChanges, file, cache, locals
<1>4. ASSUME NEW c \in Call, NEW asked \in Queries, Receive(c, asked) PROVE ServiceTypeOK'
  BY <1>4 DEF ServiceTypeOK, Receive, Goto, file, mindb, cache, locals
<1>5. ASSUME NEW c \in Call, Deliver(c) PROVE ServiceTypeOK'
  <2>1. answer' \in [Call -> [code : {0, 200, 404, 500, 503}, results : Seq(Game)]]
    BY <1>0, <1>5 DEF ServiceTypeOK, Deliver, NoAnswer
  <2> QED BY <1>5, <2>1 DEF ServiceTypeOK, Deliver, Goto, file, mindb, cache, found
<1>6. ASSUME NEW c \in Call, Stat(c) PROVE ServiceTypeOK'
  <2>1. UNCHANGED <<version, since, torn, mtime, corpus, changes, names, namesMtime, query, exclude,
                    filtered, hits, library, answer>>
    BY <1>6 DEF Stat, file, mindb, found
  <2>2. CASE mtime \in {0, namesMtime}
    <3>1. /\ pc' = [pc EXCEPT ![c] = AfterNames(c)] /\ loaded' = [loaded EXCEPT ![c] = names]
          /\ UNCHANGED <<seen, overlapped>>
      BY <1>6, <2>2 DEF Stat, Goto
    <3> QED BY <2>1, <3>1, AfterNamesIsNext DEF ServiceTypeOK
  <2>3. CASE mtime \notin {0, namesMtime}
    <3>1. /\ pc' = [pc EXCEPT ![c] = "load"] /\ seen' = [seen EXCEPT ![c] = mtime]
          /\ overlapped' \in BOOLEAN /\ loaded' = loaded
      BY <1>6, <2>3 DEF Stat, Goto
    <3> QED BY <2>1, <3>1 DEF ServiceTypeOK, Reloading
  <2> QED BY <2>2, <2>3
<1>7. ASSUME NEW c \in Call, Load(c) PROVE ServiceTypeOK'
  <2>1. CASE torn
    <3>1. Respond(c, 500, <<>>) /\ UNCHANGED <<file, mindb, cache>> BY <1>7, <2>1 DEF Load
    <3> QED BY <3>1, RefusalTyped
  <2>2. CASE ~torn
    <3>1. /\ Goto(c, "load", "keep") /\ loaded' = [loaded EXCEPT ![c] = version]
          /\ UNCHANGED <<query, seen, found, answer>> /\ UNCHANGED <<file, mindb, cache>>
      BY <1>7, <2>2 DEF ServiceTypeOK, Load
    <3> QED BY <3>1 DEF ServiceTypeOK, Goto, Reloading, file, mindb, cache, found
  <2> QED BY <2>1, <2>2 DEF ServiceTypeOK
<1>8. ASSUME NEW c \in Call, Keep(c) PROVE ServiceTypeOK'
  BY <1>8 DEF ServiceTypeOK, Keep, Goto, Reloading, file, mindb, locals
<1>9. ASSUME NEW c \in Call, Stamp(c) PROVE ServiceTypeOK'
  <2>1. UNCHANGED <<version, since, torn, mtime, corpus, changes, names, overlapped, query, exclude,
                    filtered, hits, library, answer>>
    BY <1>9 DEF Stamp, file, mindb, found
  <2>2. /\ pc' = [pc EXCEPT ![c] = AfterNames(c)] /\ namesMtime' = seen[c]
        /\ loaded' = [loaded EXCEPT ![c] = names] /\ seen' = [seen EXCEPT ![c] = 0]
    BY <1>9 DEF Stamp, Goto, MtimeToKeep
  <2> QED BY <2>1, <2>2, AfterNamesIsNext DEF ServiceTypeOK
<1>10. ASSUME NEW c \in Call, MinDBFails(c) PROVE ServiceTypeOK'
  <2>1. Respond(c, 503, <<>>) /\ UNCHANGED <<file, mindb, cache>> BY <1>10 DEF MinDBFails
  <2> QED BY <2>1, RefusalTyped
<1>11. ASSUME NEW c \in Call, ResolveSeed(c) PROVE ServiceTypeOK'
  <2>1. CASE query[c].seed \in Usable(loaded[c]) \cap corpus
    <3>1. /\ Goto(c, "seed", IF query[c].user THEN "library" ELSE "search")
          /\ exclude' = [exclude EXCEPT ![c] = {query[c].seed}]
          /\ UNCHANGED <<query, seen, loaded, filtered, hits, library, answer>>
          /\ UNCHANGED <<file, mindb, cache>>
      BY <1>11, <2>1 DEF ServiceTypeOK, ResolveSeed
    <3>2. {query[c].seed} \in SUBSET Game BY <2>1 DEF ServiceTypeOK
    <3> QED BY <3>1, <3>2 DEF ServiceTypeOK, Goto, file, mindb, cache
  <2>2. CASE query[c].seed \notin Usable(loaded[c]) \cap corpus
    <3>1. Respond(c, 404, <<>>) /\ UNCHANGED <<file, mindb, cache>>
      BY <1>11, <2>2 DEF ResolveSeed
    <3> QED BY <3>1, RefusalTyped
  <2> QED BY <2>1, <2>2 DEF ServiceTypeOK
<1>12. ASSUME NEW c \in Call, AskLibrary(c) PROVE ServiceTypeOK'
  <2>1. PICK owned \in Libraries, known \in BOOLEAN :
          /\ library' = [library EXCEPT ![c] = owned]
          /\ filtered' = [filtered EXCEPT ![c] = LibraryFiltered(known)]
          /\ exclude' = [exclude EXCEPT ![c] = IF known THEN @ \cup owned ELSE @]
    BY <1>12 DEF ServiceTypeOK, AskLibrary
  <2>2. owned \in SUBSET Game BY RecommendAssumption DEF ServiceTypeOK
  <2>3. library' \in [Call -> SUBSET Game] /\ exclude' \in [Call -> SUBSET Game] BY <2>1, <2>2 DEF ServiceTypeOK
  <2>4. filtered' \in [Call -> {"none", "yes", "no"}] BY <2>1 DEF ServiceTypeOK, LibraryFiltered
  <2> QED BY <1>12, <2>3, <2>4 DEF ServiceTypeOK, AskLibrary, Goto, file, mindb, cache
<1>13. ASSUME NEW c \in Call, Search(c) PROVE ServiceTypeOK'
  <2>1. PICK best \in Rankings(Wanted(c)) :
          IF Negated(c)
            THEN /\ Goto(c, "search", "negated")
                 /\ hits' = [hits EXCEPT ![c] = best]
                 /\ UNCHANGED <<query, seen, loaded, exclude, filtered, library, answer>>
            ELSE Respond(c, 200, Page(best, exclude[c]))
    BY <1>13 DEF ServiceTypeOK, Search
  <2>2. best \in Seq(Game) BY WantedIsNat, RankingsList DEF ServiceTypeOK
  <2>3. Page(best, exclude[c]) \in Seq(Game) BY <2>2, PageOfHits DEF ServiceTypeOK
  <2>4. UNCHANGED <<file, mindb, cache>> BY <1>13 DEF ServiceTypeOK, Search
  <2>5. CASE Negated(c)
    <3>1. /\ pc' = [pc EXCEPT ![c] = "negated"] /\ hits' = [hits EXCEPT ![c] = best]
          /\ UNCHANGED <<query, seen, loaded, exclude, filtered, library, answer>>
      BY <2>1, <2>5 DEF Goto
    <3>2. hits' \in [Call -> Seq(Game)] BY <2>2, <3>1 DEF ServiceTypeOK
    <3> QED BY <2>4, <3>1, <3>2 DEF ServiceTypeOK, file, mindb, cache
  <2>6. CASE ~Negated(c)
    BY <2>1, <2>3, <2>4, <2>6, RespondTyped DEF file, mindb, cache
  <2> QED BY <2>5, <2>6 DEF ServiceTypeOK
<1>14. ASSUME NEW c \in Call, DropNegated(c) PROVE ServiceTypeOK'
  <2>1. Page(hits[c], exclude[c] \cup NegatedOut(c)) \in Seq(Game) BY PageOfHits DEF ServiceTypeOK
  <2> QED BY <1>14, <2>1, RespondTyped DEF DropNegated, file, mindb, cache
<1>15. CASE UNCHANGED service
  BY <1>15 DEF ServiceTypeOK, service, file, mindb, cache, locals
<1> QED
  BY <1>1, <1>2, <1>3, <1>4, <1>5, <1>6, <1>7, <1>8, <1>9, <1>10, <1>11, <1>12, <1>13, <1>14,
     <1>15
     DEF ServiceNext, World, CallStep
-----------------------------------------------------------------------------
(* The steps of a call that have nothing to do with a reload.              *)

(* It leaves the cache alone, and what other calls know.                   *)
Elsewhere(c) ==
  /\ UNCHANGED <<version, since, mtime, names, namesMtime, overlapped>>
  /\ \E to \in {"idle", "stat", "seed", "library", "search", "negated", "answered"} :
       pc' = [pc EXCEPT ![c] = to]
  /\ \A d \in Call \ {c} : seen'[d] = seen[d] /\ loaded'[d] = loaded[d]

LEMMA RespondIsElsewhere ==
  ASSUME ServiceTypeOK, NEW c \in Call, NEW code, NEW results, Respond(c, code, results),
         UNCHANGED <<file, mindb, cache>>
  PROVE  Elsewhere(c)
BY DEF ServiceTypeOK, Respond, Elsewhere, file, cache

LEMMA GotoIsElsewhere ==
  ASSUME ServiceTypeOK, NEW c \in Call, NEW from,
         NEW to \in {"idle", "stat", "seed", "library", "search", "negated", "answered"},
         Goto(c, from, to), UNCHANGED <<file, cache, seen>>,
         \A d \in Call \ {c} : loaded'[d] = loaded[d]
  PROVE  Elsewhere(c)
BY DEF Goto, Elsewhere, file, cache

(* Every step of a call is elsewhere, or one of the four of a reload.      *)
LEMMA StepsElsewhere ==
  ASSUME ServiceTypeOK, NEW c \in Call,
         \/ \E asked \in Queries : Receive(c, asked)
         \/ Deliver(c)
         \/ Stat(c) /\ mtime \in {0, namesMtime}
         \/ Load(c) /\ torn
         \/ ResolveSeed(c) \/ AskLibrary(c) \/ Search(c) \/ DropNegated(c) \/ MinDBFails(c)
  PROVE  Elsewhere(c)
<1>1. ASSUME NEW asked \in Queries, Receive(c, asked) PROVE Elsewhere(c)
  BY <1>1, GotoIsElsewhere DEF Receive, locals
<1>2. CASE Deliver(c)
  BY <1>2, GotoIsElsewhere DEF Deliver
<1>3. CASE Stat(c) /\ mtime \in {0, namesMtime}
  <2>1. /\ Goto(c, "stat", AfterNames(c)) /\ loaded' = [loaded EXCEPT ![c] = names]
        /\ UNCHANGED <<seen, overlapped, file, names, namesMtime>>
    BY <1>3 DEF Stat
  <2>2. \A d \in Call \ {c} : loaded'[d] = loaded[d] BY <2>1 DEF ServiceTypeOK
  <2>3. AfterNames(c) \in {"idle", "stat", "seed", "library", "search", "negated", "answered"}
    BY AfterNamesIsNext
  <2> QED BY <2>1, <2>2, <2>3, GotoIsElsewhere DEF cache
<1>4. CASE Load(c) /\ torn
  BY <1>4, RespondIsElsewhere DEF Load
<1>5. CASE ResolveSeed(c)
  <2>1. CASE query[c].seed \in Usable(loaded[c]) \cap corpus
    <3>1. /\ Goto(c, "seed", IF query[c].user THEN "library" ELSE "search")
          /\ UNCHANGED <<seen, loaded>> /\ UNCHANGED <<file, mindb, cache>>
      BY <1>5, <2>1 DEF ResolveSeed
    <3> QED BY <3>1, GotoIsElsewhere
  <2>2. CASE query[c].seed \notin Usable(loaded[c]) \cap corpus
    BY <1>5, <2>2, RespondIsElsewhere DEF ResolveSeed
  <2> QED BY <2>1, <2>2
<1>6. CASE AskLibrary(c)
  BY <1>6, GotoIsElsewhere DEF AskLibrary
<1>7. CASE Search(c)
  <2>1. UNCHANGED <<file, mindb, cache>> BY <1>7 DEF Search
  <2>2. \/ Goto(c, "search", "negated") /\ UNCHANGED <<seen, loaded>>
        \/ \E results : Respond(c, 200, results)
    BY <1>7 DEF Search
  <2> QED BY <2>1, <2>2, GotoIsElsewhere, RespondIsElsewhere
<1>8. CASE DropNegated(c)
  BY <1>8, RespondIsElsewhere DEF DropNegated
<1>9. CASE MinDBFails(c)
  BY <1>9, RespondIsElsewhere DEF MinDBFails
<1> QED BY <1>1, <1>2, <1>3, <1>4, <1>5, <1>6, <1>7, <1>8, <1>9

-----------------------------------------------------------------------------
(* The cached name index                                                   *)

LEMMA InitIsCurrent == ServiceInit => ReloadIsCurrent
BY DEF ServiceInit, ReloadIsCurrent, Current, Reloading

(* A write keeps the mtime, and with it all that was said of it, or makes  *)
(* one that nothing has seen.                                              *)
LEMMA WritesKeepCurrent ==
  ASSUME ServiceTypeOK, ReloadIsCurrent, NEW first \in Nat, Stamped(first),
         version' \in {version, version + 1},
         UNCHANGED <<names, namesMtime, overlapped, pc, seen, loaded>>
  PROVE  ReloadIsCurrent'
<1>0. /\ mtime \in Nat /\ namesMtime \in Nat /\ namesMtime <= mtime
      /\ version \in Nat /\ since \in Nat /\ names \in Nat
      /\ \A c \in Call : seen[c] \in Nat /\ seen[c] <= mtime /\ loaded[c] \in Nat
  BY DEF ServiceTypeOK, Versions
<1>1. CASE mtime' = mtime
  <2>1. since' = since BY <1>1 DEF Stamped
  <2>2. \A n \in Nat : n \in since..version => n \in since'..version' BY <1>0, <2>1
  <2>3. Current => Current' BY <1>0, <1>1, <2>2 DEF Current
  <2> QED BY <1>0, <1>1, <2>2, <2>3 DEF ReloadIsCurrent
<1>2. CASE mtime' = mtime + 1
  <2>1. /\ namesMtime' < mtime' /\ namesMtime' # mtime'
        /\ \A c \in Call : seen'[c] # mtime'
    BY <1>0, <1>2
  <2>2. Current' BY <2>1 DEF Current
  <2> QED BY <2>1, <2>2 DEF ReloadIsCurrent
<1> QED BY <1>1, <1>2 DEF Stamped

LEMMA StepKeepsCurrent ==
  ASSUME ServiceTypeOK, ReloadIsCurrent, [ServiceNext]_service
  PROVE  ReloadIsCurrent'
<1>0. /\ mtime \in Nat /\ namesMtime \in Nat /\ namesMtime <= mtime
      /\ pc \in [Call -> Reloading \cup {"idle", "stat", "seed", "library", "search", "negated",
                                        "answered"}]
      /\ \A c \in Call : seen[c] \in Nat /\ seen[c] <= mtime
      /\ seen \in [Call -> 0..mtime] /\ loaded \in [Call -> Versions]
  BY DEF ServiceTypeOK
<1>1. CASE Truncate
  <2>1. version + 1 \in Nat BY DEF ServiceTypeOK, Versions
  <2> QED BY <1>1, <2>1, WritesKeepCurrent DEF Truncate, cache, locals
<1>2. CASE Write
  <2>1. version \in Nat BY DEF ServiceTypeOK, Versions
  <2> QED BY <1>2, <2>1, WritesKeepCurrent DEF Write, cache, locals
<1>3. CASE CorpusChanges
  BY <1>3 DEF CorpusChanges, file, cache, locals, ReloadIsCurrent, Current
<1>4. ASSUME NEW c \in Call, Elsewhere(c) PROVE ReloadIsCurrent'
  <2>1. /\ UNCHANGED <<version, since, mtime, names, namesMtime, overlapped>>
        /\ pc'[c] \notin Reloading
        /\ \A d \in Call : d # c =>
             pc'[d] = pc[d] /\ seen'[d] = seen[d] /\ loaded'[d] = loaded[d]
    BY <1>0, <1>4 DEF Elsewhere, Reloading
  <2>2. pc'[c] \notin {"load", "keep", "stamp"} BY <2>1 DEF Reloading
  <2> QED BY <2>1, <2>2 DEF ReloadIsCurrent, Current, Reloading
<1>5. ASSUME NEW c \in Call, Stat(c), mtime \notin {0, namesMtime} PROVE ReloadIsCurrent'
  <2>1. /\ pc[c] = "stat" /\ pc' = [pc EXCEPT ![c] = "load"]
        /\ overlapped' = (\E other \in Call \ {c} : pc[other] \in Reloading)
        /\ UNCHANGED <<version, since, mtime, names, namesMtime>>
    BY <1>5 DEF Stat, Goto, file
  <2>2. namesMtime < mtime BY <1>0, <1>5
  <2>3. Current' BY <1>0, <2>1, <2>2 DEF Current
  <2>4. ASSUME ~overlapped' PROVE \A d \in Call : pc'[d] \in Reloading <=> d = c
    BY <1>0, <2>1, <2>4 DEF Reloading
  <2>5. pc'[c] = "load" BY <1>0, <2>1
  <2> QED BY <2>1, <2>2, <2>3, <2>4, <2>5 DEF ReloadIsCurrent, Reloading
<1>6. ASSUME NEW c \in Call, Load(c), ~torn PROVE ReloadIsCurrent'
  <2>1. /\ pc[c] = "load" /\ pc' = [pc EXCEPT ![c] = "keep"]
        /\ loaded' = [loaded EXCEPT ![c] = version]
        /\ UNCHANGED <<version, since, mtime, names, namesMtime, overlapped, seen>>
    BY <1>6 DEF Load, Goto, file, cache
  <2>0. version \in since..version BY DEF ServiceTypeOK, Versions
  <2>2. /\ pc'[c] = "keep" /\ loaded'[c] = version
        /\ \A d \in Call : d # c => pc'[d] = pc[d] /\ loaded'[d] = loaded[d]
    BY <1>0, <2>1
  <2> QED BY <2>0, <2>1, <2>2 DEF ReloadIsCurrent, Current, Reloading
<1>7. ASSUME NEW c \in Call, Keep(c) PROVE ReloadIsCurrent'
  <2>1. /\ pc[c] = "keep" /\ pc' = [pc EXCEPT ![c] = "stamp"] /\ names' = loaded[c]
        /\ UNCHANGED <<version, since, mtime, namesMtime, overlapped, seen, loaded>>
    BY <1>7 DEF Keep, Goto, file, locals
  <2>2. pc'[c] = "stamp" /\ \A d \in Call : d # c => pc'[d] = pc[d]
    BY <1>0, <2>1
  <2>3. ~overlapped => namesMtime < mtime /\ \A d \in Call : pc[d] \in Reloading => d = c
    BY <2>1 DEF ReloadIsCurrent, Reloading
  <2>4. ~overlapped => Current' BY <1>0, <2>1, <2>3 DEF Current
  <2> QED BY <2>1, <2>2, <2>3, <2>4 DEF ReloadIsCurrent, Reloading
<1>8. ASSUME NEW c \in Call, Stamp(c) PROVE ReloadIsCurrent'
  <2>1. /\ pc[c] = "stamp" /\ pc' = [pc EXCEPT ![c] = AfterNames(c)] /\ namesMtime' = seen[c]
        /\ UNCHANGED <<version, since, mtime, names, overlapped>>
    BY <1>8 DEF Stamp, Goto, MtimeToKeep, file
  <2>2. pc'[c] \notin Reloading /\ \A d \in Call : d # c => pc'[d] = pc[d]
    BY <1>0, <2>1, AfterNamesIsNext DEF Reloading
  <2>3. ~overlapped => \A d \in Call : pc[d] \in Reloading => d = c
    BY <2>1 DEF ReloadIsCurrent, Reloading
  <2>4. ~overlapped => Current' BY <2>1 DEF ReloadIsCurrent, Current
  <2>5. ~overlapped => \A d \in Call : pc'[d] \notin {"load", "keep", "stamp"}
    BY <2>2, <2>3 DEF Reloading
  <2> QED BY <2>1, <2>4, <2>5 DEF ReloadIsCurrent, Reloading
<1>9. CASE UNCHANGED service
  BY <1>9 DEF service, file, cache, locals, ReloadIsCurrent, Current
<1>10. ASSUME NEW c \in Call, CallStep(c) PROVE ReloadIsCurrent'
  BY <1>4, <1>5, <1>6, <1>7, <1>8, <1>10, StepsElsewhere DEF CallStep
<1>11. ASSUME NEW c \in Call, Deliver(c) \/ \E asked \in Queries : Receive(c, asked)
       PROVE  ReloadIsCurrent'
  BY <1>4, <1>11, StepsElsewhere
<1> QED BY <1>1, <1>2, <1>3, <1>9, <1>10, <1>11 DEF ServiceNext, World
-----------------------------------------------------------------------------
(* What is excluded by the time of the search                              *)

LEMMA InitExcludes == ServiceInit => ExcludedByTheSearch
BY DEF ServiceInit, ExcludedByTheSearch, Excluded

(* A call excludes for itself.                                             *)
LEMMA CallsAreApart ==
  ASSUME ServiceTypeOK, ExcludedByTheSearch, NEW c \in Call, Excluded(c)',
         NEW to, pc' = [pc EXCEPT ![c] = to],
         \A d \in Call \ {c} : /\ query'[d] = query[d] /\ exclude'[d] = exclude[d]
                              /\ filtered'[d] = filtered[d] /\ library'[d] = library[d]
  PROVE  ExcludedByTheSearch'
<1>1. \A d \in Call : d # c => pc'[d] = pc[d] BY DEF ServiceTypeOK
<1>2. \A d \in Call : d # c => Excluded(d)' BY <1>1 DEF ExcludedByTheSearch, Excluded
<1> QED BY <1>2 DEF ExcludedByTheSearch

LEMMA RespondExcludes ==
  ASSUME ServiceTypeOK, ExcludedByTheSearch, NEW c \in Call, NEW code, NEW results,
         Respond(c, code, results)
  PROVE  ExcludedByTheSearch'
<1>1. pc'[c] = "answered" /\ filtered'[c] = "none" BY DEF Respond, ServiceTypeOK
<1>2. Excluded(c)' BY <1>1 DEF Excluded
<1>3. \A d \in Call \ {c} : /\ query'[d] = query[d] /\ exclude'[d] = exclude[d]
                           /\ filtered'[d] = filtered[d] /\ library'[d] = library[d]
  BY DEF Respond, ServiceTypeOK
<1> QED BY <1>2, <1>3, CallsAreApart DEF Respond

(* A step that excludes nothing, and comes no nearer to the search.        *)
LEMMA GotoExcludes ==
  ASSUME ServiceTypeOK, ExcludedByTheSearch, NEW c \in Call, NEW from, NEW to,
         Goto(c, from, to), UNCHANGED <<exclude, filtered, library>>,
         from \notin {"search", "negated"}, to \notin {"library", "search", "negated"},
         \A d \in Call \ {c} : query'[d] = query[d]
  PROVE  ExcludedByTheSearch'
<1>1. filtered[c] # "yes" BY DEF Goto, ExcludedByTheSearch, Excluded
<1>2. pc'[c] = to BY DEF Goto, ServiceTypeOK
<1>3. Excluded(c)' BY <1>1, <1>2 DEF Excluded
<1> QED BY <1>3, CallsAreApart DEF Goto

(* What comes after the names excludes nothing but the seed.               *)
LEMMA AfterNamesExcludes ==
  ASSUME ServiceTypeOK, ExcludedByTheSearch, NEW c \in Call, pc[c] \in {"stat", "stamp"},
         pc' = [pc EXCEPT ![c] = AfterNames(c)], UNCHANGED <<query, exclude, filtered, library>>
  PROVE  ExcludedByTheSearch'
<1>1. filtered[c] # "yes" BY DEF ExcludedByTheSearch, Excluded
<1>2. pc'[c] = AfterNames(c) BY DEF ServiceTypeOK
<1>3. query[c].seed = NoSeed \/ AfterNames(c) = "seed" BY DEF AfterNames
<1>4. Excluded(c)' BY <1>1, <1>2, <1>3 DEF Excluded
<1> QED BY <1>4, CallsAreApart

LEMMA StepKeepsExcluded ==
  ASSUME ServiceTypeOK, ExcludedByTheSearch, [ServiceNext]_service
  PROVE  ExcludedByTheSearch'
<1>1. CASE World \/ UNCHANGED service
  <2>1. UNCHANGED <<pc, query, exclude, filtered, library>>
    BY <1>1 DEF World, Truncate, Write, CorpusChanges, service, locals
  <2> QED BY <2>1 DEF ExcludedByTheSearch, Excluded
<1>2. ASSUME NEW c \in Call, NEW asked \in Queries, Receive(c, asked)
      PROVE  ExcludedByTheSearch'
  <2>1. \A d \in Call \ {c} : query'[d] = query[d] BY <1>2 DEF Receive, ServiceTypeOK
  <2> QED BY <1>2, <2>1, GotoExcludes DEF Receive, locals
<1>3. ASSUME NEW c \in Call, Deliver(c) PROVE ExcludedByTheSearch'
  BY <1>3, GotoExcludes DEF Deliver, found
<1>4. ASSUME NEW c \in Call, Stat(c) PROVE ExcludedByTheSearch'
  <2>1. UNCHANGED <<query, exclude, filtered, library>> BY <1>4 DEF Stat, found
  <2>2. \/ Goto(c, "stat", AfterNames(c)) \/ Goto(c, "stat", "load") BY <1>4 DEF Stat
  <2>3. CASE Goto(c, "stat", AfterNames(c))
    BY <2>1, <2>3, AfterNamesExcludes DEF Goto
  <2>4. CASE Goto(c, "stat", "load") BY <2>1, <2>4, GotoExcludes
  <2> QED BY <2>2, <2>3, <2>4
<1>5. ASSUME NEW c \in Call, Load(c) PROVE ExcludedByTheSearch'
  <2>1. \/ Respond(c, 500, <<>>)
        \/ Goto(c, "load", "keep") /\ UNCHANGED <<query, exclude, filtered, library>>
    BY <1>5 DEF Load, found
  <2> QED BY <2>1, RespondExcludes, GotoExcludes
<1>6. ASSUME NEW c \in Call, Keep(c) PROVE ExcludedByTheSearch'
  BY <1>6, GotoExcludes DEF Keep, locals
<1>7. ASSUME NEW c \in Call, Stamp(c) PROVE ExcludedByTheSearch'
  BY <1>7, AfterNamesExcludes DEF Stamp, Goto, found
<1>8. ASSUME NEW c \in Call, MinDBFails(c) \/ DropNegated(c) PROVE ExcludedByTheSearch'
  BY <1>8, RespondExcludes DEF MinDBFails, DropNegated
<1>9. ASSUME NEW c \in Call, ResolveSeed(c) PROVE ExcludedByTheSearch'
  <2>1. CASE query[c].seed \in Usable(loaded[c]) \cap corpus
    <3>1. /\ pc[c] = "seed"
          /\ pc' = [pc EXCEPT ![c] = IF query[c].user THEN "library" ELSE "search"]
          /\ exclude' = [exclude EXCEPT ![c] = {query[c].seed}]
          /\ UNCHANGED <<query, filtered, library>>
      BY <1>9, <2>1 DEF ResolveSeed, Goto
    <3>2. filtered[c] # "yes" BY <3>1 DEF ExcludedByTheSearch, Excluded
    <3>3. exclude'[c] = {query[c].seed} /\ \A d \in Call \ {c} : exclude'[d] = exclude[d]
      BY <3>1 DEF ServiceTypeOK
    <3>4. Excluded(c)' BY <3>1, <3>2, <3>3 DEF Excluded
    <3> QED BY <3>1, <3>3, <3>4, CallsAreApart
  <2>2. CASE query[c].seed \notin Usable(loaded[c]) \cap corpus
    BY <1>9, <2>2, RespondExcludes DEF ResolveSeed
  <2> QED BY <2>1, <2>2
<1>10. ASSUME NEW c \in Call, AskLibrary(c) PROVE ExcludedByTheSearch'
  <2>1. PICK owned \in Libraries, known \in BOOLEAN :
          /\ library' = [library EXCEPT ![c] = owned]
          /\ filtered' = [filtered EXCEPT ![c] = LibraryFiltered(known)]
          /\ exclude' = [exclude EXCEPT ![c] = IF known THEN @ \cup owned ELSE @]
    BY <1>10 DEF AskLibrary
  <2>2. /\ pc[c] = "library" /\ pc' = [pc EXCEPT ![c] = "search"] /\ query' = query
    BY <1>10 DEF AskLibrary, Goto
  <2>3. /\ pc'[c] = "search" /\ library'[c] = owned /\ filtered'[c] = LibraryFiltered(known)
        /\ exclude'[c] = IF known THEN exclude[c] \cup owned ELSE exclude[c]
        /\ \A d \in Call \ {c} : /\ exclude'[d] = exclude[d]
                                /\ filtered'[d] = filtered[d] /\ library'[d] = library[d]
    BY <2>1, <2>2 DEF ServiceTypeOK
  <2>4. query[c].seed \in exclude[c] \cup {NoSeed}
    BY <2>2 DEF ExcludedByTheSearch, Excluded
  <2>5. Excluded(c)' BY <2>2, <2>3, <2>4 DEF Excluded, LibraryFiltered
  <2> QED BY <2>2, <2>3, <2>5, CallsAreApart
<1>11. ASSUME NEW c \in Call, Search(c) PROVE ExcludedByTheSearch'
  <2>1. \/ \E results : Respond(c, 200, results)
        \/ Goto(c, "search", "negated") /\ UNCHANGED <<query, exclude, filtered, library>>
    BY <1>11 DEF Search
  <2>2. CASE Goto(c, "search", "negated") /\ UNCHANGED <<query, exclude, filtered, library>>
    <3>1. pc[c] = "search" /\ pc'[c] = "negated" BY <2>2 DEF Goto, ServiceTypeOK
    <3>2. Excluded(c)' BY <2>2, <3>1 DEF ExcludedByTheSearch, Excluded
    <3> QED BY <2>2, <3>2, CallsAreApart DEF Goto
  <2> QED BY <2>1, <2>2, RespondExcludes
<1> QED
  BY <1>1, <1>2, <1>3, <1>4, <1>5, <1>6, <1>7, <1>8, <1>9, <1>10, <1>11 DEF ServiceNext, CallStep
-----------------------------------------------------------------------------
(* The answers                                                             *)

(* The step that answers with results is a search or what comes after it.  *)
LEMMA AnswersOfTheSearch ==
  ASSUME ServiceTypeOK, [ServiceNext]_service, NEW c \in Call,
         pc[c] \in {"search", "negated"}, pc'[c] = "answered"
  PROVE  /\ corpus' = corpus
         /\ \/ answer'[c] = [code |-> 503, results |-> <<>>]
            \/ /\ pc[c] = "search" /\ ~Negated(c)
               /\ \E best \in Rankings(Wanted(c)) :
                    answer'[c] = [code |-> 200, results |-> Page(best, exclude[c])]
            \/ /\ pc[c] = "negated"
               /\ answer'[c] = [code    |-> 200,
                                results |-> Page(hits[c], exclude[c] \cup NegatedOut(c))]
<1>0. pc \in [Call -> Reloading \cup {"idle", "stat", "seed", "library", "search", "negated",
                                     "answered"}]
      /\ answer \in [Call -> [code : {0, 200, 404, 500, 503}, results : Seq(Game)]]
  BY DEF ServiceTypeOK
<1>1. CASE World \/ UNCHANGED service
  BY <1>1 DEF World, Truncate, Write, CorpusChanges, service
<1>2. ASSUME NEW d \in Call, NEW to, pc' = [pc EXCEPT ![d] = to],
             d # c \/ to # "answered"
      PROVE  FALSE
  BY <1>0, <1>2
<1>3. ASSUME NEW d \in Call, NEW asked \in Queries, Receive(d, asked) PROVE FALSE
  BY <1>2, <1>3 DEF Receive, Goto
<1>4. ASSUME NEW d \in Call, Deliver(d) PROVE FALSE
  BY <1>2, <1>4 DEF Deliver, Goto
<1>5. ASSUME NEW d \in Call, Stat(d) PROVE FALSE
  <2>1. AfterNames(d) # "answered" BY AfterNamesIsNext
  <2> QED BY <1>2, <1>5, <2>1 DEF Stat, Goto
<1>6. ASSUME NEW d \in Call, Load(d) PROVE FALSE
  BY <1>2, <1>6 DEF Load, Goto, Respond
<1>7. ASSUME NEW d \in Call, Keep(d) PROVE FALSE
  BY <1>2, <1>7 DEF Keep, Goto
<1>8. ASSUME NEW d \in Call, Stamp(d) PROVE FALSE
  <2>1. AfterNames(d) # "answered" BY AfterNamesIsNext
  <2> QED BY <1>2, <1>8, <2>1 DEF Stamp, Goto
<1>9. ASSUME NEW d \in Call, ResolveSeed(d) PROVE FALSE
  BY <1>2, <1>9 DEF ResolveSeed, Goto, Respond
<1>10. ASSUME NEW d \in Call, AskLibrary(d) PROVE FALSE
  BY <1>2, <1>10 DEF AskLibrary, Goto
<1>11. ASSUME NEW d \in Call, MinDBFails(d)
       PROVE  corpus' = corpus /\ answer'[c] = [code |-> 503, results |-> <<>>]
  <2>1. d = c BY <1>2, <1>11 DEF MinDBFails, Respond
  <2> QED BY <1>0, <1>11, <2>1 DEF MinDBFails, Respond, mindb
<1>12. ASSUME NEW d \in Call, Search(d)
       PROVE  /\ corpus' = corpus /\ pc[c] = "search" /\ ~Negated(c)
              /\ \E best \in Rankings(Wanted(c)) :
                    answer'[c] = [code |-> 200, results |-> Page(best, exclude[c])]
  <2>1. d = c /\ ~Negated(d) BY <1>2, <1>12 DEF Search, Respond, Goto
  <2>2. /\ pc[c] = "search" /\ corpus' = corpus
        /\ \E best \in Rankings(Wanted(c)) : Respond(c, 200, Page(best, exclude[c]))
    BY <1>12, <2>1 DEF Search, mindb
  <2> QED BY <1>0, <2>1, <2>2 DEF Respond
<1>13. ASSUME NEW d \in Call, DropNegated(d)
       PROVE  /\ corpus' = corpus /\ pc[c] = "negated"
              /\ answer'[c] = [code    |-> 200,
                               results |-> Page(hits[c], exclude[c] \cup NegatedOut(c))]
  <2>1. d = c BY <1>2, <1>13 DEF DropNegated, Respond
  <2> QED BY <1>0, <1>13, <2>1 DEF DropNegated, Respond, mindb
<1> QED
  BY <1>1, <1>3, <1>4, <1>5, <1>6, <1>7, <1>8, <1>9, <1>10, <1>11, <1>12, <1>13
     DEF ServiceNext, CallStep

LEMMA StepWantsItsResults ==
  ASSUME ServiceInv, [ServiceNext]_service, NEW c \in Call,
         pc[c] \in {"search", "negated"}, pc'[c] = "answered",
         NEW i \in DOMAIN answer'[c].results
  PROVE  LET g == answer'[c].results[i] IN
           /\ g # query[c].seed
           /\ filtered[c] = "yes" => g \notin library[c]
           /\ g \in query[c].closer => g \notin corpus
<1> DEFINE g == answer'[c].results[i]
<1>1. /\ query[c].seed \in exclude[c] \cup {NoSeed}
      /\ filtered[c] = "yes" => library[c] \subseteq exclude[c]
  BY DEF ServiceInv, ExcludedByTheSearch, Excluded
<1>2. SUFFICES g \in Game /\ g \notin exclude[c] /\ (g \in query[c].closer => g \notin corpus)
  BY <1>1, RecommendAssumption
<1>3. CASE answer'[c] = [code |-> 503, results |-> <<>>]
  BY <1>3
<1>4. CASE /\ pc[c] = "search" /\ ~Negated(c)
           /\ \E best \in Rankings(Wanted(c)) :
                answer'[c] = [code |-> 200, results |-> Page(best, exclude[c])]
  <2>1. PICK best \in Rankings(Wanted(c)) : answer'[c].results = Page(best, exclude[c])
    BY <1>4
  <2>2. best \in Seq(Game) BY WantedIsNat, RankingsList DEF ServiceInv, ServiceTypeOK
  <2>3. g \notin exclude[c] /\ \E j \in DOMAIN best : g = best[j]
    BY <2>1, <2>2, PageOfHits
  <2>4. query[c].closer = {}
    <3>1. query[c] \in Queries \cup {Mood} BY DEF ServiceInv, ServiceTypeOK
    <3> QED BY <1>4, <3>1, RecommendAssumption DEF Negated, Mood
  <2> QED BY <2>2, <2>3, <2>4
<1>5. CASE answer'[c] = [code    |-> 200,
                         results |-> Page(hits[c], exclude[c] \cup NegatedOut(c))]
  <2> DEFINE out == exclude[c] \cup NegatedOut(c)
  <2>1. hits[c] \in Seq(Game) BY DEF ServiceInv, ServiceTypeOK
  <2>2. answer'[c].results = Page(hits[c], out) BY <1>5
  <2>3. g \notin out /\ \E j \in DOMAIN hits[c] : g = hits[c][j]
    <3> HIDE DEF out
    <3> QED BY <2>1, <2>2, PageOfHits
  <2>4. g \notin NegatedOut(c) /\ g \notin exclude[c] BY <2>3
  <2>5. g \in Game BY <2>1, <2>3
  <2> QED BY <2>3, <2>4, <2>5 DEF NegatedOut
<1> QED BY <1>3, <1>4, <1>5, AnswersOfTheSearch DEF ServiceInv

LEMMA StepFillsThePage ==
  ASSUME ServiceTypeOK, [ServiceNext]_service, NEW c \in Call,
         pc[c] = "search", pc'[c] = "answered", answer'[c].code = 200
  PROVE  Len(answer'[c].results) = AtMost(Cardinality(corpus \ exclude[c]))
<1> DEFINE Refused == answer'[c] = [code |-> 503, results |-> <<>>]
           Found == /\ pc[c] = "search" /\ ~Negated(c)
                    /\ \E best \in Rankings(Wanted(c)) :
                         answer'[c] = [code |-> 200, results |-> Page(best, exclude[c])]
           Compared == /\ pc[c] = "negated"
                       /\ answer'[c] = [code    |-> 200,
                                        results |-> Page(hits[c], exclude[c] \cup NegatedOut(c))]
<1>a. pc[c] \in {"search", "negated"} OBVIOUS
<1>b. Refused \/ Found \/ Compared BY <1>a, AnswersOfTheSearch, Zenon
<1>0. Found
  <2>1. ~Refused OBVIOUS
  <2>2. ~Compared OBVIOUS
  <2> HIDE DEF Refused, Found, Compared
  <2> QED BY <1>b, <2>1, <2>2
<1>1. PICK best \in Rankings(Wanted(c)) : answer'[c].results = Page(best, exclude[c])
  BY <1>0
<1>2. ~Negated(c) BY <1>0
<1>3. Wanted(c) = TopK + Cardinality(exclude[c])
  BY <1>2, WantedIsNat, RecommendAssumption DEF Wanted
<1>4. corpus \subseteq Game /\ exclude[c] \in SUBSET Game BY DEF ServiceTypeOK
<1> QED BY <1>1, <1>3, <1>4, WantedIsNat, PageIsFull

-----------------------------------------------------------------------------
(* The service                                                             *)

LEMMA ServiceInvIsKept ==
  /\ ServiceInit => ServiceInv
  /\ ServiceInv /\ [ServiceNext]_service => ServiceInv'
BY InitTyped, InitIsCurrent, InitExcludes, StepTyped, StepKeepsCurrent, StepKeepsExcluded
   DEF ServiceInv

LEMMA ServiceInvHolds == ServiceSpec => []ServiceInv
BY ServiceInvIsKept, PTL DEF ServiceSpec

(* However calls overlap, and however coarse the clock by which names.json *)
(* is rewritten: what the service keeps of the file is what the file said, *)
(* whole, at some time since it got the mtime it has, as long as that is   *)
(* the mtime kept and the last reloads did not overlap (main.py:80-95).    *)
THEOREM CachedNamesFollowTheFile == ServiceSpec => []NamesFollowTheFile
<1>1. ServiceInv => NamesFollowTheFile
  BY DEF ServiceInv, ReloadIsCurrent, NamesFollowTheFile
<1> QED BY <1>1, ServiceInvHolds, PTL

(* No page of any length recommends the seed, a game of the library it was *)
(* filtered by, or one that was ruled out and is still there to compare.   *)
THEOREM NothingUnwantedIsRecommended == ServiceSpec => NothingUnwanted
<1>1. ServiceInv /\ [ServiceNext]_service =>
        [\A c \in Call :
           pc[c] \in {"search", "negated"} /\ pc'[c] = "answered" =>
             \A i \in DOMAIN answer'[c].results :
               LET g == answer'[c].results[i] IN
               /\ g # query[c].seed
               /\ filtered[c] = "yes" => g \notin library[c]
               /\ g \in query[c].closer => g \notin corpus]_service
  BY StepWantsItsResults
<1> QED BY <1>1, ServiceInvHolds, PTL DEF ServiceSpec, NothingUnwanted

(* Whatever k, the corpus and the exclusions: one candidate more for each  *)
(* game excluded is enough for a page with no negation to fill.            *)
THEOREM PagesFill == ServiceSpec => PageFills
<1>1. ServiceInv /\ [ServiceNext]_service =>
        [\A c \in Call :
           pc[c] = "search" /\ pc'[c] = "answered" /\ answer'[c].code = 200 =>
             LET left == Cardinality(corpus \ exclude[c])
             IN  Len(answer'[c].results) = IF left < TopK THEN left ELSE TopK]_service
  BY StepFillsThePage DEF AtMost, ServiceInv
<1> QED BY <1>1, ServiceInvHolds, PTL DEF ServiceSpec, PageFills

-----------------------------------------------------------------------------
(* The page in front of it                                                 *)

(* What the page does is a request, an answer taken, or nothing to it.     *)
LEMMA PageStepsAreServiceSteps ==
  ASSUME AsksMayBeRetried, [Next]_vars PROVE [ServiceNext]_service
<1>1. CASE (World \/ \E c \in Call : CallStep(c)) /\ UNCHANGED page
  BY <1>1 DEF ServiceNext
<1>2. CASE UNCHANGED vars
  BY <1>2 DEF vars
<1>3. ASSUME NEW c \in Call, NEW asked \in Queries, Submit(c, asked) PROVE ServiceNext
  BY <1>3 DEF Submit, ServiceNext
<1>4. ASSUME NEW c \in Call, Retry(c) PROVE ServiceNext
  <2>1. url[c] \in Queries /\ Receive(c, url[c])
    BY <1>4 DEF Retry, AsksMayBeRetried, UnderWay
  <2> QED BY <2>1 DEF ServiceNext
<1>5. ASSUME NEW c \in Call, Pause(c) \/ Render(c) \/ Fail(c) \/ FetchRejects(c) PROVE ServiceNext
  <2>1. Deliver(c) BY <1>5 DEF Pause, Render, Fail, FetchRejects, Settle
  <2> QED BY <2>1 DEF ServiceNext
<1> QED BY <1>1, <1>2, <1>3, <1>4, <1>5 DEF Next, PageStep

LEMMA PageStartsTheService == Init => ServiceInit
BY DEF Init

(* What the page keeps of an ask stays within its types.                   *)
LEMMA StepTypesThePage ==
  ASSUME TypeOK, AsksMayBeRetried, [Next]_vars PROVE TypeOK'
<1>0. ServiceTypeOK'
  BY PageStepsAreServiceSteps, StepTyped DEF TypeOK
<1>z. 0 \in 0..MaxRetries BY PageAssumption
<1>p. /\ url \in [Call -> Queries \cup {Mood}] /\ attempt \in [Call -> 0..MaxRetries]
      /\ ask \in [Call -> {"new", "asking", "pausing", "settled"}]
      /\ disabled \in BOOLEAN
      /\ status \in {"", "searching", "restarting", "results", "error"}
  BY DEF TypeOK
<1>1. CASE UNCHANGED page
  BY <1>0, <1>1, <1>p DEF page, TypeOK
<1>2. ASSUME NEW c \in Call, NEW asked \in Queries, Submit(c, asked) PROVE TypeOK'
  BY <1>0, <1>2, <1>p DEF Submit, TypeOK
<1>3. ASSUME NEW c \in Call, Retry(c) PROVE TypeOK'
  <2>1. attempt[c] \in 0..MaxRetries /\ attempt[c] < MaxRetries
    BY <1>3, <1>p DEF Retry, AsksMayBeRetried
  <2>2. attempt[c] + 1 \in 0..MaxRetries BY <2>1, PageAssumption
  <2>3. attempt' \in [Call -> 0..MaxRetries] BY <1>3, <1>p, <2>2 DEF Retry
  <2> QED BY <1>0, <1>3, <1>p, <2>3 DEF Retry, TypeOK
<1>4. ASSUME NEW c \in Call, Pause(c) PROVE TypeOK'
  BY <1>0, <1>4, <1>p DEF Pause, TypeOK
<1>5. ASSUME NEW c \in Call, Render(c) \/ Fail(c) \/ FetchRejects(c) PROVE TypeOK'
  <2>1. status' \in {"", "searching", "restarting", "results", "error"}
    BY <1>5 DEF Render, Fail, FetchRejects
  <2>2. /\ ask' = [ask EXCEPT ![c] = "settled"] /\ disabled' = FALSE
        /\ url' = [url EXCEPT ![c] = Mood] /\ attempt' = [attempt EXCEPT ![c] = 0]
    BY <1>5 DEF Render, Fail, FetchRejects, Settle
  <2>3. /\ url' \in [Call -> Queries \cup {Mood}] /\ attempt' \in [Call -> 0..MaxRetries]
        /\ ask' \in [Call -> {"new", "asking", "pausing", "settled"}]
    BY <2>2, <1>p, <1>z
  <2> QED BY <1>0, <2>1, <2>2, <2>3 DEF TypeOK
<1> QED BY <1>1, <1>2, <1>3, <1>4, <1>5 DEF Next, PageStep, vars

LEMMA StepKeepsAsks ==
  ASSUME TypeOK, AsksMayBeRetried, BusyOnlyWhileAsking, [Next]_vars
  PROVE  AsksMayBeRetried' /\ BusyOnlyWhileAsking'
<1> DEFINE Kept1(d) == ask'[d] = ask[d] /\ url'[d] = url[d] /\ attempt'[d] = attempt[d]
<1>0. /\ ask \in [Call -> {"new", "asking", "pausing", "settled"}]
      /\ url \in [Call -> Queries \cup {Mood}] /\ attempt \in [Call -> 0..MaxRetries]
  BY DEF TypeOK
<1>a. ASSUME NEW c \in Call, UnderWay(c)', url'[c] \in Queries,
             ask'[c] = "pausing" => attempt'[c] < MaxRetries,
             \A d \in Call \ {c} : Kept1(d)
      PROVE  AsksMayBeRetried' /\ BusyOnlyWhileAsking'
  BY <1>a DEF AsksMayBeRetried, BusyOnlyWhileAsking, UnderWay
<1>1. CASE UNCHANGED page
  BY <1>1 DEF page, AsksMayBeRetried, BusyOnlyWhileAsking, UnderWay
<1>2. ASSUME NEW c \in Call, NEW asked \in Queries, Submit(c, asked)
      PROVE  AsksMayBeRetried' /\ BusyOnlyWhileAsking'
  <2>1. /\ ask'[c] = "asking" /\ url'[c] = asked /\ \A d \in Call \ {c} : Kept1(d)
    BY <1>0, <1>2 DEF Submit
  <2> QED BY <1>a, <2>1 DEF UnderWay
<1>3. ASSUME NEW c \in Call, Retry(c) PROVE AsksMayBeRetried' /\ BusyOnlyWhileAsking'
  <2>1. /\ ask'[c] = "asking" /\ url'[c] = url[c] /\ \A d \in Call \ {c} : Kept1(d)
    BY <1>0, <1>3 DEF Retry
  <2>2. url[c] \in Queries BY <1>3 DEF Retry, AsksMayBeRetried, UnderWay
  <2> QED BY <1>a, <2>1, <2>2 DEF UnderWay
<1>4. ASSUME NEW c \in Call, Pause(c) PROVE AsksMayBeRetried' /\ BusyOnlyWhileAsking'
  <2>1. /\ ask'[c] = "pausing" /\ url'[c] = url[c] /\ attempt'[c] = attempt[c]
        /\ attempt[c] < MaxRetries /\ \A d \in Call \ {c} : Kept1(d)
    BY <1>0, <1>4 DEF Pause, MayRetry
  <2>2. url[c] \in Queries BY <1>4 DEF Pause, Answered, AsksMayBeRetried, UnderWay
  <2> QED BY <1>a, <2>1, <2>2 DEF UnderWay
<1>5. ASSUME NEW c \in Call, Render(c) \/ Fail(c) \/ FetchRejects(c)
      PROVE  AsksMayBeRetried' /\ BusyOnlyWhileAsking'
  <2>1. /\ ask'[c] = "settled" /\ \A d \in Call \ {c} : Kept1(d)
        /\ ~disabled' /\ status' \notin {"searching", "restarting"}
    BY <1>0, <1>5 DEF Render, Fail, FetchRejects, Settle
  <2> QED BY <2>1 DEF AsksMayBeRetried, BusyOnlyWhileAsking, UnderWay
<1> QED BY <1>1, <1>2, <1>3, <1>4, <1>5 DEF Next, PageStep, vars

LEMMA InitSettled == Init => PageInv
<1> SUFFICES ASSUME Init PROVE PageInv OBVIOUS
<1>1. ServiceTypeOK BY InitTyped DEF Init
<1>2. 0 \in 0..MaxRetries BY PageAssumption
<1>3. TypeOK BY <1>1, <1>2 DEF Init, TypeOK
<1> QED BY <1>3 DEF Init, PageInv, AsksMayBeRetried, BusyOnlyWhileAsking, UnderWay

LEMMA PageInvHolds == Spec => []PageInv
<1>1. Init => PageInv BY InitSettled
<1>2. PageInv /\ [Next]_vars => PageInv'
  BY StepTypesThePage, StepKeepsAsks DEF PageInv
<1> QED BY <1>1, <1>2, PTL DEF Spec

(* The types of the page and of the service behind it: the retries are     *)
(* never more than MAX_RETRIES (app.js:183-193).                           *)
THEOREM PageIsTyped == Spec => []TypeOK
<1>1. PageInv => TypeOK BY DEF PageInv
<1> QED BY <1>1, PageInvHolds, PTL

(* The safety half of EverySubmitSettles: the button is dead, or the       *)
(* status line busy, only while an ask is under way.                       *)
THEOREM PageIsBusyOnlyWhileAsking == Spec => []BusyOnlyWhileAsking
<1>1. PageInv => BusyOnlyWhileAsking BY DEF PageInv
<1> QED BY <1>1, PageInvHolds, PTL

(* The page uses the service as the service may be used: asks that         *)
(* overlap, pause and retry are calls of Recommend, so what is proved of   *)
(* its answers holds of those the page renders.                            *)
THEOREM PageImplementsTheService == Spec => ServiceSpec
<1>1. PageInv /\ [Next]_vars => [ServiceNext]_service
  BY PageStepsAreServiceSteps DEF PageInv
<1> QED BY <1>1, PageStartsTheService, PageInvHolds, PTL DEF Spec, ServiceSpec

(* The properties of the service, for the page.                            *)
COROLLARY PageShowsNothingUnwanted ==
  Spec => []NamesFollowTheFile /\ NothingUnwanted /\ PageFills
BY PageImplementsTheService, CachedNamesFollowTheFile, NothingUnwantedIsRecommended, PagesFill
=============================================================================
