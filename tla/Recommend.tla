----------------------------- MODULE Recommend -----------------------------
(***************************************************************************)
(* GET /recommend (api/main.py), several at a time: the endpoint is a      *)
(* plain function, and FastAPI runs each call of it in a thread of its     *)
(* pool.  The calls share the name index cached in `state`, and nothing    *)
(* else; names.json, MinDB and the user's library change under them.       *)
(*                                                                         *)
(* A query is a record of what it asks for.  A game stands for its appid,  *)
(* its id and its document, a version of names.json for what it says.      *)
(* Vectors are left out: a search answers in any order, and the games that *)
(* look more like what was ruled out than like what was asked for, if any, *)
(* are part of the query.  Narration adds nothing but text.                *)
(***************************************************************************)
EXTENDS Integers, Sequences, FiniteSets

CONSTANTS
  Game,      \* the games there may be
  NoSeed,    \* a query without a seed
  Call,      \* the calls: each is made once, or again after it was answered
  Queries,   \* [seed, negation, closer, user] that are asked
  Libraries, \* what the user may own
  UsableIn,  \* the games each version of names.json has in the corpus
  TopK,      \* k
  Headroom,  \* NEGATION_HEADROOM
  MaxChanges \* bound: how often what MinDB holds changes

Versions == 0..(Len(UsableIn) - 1)
Usable(version) == UsableIn[version + 1]

ASSUME RecommendAssumption ==
  /\ IsFiniteSet(Game) /\ NoSeed \notin Game
  /\ Queries \subseteq [seed : Game \cup {NoSeed}, negation : BOOLEAN, closer : SUBSET Game,
                         user : BOOLEAN]
  /\ \A asked \in Queries : asked.closer # {} => asked.negation
  /\ Libraries \subseteq SUBSET Game
  /\ UsableIn \in Seq(SUBSET Game) /\ Len(UsableIn) > 0 /\ UsableIn[1] = {}
  /\ TopK \in Nat \ {0} /\ Headroom \in Nat \ {0} /\ MaxChanges \in Nat

VARIABLES
  \* names.json, written by the ingest
  version,     \* which version it is, or is being rewritten to
  torn,        \* it is empty, or part of a file
  mtime,       \* st_mtime_ns, 0 while there is no file
  since,       \* history: the first version that file has been since it had this mtime
  \* MinDB
  corpus,      \* the games with a vector
  changes,     \* how often they have changed
  \* the API process
  names,       \* state["names"]
  namesMtime,  \* state["names_mtime"], 0 for none
  \* each call
  pc,          \* where it is
  query,       \* what it was asked
  seen,        \* the mtime _names saw
  loaded,      \* the version it loaded, and then the one it resolves with
  exclude,     \* exclude
  filtered,    \* library_filtered
  hits,        \* hits
  answer,      \* the response: code, results
  \* history
  library,     \* what the user owned when the call asked
  overlapped   \* the last reloads of the name index overlapped

file    == <<version, torn, mtime, since>>
mindb   == <<corpus, changes>>
cache   == <<names, namesMtime, overlapped>>
locals  == <<seen, loaded, exclude, filtered, hits, answer, library>>
found   == <<exclude, filtered, hits, library>>
service == <<file, mindb, cache, pc, query, locals>>

Mood == [seed |-> NoSeed, negation |-> FALSE, closer |-> {}, user |-> FALSE]

NoAnswer == [code |-> 0, results |-> <<>>]

Reloading == {"load", "keep", "stamp"}

ServiceTypeOK ==
  /\ version \in Versions /\ since \in 0..version /\ torn \in BOOLEAN /\ mtime \in Nat
  /\ corpus \subseteq Game /\ changes \in 0..MaxChanges
  /\ names \in Versions /\ namesMtime \in 0..mtime
  /\ pc \in [Call -> Reloading \cup {"idle", "stat", "seed", "library", "search", "negated",
                                     "answered"}]
  /\ query \in [Call -> Queries \cup {Mood}]
  /\ seen \in [Call -> 0..mtime] /\ loaded \in [Call -> Versions]
  /\ exclude \in [Call -> SUBSET Game] /\ filtered \in [Call -> {"none", "yes", "no"}]
  /\ hits \in [Call -> Seq(Game)]
  /\ answer \in [Call -> [code : {0, 200, 404, 500, 503}, results : Seq(Game)]]
  /\ library \in [Call -> SUBSET Game] /\ overlapped \in BOOLEAN

ServiceInit ==
  /\ version = 0 /\ since = 0 /\ torn = FALSE /\ mtime \in {0, 1}
  /\ corpus = Game /\ changes = 0
  /\ names = 0 /\ namesMtime = 0 /\ overlapped = FALSE
  /\ pc = [c \in Call |-> "idle"] /\ query = [c \in Call |-> Mood]
  /\ seen = [c \in Call |-> 0] /\ loaded = [c \in Call |-> 0]
  /\ exclude = [c \in Call |-> {}] /\ filtered = [c \in Call |-> "none"]
  /\ hits = [c \in Call |-> <<>>] /\ answer = [c \in Call |-> NoAnswer]
  /\ library = [c \in Call |-> {}]

Goto(c, from, to) == pc[c] = from /\ pc' = [pc EXCEPT ![c] = to]

(* A request comes in; one with neither mood nor seed is turned away (400) *)
(* before it reads anything, and is left out.                              *)
Receive(c, asked) ==
  /\ Goto(c, "idle", "stat")
  /\ query' = [query EXCEPT ![c] = asked]
  /\ UNCHANGED <<file, mindb, cache, locals>>

(* The response, after which the locals are no more.                       *)
Respond(c, code, results) ==
  /\ pc' = [pc EXCEPT ![c] = "answered"]
  /\ answer' = [answer EXCEPT ![c] = [code |-> code, results |-> results]]
  /\ query' = [query EXCEPT ![c] = Mood]
  /\ seen' = [seen EXCEPT ![c] = 0] /\ loaded' = [loaded EXCEPT ![c] = 0]
  /\ exclude' = [exclude EXCEPT ![c] = {}] /\ filtered' = [filtered EXCEPT ![c] = "none"]
  /\ hits' = [hits EXCEPT ![c] = <<>>]
  /\ library' = [library EXCEPT ![c] = {}]

Deliver(c) ==
  /\ Goto(c, "answered", "idle")
  /\ answer' = [answer EXCEPT ![c] = NoAnswer]
  /\ UNCHANGED <<file, mindb, cache, query, seen, loaded, found>>

-----------------------------------------------------------------------------
(* External: what changes under the calls.                                 *)

(* The clock of the file system is coarse: a write may leave the mtime of  *)
(* the one before it (test_api_probes.py:141).                             *)
Stamped(first) ==
  /\ mtime' \in {mtime, mtime + 1} \ {0}
  /\ since' = IF mtime' = mtime THEN since ELSE first

(* NameIndex.dump empties the file, then writes it.                        *)
Truncate ==
  /\ ~torn /\ version + 1 \in Versions
  /\ torn' = TRUE /\ version' = version + 1 /\ Stamped(version + 1)
  /\ UNCHANGED <<mindb, cache, pc, query, locals>>

Write ==
  /\ torn /\ torn' = FALSE /\ Stamped(version)
  /\ UNCHANGED <<version, mindb, cache, pc, query, locals>>

(* MinDB takes an insert, or comes back with less than it had.             *)
CorpusChanges ==
  /\ changes < MaxChanges /\ changes' = changes + 1
  /\ \E g \in Game : corpus' \in {corpus \cup {g}, corpus \ {g}} \ {corpus}
  /\ UNCHANGED <<file, cache, pc, query, locals>>

-----------------------------------------------------------------------------
(* _names.  What it returns is read from the cache in the same step as the *)
(* mtime before it, or written after it.                                   *)

(* What comes next: the calls the query asks for, and no others.           *)
AfterNames(c) ==
  IF query[c].seed # NoSeed THEN "seed" ELSE IF query[c].user THEN "library" ELSE "search"

Stat(c) ==
  /\ IF mtime \in {0, namesMtime}
       THEN /\ Goto(c, "stat", AfterNames(c))
            /\ loaded' = [loaded EXCEPT ![c] = names]
            /\ UNCHANGED <<seen, overlapped>>
       ELSE /\ Goto(c, "stat", "load")
            /\ seen' = [seen EXCEPT ![c] = mtime]
            /\ overlapped' = (\E other \in Call \ {c} : pc[other] \in Reloading)
            /\ UNCHANGED loaded
  /\ UNCHANGED <<file, mindb, names, namesMtime, query, found, answer>>

(* Half a file is no JSON: the call ends in a 500, and is not remembered.  *)
Load(c) ==
  /\ pc[c] = "load"
  /\ IF torn THEN Respond(c, 500, <<>>)
             ELSE /\ Goto(c, "load", "keep")
                  /\ loaded' = [loaded EXCEPT ![c] = version]
                  /\ UNCHANGED <<query, seen, found, answer>>
  /\ UNCHANGED <<file, mindb, cache>>

(* state["names"] = ..., and after it state["names_mtime"] = ...           *)
Keep(c) ==
  /\ Goto(c, "keep", "stamp") /\ names' = loaded[c]
  /\ UNCHANGED <<file, mindb, namesMtime, overlapped, query, locals>>

(* Mutant: the mtime is read again for the cache, after the load.          *)
MtimeReadAgain(c) == mtime

(* The mtime that goes with what was loaded is the one seen before.        *)
MtimeToKeep(c) == seen[c]

Stamp(c) ==
  /\ Goto(c, "stamp", AfterNames(c)) /\ namesMtime' = MtimeToKeep(c)
  /\ loaded' = [loaded EXCEPT ![c] = names] /\ seen' = [seen EXCEPT ![c] = 0]
  /\ UNCHANGED <<file, mindb, names, overlapped, query, found, answer>>

-----------------------------------------------------------------------------
(* recommend.                                                              *)

(* A call to MinDB that fails is a 503.                                    *)
MinDBFails(c) ==
  /\ pc[c] \in {"seed", "search", "negated"}
  /\ Respond(c, 503, <<>>)
  /\ UNCHANGED <<file, mindb, cache>>

(* names.resolve(seed), and mindb.get of the seed's vector: a 404 from     *)
(* either, or the seed is excluded from its own page.                      *)
ResolveSeed(c) ==
  LET seed == query[c].seed IN
  /\ pc[c] = "seed"
  /\ IF seed \in Usable(loaded[c]) \cap corpus
       THEN /\ Goto(c, "seed", IF query[c].user THEN "library" ELSE "search")
            /\ exclude' = [exclude EXCEPT ![c] = {seed}]
            /\ UNCHANGED <<query, seen, loaded, filtered, hits, library, answer>>
       ELSE Respond(c, 404, <<>>)
  /\ UNCHANGED <<file, mindb, cache>>

(* Mutant: library_filtered says that there was a user.                    *)
FilteredForAnyUser(known) == "yes"

(* owned is not None.                                                      *)
LibraryFiltered(known) == IF known THEN "yes" ELSE "no"

(* owned_appids: any failure is None, and the page goes out unfiltered.    *)
AskLibrary(c) ==
  /\ Goto(c, "library", "search")
  /\ \E owned \in Libraries, known \in BOOLEAN :
       /\ library' = [library EXCEPT ![c] = owned]
       /\ filtered' = [filtered EXCEPT ![c] = LibraryFiltered(known)]
       /\ exclude' = [exclude EXCEPT ![c] = IF known THEN @ \cup owned ELSE @]
  /\ UNCHANGED <<file, mindb, cache, query, seen, loaded, hits, answer>>

(* Something was ruled out, whether or not any game is closer to it.       *)
Negated(c) == query[c].negation

(* Mutant: no extra candidate for what is excluded.                        *)
WantedWithoutExtra(c) == TopK * (IF Negated(c) THEN Headroom ELSE 1)

(* One extra candidate per excluded id, and headroom for a negation.       *)
Wanted(c) == (TopK + Cardinality(exclude[c])) * (IF Negated(c) THEN Headroom ELSE 1)

(* External: the best `most` games of the corpus, in whatever order.       *)
Rankings(most) ==
  LET size == IF Cardinality(corpus) < most THEN Cardinality(corpus) ELSE most
  IN  {s \in [1..size -> corpus] : \A i, j \in 1..size : s[i] = s[j] => i = j}

(* Where in the answer the hits are that are not excluded.                 *)
Kept(all, out) == {i \in DOMAIN all : all[i] \notin out}

(* The n-th of some positions: n - 1 of them come before it.               *)
Nth(kept, n) == CHOOSE i \in kept : Cardinality({j \in kept : j < i}) = n - 1

(* The page: the first TopK of the hits that are not excluded.             *)
Page(all, out) ==
  LET kept == Kept(all, out)
      size == IF Cardinality(kept) < TopK THEN Cardinality(kept) ELSE TopK
  IN  [n \in 1..size |-> all[Nth(kept, n)]]

(* The search, and with no negation the page.  narrate changes nothing of  *)
(* it, whatever Groq does.                                                 *)
Search(c) ==
  /\ pc[c] = "search"
  /\ \E best \in Rankings(Wanted(c)) :
       IF Negated(c)
         THEN /\ Goto(c, "search", "negated")
              /\ hits' = [hits EXCEPT ![c] = best]
              /\ UNCHANGED <<query, seen, loaded, exclude, filtered, library, answer>>
         ELSE Respond(c, 200, Page(best, exclude[c]))
  /\ UNCHANGED <<file, mindb, cache>>

(* _negated_out: of the hits MinDB still has, those closer to what was     *)
(* ruled out than to what was asked for.                                   *)
NegatedOut(c) == {hits[c][i] : i \in DOMAIN hits[c]} \cap corpus \cap query[c].closer

DropNegated(c) ==
  /\ pc[c] = "negated" /\ Respond(c, 200, Page(hits[c], exclude[c] \cup NegatedOut(c)))
  /\ UNCHANGED <<file, mindb, cache>>

CallStep(c) ==
  \/ Stat(c) \/ Load(c) \/ Keep(c) \/ Stamp(c)
  \/ ResolveSeed(c) \/ AskLibrary(c) \/ Search(c) \/ DropNegated(c)
  \/ MinDBFails(c)

World == Truncate \/ Write \/ CorpusChanges

ServiceNext ==
  \/ World
  \/ \E c \in Call :
       CallStep(c) \/ Deliver(c) \/ \E asked \in Queries : Receive(c, asked)

ServiceSpec == ServiceInit /\ [][ServiceNext]_service

-----------------------------------------------------------------------------

(* Nothing is recommended that should not be: not the seed, nothing of the *)
(* library the answer says it was filtered by, and nothing closer to what  *)
(* the query ruled out, unless MinDB lost it between the search and the    *)
(* comparison (main.py:67-71, 224-229, 244-246).                           *)
NothingUnwanted ==
  [][\A c \in Call :
       pc[c] \in {"search", "negated"} /\ pc'[c] = "answered" =>
         \A i \in DOMAIN answer'[c].results :
           LET g == answer'[c].results[i] IN
           /\ g # query[c].seed
           /\ filtered[c] = "yes" => g \notin library[c]
           /\ g \in query[c].closer => g \notin corpus]_service

(* The page fills: without a negation, the search brings as many games as  *)
(* the page has room for or the corpus has left, whatever is taken out of  *)
(* its answer (main.py:226).                                               *)
PageFills ==
  [][\A c \in Call :
       pc[c] = "search" /\ pc'[c] = "answered" /\ answer'[c].code = 200 =>
         LET left == Cardinality(corpus \ exclude[c])
         IN  Len(answer'[c].results) = IF left < TopK THEN left ELSE TopK]_service

(* The cached name index is what the file has been, whole, while it had    *)
(* the mtime in the cache.  A file system that gives every rewrite an      *)
(* mtime of its own makes that the file as it is.                          *)
Current == namesMtime = mtime => names \in since..version

(* Whenever the mtime says so, the cached name index is not older than the *)
(* mtime, however the file is rewritten while it is read, as long as the   *)
(* last reloads did not overlap.                                           *)
NamesFollowTheFile == overlapped \/ Current

-----------------------------------------------------------------------------
(* The inductive invariant behind these properties                         *)

(* A reload that no other overlaps keeps what the file was when it looked, *)
(* or since, and only then does the mtime it saw get into the cache.       *)
ReloadIsCurrent ==
  ~overlapped =>
    /\ Current
    /\ \A c, d \in Call : pc[c] \in Reloading /\ pc[d] \in Reloading => c = d
    /\ \A c \in Call :
         /\ pc[c] \in Reloading => namesMtime < mtime
         /\ pc[c] \in {"keep", "stamp"} /\ seen[c] = mtime => loaded[c] \in since..version
         /\ pc[c] = "stamp" /\ seen[c] = mtime => names \in since..version

(* By the time of the search, what is ruled out has been excluded.         *)
Excluded(c) ==
  /\ pc[c] \in {"library", "search", "negated"} => query[c].seed \in exclude[c] \cup {NoSeed}
  /\ filtered[c] = "yes" => pc[c] \in {"search", "negated"} /\ library[c] \subseteq exclude[c]

ExcludedByTheSearch == \A c \in Call : Excluded(c)

ServiceInv == ServiceTypeOK /\ ReloadIsCurrent /\ ExcludedByTheSearch
=============================================================================
