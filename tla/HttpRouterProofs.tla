-------------------------- MODULE HttpRouterProofs --------------------------
(***************************************************************************)
(* What TLAPS proves of HttpRouter, for any workers, requests, patterns    *)
(* and contents of files: the first route registered answers, and a file   *)
(* nobody touches in the meantime is served and stored whole.              *)
(***************************************************************************)
EXTENDS HttpRouter, WellFoundedInduction, TLAPS

LEMMA Minimum ==
    ASSUME NEW S \in SUBSET Nat, S # {}
    PROVE  Min(S) \in S /\ \A n \in S : Min(S) <= n
<1> DEFINE R == OpToRel(<, Nat)
<1>1. PICK x \in S : \A y \in S : ~(<<y, x>> \in R)
  BY NatLessThanWellFounded, WFMin
<1>2. ASSUME NEW y \in S PROVE x <= y
  <2>1. y < x => <<y, x>> \in R
    BY DEF OpToRel
  <2> HIDE DEF R
  <2>2. x \in Nat /\ y \in Nat
    OBVIOUS
  <2> QED
    BY <1>1, <2>1, <2>2
<1> QED
  BY <1>2 DEF Min

LEMMA TheMinimum ==
    ASSUME NEW S \in SUBSET Nat, NEW x \in S, \A n \in S : x <= n
    PROVE  Min(S) = x
<1>1. Min(S) \in S /\ Min(S) <= x
  BY Minimum
<1>2. x <= Min(S) /\ x \in Nat /\ Min(S) \in Nat
  BY <1>1
<1> QED
  BY <1>1, <1>2

-----------------------------------------------------------------------------
(* The routes.  Each router has the routes of its method, in the order in  *)
(* which all of them were registered.                                      *)

Routable == Method \ {"HEAD"}

RoutersAreKept ==
    /\ registered \in Seq([method : Routable, pattern : Pattern])
    /\ routers \in [Routable -> Seq([pattern : Pattern, nr : Nat])]
    /\ \A m \in Routable : \A k \in DOMAIN routers[m] :
          /\ routers[m][k].nr \in DOMAIN registered
          /\ registered[routers[m][k].nr].method = m
          /\ registered[routers[m][k].nr].pattern = routers[m][k].pattern

RoutesAreFound ==
    \A n \in DOMAIN registered :
        \E k \in DOMAIN routers[registered[n].method] : routers[registered[n].method][k].nr = n

RoutersAreOrdered ==
    \A m \in Routable : \A k, l \in DOMAIN routers[m] :
        k < l => routers[m][k].nr < routers[m][l].nr

RoutersOK == RoutersAreKept /\ RoutesAreFound /\ RoutersAreOrdered

LEMMA RoutersInit == Init => RoutersOK
  BY DEF Init, RoutersOK, RoutersAreKept, RoutesAreFound, RoutersAreOrdered, Routable

LEMMA RoutersStay ==
    ASSUME RoutersOK, UNCHANGED <<routers, registered>> PROVE RoutersOK'
<1>1. RoutersAreKept'
  <2>1. ASSUME NEW m \in Routable, NEW k \in DOMAIN routers'[m]
        PROVE  /\ routers'[m][k].nr \in DOMAIN registered'
               /\ registered'[routers'[m][k].nr].method = m
               /\ registered'[routers'[m][k].nr].pattern = routers'[m][k].pattern
    BY <2>1 DEF RoutersOK, RoutersAreKept
  <2>2. /\ registered' \in Seq([method : Routable, pattern : Pattern])
        /\ routers' \in [Routable -> Seq([pattern : Pattern, nr : Nat])]
    BY Zenon DEF RoutersOK, RoutersAreKept
  <2> QED
    BY <2>1, <2>2, Zenon DEF RoutersAreKept
<1>2. RoutesAreFound'
  BY Zenon DEF RoutersOK, RoutesAreFound
<1>3. RoutersAreOrdered'
  BY DEF RoutersOK, RoutersAreOrdered
<1> QED
  BY <1>1, <1>2, <1>3 DEF RoutersOK

LEMMA OnlyRoutable ==
    ASSUME RoutersAreKept, NEW i \in DOMAIN registered
    PROVE  registered[i].method \in Routable
<1> DEFINE Route == [method : Routable, pattern : Pattern]
<1>1. registered \in Seq(Route)
  BY DEF RoutersAreKept
<1>2. registered[i] \in Route => registered[i].method \in Routable
  OBVIOUS
<1> HIDE DEF Route
<1>3. registered[i] \in Route
  BY <1>1
<1> QED
  BY <1>2, <1>3

LEMMA RoutersAdded ==
    ASSUME RoutersOK, NEW m \in Routable, NEW pattern \in Pattern, AddMethod(m, pattern)
    PROVE  RoutersOK'
<1> DEFINE n == Len(registered) + 1
           old == routers[m]
           new == Append(old, [pattern |-> pattern, nr |-> n])
<1>1. registered' = Append(registered, [method |-> m, pattern |-> pattern])
  BY DEF AddMethod
<1>2. /\ registered' \in Seq([method : Routable, pattern : Pattern])
      /\ Len(registered') = n
      /\ DOMAIN registered' = 1 .. n
      /\ registered'[n] = [method |-> m, pattern |-> pattern]
      /\ \A i \in DOMAIN registered : i \in 1 .. n /\ registered'[i] = registered[i]
      /\ \A i \in 1 .. n : i # n => i \in DOMAIN registered
  BY <1>1 DEF RoutersOK, RoutersAreKept
<1>3. routers' = [routers EXCEPT ![m] = new]
  BY <1>2 DEF AddMethod
<1>4. old \in Seq([pattern : Pattern, nr : Nat])
  BY DEF RoutersOK, RoutersAreKept
<1>4a. n \in Nat /\ n \in DOMAIN registered'
  <2>1. Len(registered) \in Nat
    BY DEF RoutersOK, RoutersAreKept
  <2> QED
    BY <1>2, <2>1
<1>5. /\ new \in Seq([pattern : Pattern, nr : Nat])
      /\ DOMAIN new = 1 .. Len(old) + 1
      /\ new[Len(old) + 1] = [pattern |-> pattern, nr |-> n]
      /\ \A k \in DOMAIN old : k \in DOMAIN new /\ new[k] = old[k] /\ k < Len(old) + 1
      /\ \A k \in DOMAIN new : k # Len(old) + 1 => k \in DOMAIN old
      /\ Len(old) + 1 \in DOMAIN new
  BY <1>4
<1>6. /\ routers' \in [Routable -> Seq([pattern : Pattern, nr : Nat])]
      /\ routers'[m] = new
      /\ \A q \in Routable : q # m => routers'[q] = routers[q]
  BY <1>3, <1>5 DEF RoutersOK, RoutersAreKept
<1> HIDE DEF n, old, new
<1>7. RoutersAreKept'
  <2>1. ASSUME NEW q \in Routable, NEW k \in DOMAIN routers'[q]
        PROVE  /\ routers'[q][k].nr \in DOMAIN registered'
               /\ registered'[routers'[q][k].nr].method = q
               /\ registered'[routers'[q][k].nr].pattern = routers'[q][k].pattern
    <3>1. CASE q = m /\ k = Len(old) + 1
      <4>1. routers'[q][k] = [pattern |-> pattern, nr |-> n]
        BY <1>5, <1>6, <3>1
      <4> QED
        BY <1>2, <1>4a, <3>1, <4>1
    <3>2. CASE q # m \/ k # Len(old) + 1
      <4>1. k \in DOMAIN routers[q] /\ routers'[q][k] = routers[q][k]
        BY <1>5, <1>6, <2>1, <3>2 DEF old
      <4> QED
        BY <1>2, <4>1 DEF RoutersOK, RoutersAreKept
    <3> QED
      BY <3>1, <3>2
  <2> QED
    BY <1>2, <1>6, <2>1 DEF RoutersAreKept
<1>8. RoutesAreFound'
  <2>1. ASSUME NEW i \in DOMAIN registered'
        PROVE  \E k \in DOMAIN routers'[registered'[i].method] :
                  routers'[registered'[i].method][k].nr = i
    <3>1. CASE i = n
      <4>1. registered'[i].method = m /\ new[Len(old) + 1].nr = i
        BY <1>2, <1>5, <3>1
      <4> QED
        BY <1>5, <1>6, <4>1
    <3>2. CASE i # n
      <4>1. i \in DOMAIN registered /\ registered'[i] = registered[i]
        BY <1>2, <2>1, <3>2
      <4>2. PICK k \in DOMAIN routers[registered[i].method] :
                  routers[registered[i].method][k].nr = i
        BY <4>1 DEF RoutersOK, RoutesAreFound
      <4>3. registered[i].method \in Routable
        BY <4>1, OnlyRoutable DEF RoutersOK
      <4> QED
        BY <1>5, <1>6, <4>1, <4>2, <4>3 DEF old
    <3> QED
      BY <3>1, <3>2
  <2> QED
    BY <2>1 DEF RoutesAreFound
<1>9. RoutersAreOrdered'
  <2>1. ASSUME NEW q \in Routable, NEW k \in DOMAIN routers'[q], NEW l \in DOMAIN routers'[q],
               k < l
        PROVE  routers'[q][k].nr < routers'[q][l].nr
    <3>1. CASE q # m
      BY <1>6, <2>1, <3>1 DEF RoutersOK, RoutersAreOrdered
    <3>2. CASE q = m /\ l # Len(old) + 1
      <4>1. k \in DOMAIN old /\ l \in DOMAIN old
        BY <1>4, <1>5, <1>6, <2>1, <3>2
      <4> QED
        BY <1>5, <1>6, <2>1, <3>2, <4>1 DEF RoutersOK, RoutersAreOrdered, old
    <3>3. CASE q = m /\ l = Len(old) + 1
      <4>1. k \in DOMAIN old /\ new[k] = old[k] /\ new[l].nr = n
        BY <1>4, <1>5, <1>6, <2>1, <3>3
      <4>2. old[k].nr \in DOMAIN registered
        BY <4>1 DEF RoutersOK, RoutersAreKept, old
      <4>3. old[k].nr < n
        BY <4>2 DEF n, RoutersOK, RoutersAreKept
      <4> QED
        BY <1>6, <3>3, <4>1, <4>3
    <3> QED
      BY <3>1, <3>2, <3>3
  <2> QED
    BY <2>1 DEF RoutersAreOrdered
<1> QED
  BY <1>7, <1>8, <1>9 DEF RoutersOK

(* The routes for a request that match a URL, by their numbers.            *)
MethodOf(r) == IF r.method = "HEAD" THEN "GET" ELSE r.method

Usable(reg, r, url) ==
    {n \in DOMAIN reg : reg[n].method = MethodOf(r) /\ url \in reg[n].pattern}

IsFirst(reg, r, url, n) == Usable(reg, r, url) # {} /\ n = Min(Usable(reg, r, url))

(* The first match in the router is the first registered of all.           *)
LEMMA FirstMatch ==
    ASSUME RoutersOK, NEW r \in Request
    PROVE  /\ Matches(r) = {} => Usable(registered, r, StaticUrl(r)) = {}
           /\ Matches(r) # {} => IsFirst(registered, r, StaticUrl(r),
                                         RouterOf(r.method)[Min(Matches(r))].nr)
<1> DEFINE m == MethodOf(r)
           url == StaticUrl(r)
           U == Usable(registered, r, url)
<1>1. m \in Routable /\ RouterOf(r.method) = routers[m]
  BY RequestAssumption DEF MethodOf, RouterOf, Routable, Method
<1>2. Matches(r) = {k \in DOMAIN routers[m] : url \in routers[m][k].pattern}
  BY <1>1 DEF Matches
<1>3. U = {n \in DOMAIN registered : registered[n].method = m /\ url \in registered[n].pattern}
  BY DEF Usable
<1> HIDE DEF m, url, U
<1>4. ASSUME NEW k \in Matches(r) PROVE routers[m][k].nr \in U
  BY <1>1, <1>2, <1>3 DEF RoutersOK, RoutersAreKept
<1>5. ASSUME NEW n \in U PROVE \E k \in Matches(r) : routers[m][k].nr = n
  <2>1. PICK k \in DOMAIN routers[m] : routers[m][k].nr = n
    BY <1>3 DEF RoutersOK, RoutesAreFound
  <2>2. registered[n].pattern = routers[m][k].pattern
    BY <1>1, <2>1 DEF RoutersOK, RoutersAreKept
  <2> QED
    BY <1>2, <1>3, <2>1, <2>2
<1>6. Matches(r) = {} <=> U = {}
  BY <1>4, <1>5
<1>7. ASSUME Matches(r) # {} PROVE routers[m][Min(Matches(r))].nr = Min(U)
  <2> DEFINE k == Min(Matches(r))
  <2>1. routers[m] \in Seq([pattern : Pattern, nr : Nat])
    BY <1>1 DEF RoutersOK, RoutersAreKept
  <2>2. Matches(r) \in SUBSET Nat /\ Matches(r) \subseteq DOMAIN routers[m]
    BY <1>2, <2>1
  <2>3. k \in Matches(r) /\ \A l \in Matches(r) : k <= l
    BY <1>7, <2>2, Minimum
  <2>4. U \in SUBSET Nat
    BY <1>3 DEF RoutersOK, RoutersAreKept
  <2> HIDE DEF k
  <2>5. ASSUME NEW n \in U PROVE routers[m][k].nr <= n
    <3>1. PICK l \in Matches(r) : routers[m][l].nr = n
      BY <1>5
    <3>2. k = l \/ k < l
      BY <2>2, <2>3
    <3>3. k < l => routers[m][k].nr < routers[m][l].nr
      BY <1>1, <2>2, <2>3 DEF RoutersOK, RoutersAreOrdered
    <3>4. routers[m][k].nr \in Nat /\ n \in Nat
      BY <1>4, <2>3, <2>4
    <3> QED
      BY <3>1, <3>2, <3>3, <3>4
  <2>6. routers[m][k].nr \in U
    BY <1>4, <2>3
  <2> QED
    BY <2>4, <2>5, <2>6, TheMinimum DEF k
<1> QED
  BY <1>1, <1>6, <1>7 DEF IsFirst, U, url

-----------------------------------------------------------------------------
(* The jobs, each for itself: "reg" are the registered routes, "fs" the    *)
(* files.                                                                  *)

IsJob(j) ==
    /\ DOMAIN j = {"at", "req", "url", "nr", "size", "body", "quiet", "held", "answer"}
    /\ DOMAIN j.answer = {"status", "by", "nr", "url", "body", "type"}

Text == Seq(Symbol \cup {"missing"})

(* What it answered, or is about to, comes from the first route.           *)
Routed(reg, j) ==
    /\ j.answer.by \in {"handler", "put"} => IsFirst(reg, j.req, j.answer.url, j.answer.nr)
    /\ j.answer.by = "nothing" => Usable(reg, j.req, j.answer.url) = {}
    /\ j.at \in {"truncate", "write"} => IsFirst(reg, j.req, j.url, j.nr)

(* Where it is, which file it has, and what was read of it.                *)
Placed(j) ==
    /\ j.at \in {"idle", "route", "open", "read", "truncate", "write"}
    /\ j.at # "idle" => j.req \in Request
    /\ j.at \in {"open", "read"} => j.url = WithIndex(j.req.url)
    /\ j.at \in {"truncate", "write"} => j.url = j.req.url
    /\ j.at = "write" => j.url \notin Directory
    /\ j.at \in {"route", "open"} => j.body = <<>>
    /\ j.body \in Text /\ j.size \in Nat /\ Len(j.body) <= j.size
    /\ j.answer.type = "type of the file" => j.answer.body \in Text

(* While nobody else touches its file: what the file held before it is     *)
(* read, what was read of it, and what it holds when it is written.        *)
Whole(fs, j) ==
    /\ j.at \in {"route", "open", "read"} => fs[WithIndex(j.req.url)] = j.held
    /\ j.at = "open" => j.held # Missing
    /\ j.at = "read" => /\ j.size = Len(j.held)
                        /\ \A k \in 1 .. Len(j.body) : j.body[k] = j.held[k]
    /\ j.at = "write" => fs[j.url] = <<>>
    /\ j.at = "idle" /\ j.answer.by = "file" => j.answer.body = j.held
    /\ j.at = "idle" /\ j.answer.by = "put" /\ j.answer.url \notin Directory
          => j.req.body = j.held

JobOK(reg, fs, j) == IsJob(j) /\ Routed(reg, j) /\ Placed(j) /\ (j.quiet => Whole(fs, j))

RouterInv ==
    /\ {started, asset_dir} \subseteq BOOLEAN
    /\ asked \in 0 .. MaxRequests
    /\ RoutersOK
    /\ files \in [Path -> Text]
    /\ DOMAIN job = Worker
    /\ \A w \in Worker : JobOK(registered, files, job[w])
    /\ ~started => \A w \in Worker : job[w] = NoJob

LEMMA EmptyText == <<>> \in Text /\ Len(<<>>) = 0
  BY DEF Text

LEMMA ElementIn == ASSUME NEW S, NEW q \in Seq(S), NEW k \in DOMAIN q PROVE q[k] \in S
  OBVIOUS

LEMMA SymbolsAreText == Seq(Symbol) \subseteq Text
  BY DEF Text

LEMMA NoJobOK == \A reg, fs : JobOK(reg, fs, NoJob)
<1> SUFFICES ASSUME NEW reg, NEW fs PROVE JobOK(reg, fs, NoJob)
  OBVIOUS
<1>1. IsJob(NoJob)
  BY DEF IsJob, NoJob, NoAnswer
<1>2. /\ NoJob.at = "idle" /\ NoJob.body = <<>> /\ NoJob.size = 0
      /\ NoJob.answer.by = "" /\ NoJob.answer.type = ""
  BY DEF NoJob, NoAnswer
<1>3. Routed(reg, NoJob)
  BY <1>2 DEF Routed
<1>4. Placed(NoJob)
  <2>1. NoJob.body \in Text
    BY <1>2, EmptyText
  <2>2. NoJob.size \in Nat /\ Len(NoJob.body) <= NoJob.size
    <3>1. Len(NoJob.body) = 0
      BY <1>2, EmptyText, Zenon
    <3>2. NoJob.size = 0
      BY <1>2, Zenon
    <3> QED
      BY <3>1, <3>2
  <2> QED
    BY <1>2, <2>1, <2>2, Zenon DEF Placed
<1>5. Whole(fs, NoJob)
  BY <1>2 DEF Whole
<1> QED
  BY <1>1, <1>3, <1>4, <1>5 DEF JobOK

(* An answer ends the job, and nothing else of it changes.                 *)
Ended(j, a, r) ==
    /\ IsJob(r)
    /\ r.at = "idle" /\ r.req = j.req /\ r.url = j.url /\ r.nr = j.nr
    /\ r.size = j.size /\ r.body = j.body /\ r.quiet = j.quiet /\ r.held = j.held
    /\ r.answer.by = a.by /\ r.answer.nr = a.nr /\ r.answer.body = a.body
    /\ r.answer.url = j.url
    /\ r.answer.type \in {a.type, "application/octet-stream"}

LEMMA AnswerEnds ==
    ASSUME NEW j, IsJob(j), NEW a, DOMAIN a = DOMAIN NoAnswer
    PROVE  Ended(j, a, Answered(j, a))
<1> DEFINE t == IF a.type = "" /\ a.body # <<>> THEN "application/octet-stream" ELSE a.type
           b == [a EXCEPT !.url = j.url, !.type = t]
<1>1. Answered(j, a) = [j EXCEPT !.at = "idle", !.answer = b]
  BY DEF Answered, NoAnswer
<1>2. /\ DOMAIN b = {"status", "by", "nr", "url", "body", "type"}
      /\ b.by = a.by /\ b.nr = a.nr /\ b.body = a.body /\ b.url = j.url
      /\ b.type = t
  BY DEF NoAnswer
<1>3. t \in {a.type, "application/octet-stream"}
  OBVIOUS
<1> HIDE DEF b, t
<1> QED
  BY <1>1, <1>2, <1>3 DEF IsJob, Ended

LEMMA RouterInit == Init => RouterInv
<1> SUFFICES ASSUME Init PROVE RouterInv
  OBVIOUS
<1>1. files \in [Path -> Text]
  <2>1. Initial \cup {Missing} \subseteq Text
    <3>1. Missing \in Text
      BY DEF Text, Missing
    <3> QED
      BY <3>1, SymbolsAreText, ContentAssumption
  <2> QED
    BY <2>1 DEF Init
<1>2. DOMAIN job = Worker /\ \A w \in Worker : job[w] = NoJob
  BY DEF Init
<1>3. \A w \in Worker : JobOK(registered, files, job[w])
  BY <1>2, NoJobOK
<1>4. {started, asset_dir} \subseteq BOOLEAN /\ asked \in 0 .. MaxRequests
  <2>1. MaxRequests \in Nat
    BY BoundAssumption
  <2>2. started \in BOOLEAN /\ asset_dir \in BOOLEAN /\ asked = 0
    BY DEF Init
  <2> QED
    BY <2>1, <2>2
<1> QED
  BY <1>1, <1>2, <1>3, <1>4, RoutersInit DEF RouterInv

(* A job goes on, and leaves the files alone.                              *)
LEMMA OneJob ==
    ASSUME RouterInv, started, NEW w \in Worker, NEW j, JobOK(registered, files, j),
           job' = [job EXCEPT ![w] = j], asked' \in 0 .. MaxRequests,
           UNCHANGED <<started, asset_dir, routers, registered, files>>
    PROVE  RouterInv'
<1>1. /\ DOMAIN job' = Worker
      /\ \A v \in Worker : job'[v] = IF v = w THEN j ELSE job[v]
  BY DEF RouterInv
<1>2. ASSUME NEW v \in Worker PROVE JobOK(registered', files', job'[v])
  BY <1>1 DEF RouterInv
<1>3. RoutersOK'
  BY RoutersStay DEF RouterInv
<1>4. started' /\ {started', asset_dir'} \subseteq BOOLEAN
  BY DEF RouterInv
<1> QED
  BY <1>1, <1>2, <1>3, <1>4 DEF RouterInv

(* When a file changes the jobs it belongs to are not quiet any more.      *)
LEMMA DisturbedOK ==
    ASSUME NEW reg, NEW fs \in [Path -> Text], NEW p \in Path, NEW c \in Text, NEW j,
           JobOK(reg, fs, j)
    PROVE  JobOK(reg, [fs EXCEPT ![p] = c],
                 IF j.at # "idle" /\ WithIndex(j.req.url) = p
                 THEN [j EXCEPT !.quiet = FALSE] ELSE j)
<1> DEFINE fs2 == [fs EXCEPT ![p] = c]
           k == [j EXCEPT !.quiet = FALSE]
<1>1. CASE j.at # "idle" /\ WithIndex(j.req.url) = p
  <2>1. /\ IsJob(k) /\ ~k.quiet
        /\ k.at = j.at /\ k.req = j.req /\ k.url = j.url /\ k.nr = j.nr /\ k.size = j.size
        /\ k.body = j.body /\ k.held = j.held /\ k.answer = j.answer
    BY DEF JobOK, IsJob
  <2> HIDE DEF k
  <2>2. Routed(reg, k)
    BY <2>1, Zenon DEF JobOK, Routed
  <2>3. Placed(k)
    BY <2>1, Zenon DEF JobOK, Placed
  <2> QED
    BY <1>1, <2>1, <2>2, <2>3, Zenon DEF JobOK, k
<1>2. CASE j.at = "idle"
  BY <1>2 DEF JobOK, Whole
<1>3. CASE j.at # "idle" /\ WithIndex(j.req.url) # p
  <2>1. j.req \in Request
    BY <1>3 DEF JobOK, Placed
  <2>2. WithIndex(j.req.url) \in Path /\ fs2[WithIndex(j.req.url)] = fs[WithIndex(j.req.url)]
    BY <1>3, <2>1 DEF Path
  <2>3. j.at = "write" => WithIndex(j.req.url) = j.url
    BY DEF JobOK, Placed, WithIndex
  <2>4. Whole(fs, j) => Whole(fs2, j)
    BY <2>2, <2>3 DEF Whole
  <2> QED
    BY <1>3, <2>4 DEF JobOK
<1> QED
  BY <1>1, <1>2, <1>3

LEMMA FileChanges ==
    ASSUME RouterInv, NEW p \in Path, NEW c \in Text, NEW others \in SUBSET Worker,
           files' = [files EXCEPT ![p] = c],
           DOMAIN job' = Worker,
           \A v \in others : job'[v] = Disturbed(others, p)[v],
           \A v \in Worker \ others : JobOK(registered, files', job'[v]),
           ~started => others = Worker,
           UNCHANGED <<started, asset_dir, routers, registered, asked>>
    PROVE  RouterInv'
<1>1. ASSUME NEW v \in Worker PROVE JobOK(registered, files', job'[v])
  <2>1. CASE v \in others
    <3>1. job'[v] = IF job[v].at # "idle" /\ WithIndex(job[v].req.url) = p
                    THEN [job[v] EXCEPT !.quiet = FALSE] ELSE job[v]
      BY <2>1 DEF Disturbed
    <3>2. JobOK(registered, files, job[v]) /\ files \in [Path -> Text]
      BY DEF RouterInv
    <3> QED
      BY <3>1, <3>2, DisturbedOK
  <2> QED
    BY <2>1
<1>2. RoutersOK'
  BY RoutersStay DEF RouterInv
<1>3. files' \in [Path -> Text]
  BY DEF RouterInv
<1>4. ~started' => \A v \in Worker : job'[v] = NoJob
  <2> SUFFICES ASSUME ~started, NEW v \in Worker PROVE job'[v] = NoJob
    OBVIOUS
  <2>1. job[v] = NoJob /\ v \in others
    BY DEF RouterInv
  <2>2. NoJob.at = "idle"
    BY DEF NoJob
  <2> QED
    BY <2>1, <2>2 DEF Disturbed
<1>5. {started', asset_dir'} \subseteq BOOLEAN /\ asked' \in 0 .. MaxRequests
  BY DEF RouterInv
<1> QED
  BY <1>1, <1>2, <1>3, <1>4, <1>5 DEF RouterInv

LEMMA Begun == ASSUME RouterInv, NEW w \in Worker, job[w].at # "idle" PROVE started
<1>1. ~started => job[w] = NoJob
  BY DEF RouterInv
<1>2. NoJob.at = "idle"
  BY DEF NoJob
<1> QED
  BY <1>1, <1>2

-----------------------------------------------------------------------------
(* Each step of a worker. *)

LEMMA ReceiveStep ==
    ASSUME RouterInv, NEW w \in Worker, NEW r \in Request, Receive(w, r)
    PROVE  RouterInv'
<1> DEFINE j == [NoJob EXCEPT !.at = "route", !.req = r, !.url = r.url,
                              !.held = files[WithIndex(r.url)]]
<1>1. /\ IsJob(j)
      /\ j.at = "route" /\ j.req = r /\ j.held = files[WithIndex(r.url)]
      /\ j.body = NoJob.body /\ j.size = NoJob.size /\ j.answer = NoJob.answer
  BY DEF IsJob, NoJob, NoAnswer
<1>2. NoJob.answer.by = "" /\ NoJob.answer.type = "" /\ NoJob.body = <<>>
  BY DEF NoJob, NoAnswer
<1>3. started /\ job' = [job EXCEPT ![w] = j] /\ asked' \in 0 .. MaxRequests
  BY BoundAssumption DEF Receive, RouterInv
<1> HIDE DEF j
<1>4. Routed(registered, j)
  BY <1>1, <1>2 DEF Routed
<1>5. Placed(j)
  BY <1>1, <1>2, NoJobOK, Zenon DEF JobOK, Placed
<1>6. Whole(files, j)
  BY <1>1 DEF Whole
<1>7. UNCHANGED <<started, asset_dir, routers, registered, files>>
  BY DEF Receive
<1> QED
  BY <1>1, <1>3, <1>4, <1>5, <1>6, <1>7, OneJob DEF JobOK

LEMMA RouteStaticStep ==
    ASSUME RouterInv, NEW w \in Worker, RouteStatic(w)
    PROVE  RouterInv'
<1> DEFINE i == job[w]
           j == [i EXCEPT !.at = "open", !.url = StaticUrl(i.req)]
<1>1. JobOK(registered, files, i) /\ i.at = "route"
  BY DEF RouterInv, RouteStatic
<1>2. started
  BY <1>1, Begun
<1>3. /\ IsJob(j)
      /\ j.at = "open" /\ j.req = i.req /\ j.url = StaticUrl(i.req) /\ j.size = i.size
      /\ j.body = i.body /\ j.quiet = i.quiet /\ j.held = i.held /\ j.answer = i.answer
  BY <1>1 DEF JobOK, IsJob
<1>4. job' = [job EXCEPT ![w] = j]
  BY DEF RouteStatic
<1>5. /\ UNCHANGED <<started, asset_dir, routers, registered, files>>
      /\ asked' \in 0 .. MaxRequests
  BY DEF RouteStatic, RouterInv
<1>6. StaticUrl(i.req) = WithIndex(i.req.url) /\ files[WithIndex(i.req.url)] # Missing
  BY DEF RouteStatic, IsStatic, StaticUrl
<1> HIDE DEF i, j
<1>7. Routed(registered, j)
  BY <1>1, <1>3 DEF JobOK, Routed
<1>8. Placed(j)
  BY <1>1, <1>3, <1>6, Zenon DEF JobOK, Placed
<1>9. j.quiet => Whole(files, j)
  BY <1>1, <1>3, <1>6 DEF JobOK, Whole
<1> QED
  BY <1>2, <1>3, <1>4, <1>5, <1>7, <1>8, <1>9, OneJob DEF JobOK

LEMMA DispatcherStep ==
    ASSUME RouterInv, NEW w \in Worker, Dispatcher(w)
    PROVE  RouterInv'
<1> DEFINE i == job[w]
           r == i.req
           j == [i EXCEPT !.url = StaticUrl(r)]
           n == RouterOf(r.method)[Min(Matches(r))].nr
           a404 == [NoAnswer EXCEPT !.status = 404, !.by = "nothing"]
           a200 == [NoAnswer EXCEPT !.status = 200, !.by = "handler", !.nr = n,
                                    !.body = r.body, !.type = "text/plain"]
           put  == [j EXCEPT !.at = "truncate", !.nr = n]
<1>1. JobOK(registered, files, i) /\ i.at = "route"
  BY DEF RouterInv, Dispatcher
<1>2. started
  BY <1>1, Begun
<1>3. r \in Request
  BY <1>1 DEF JobOK, Placed
<1>4. /\ IsJob(j)
      /\ j.url = StaticUrl(r) /\ j.at = i.at /\ j.req = i.req /\ j.nr = i.nr /\ j.size = i.size
      /\ j.body = i.body /\ j.quiet = i.quiet /\ j.held = i.held /\ j.answer = i.answer
  BY <1>1 DEF JobOK, IsJob
<1>5. /\ Matches(r) = {} => Usable(registered, r, StaticUrl(r)) = {}
      /\ Matches(r) # {} => IsFirst(registered, r, StaticUrl(r), n)
  BY <1>3, FirstMatch DEF RouterInv
<1>6. /\ UNCHANGED <<started, asset_dir, routers, registered, files>>
      /\ asked' \in 0 .. MaxRequests
  BY DEF Dispatcher, RouterInv
<1>7. job' = [job EXCEPT ![w] = IF Matches(r) = {} THEN Answered(j, a404)
                                ELSE IF r.method = "PUT" THEN put ELSE Answered(j, a200)]
  BY DEF Dispatcher
<1>8. /\ DOMAIN a404 = DOMAIN NoAnswer /\ a404.by = "nothing" /\ a404.type = ""
      /\ DOMAIN a200 = DOMAIN NoAnswer /\ a200.by = "handler" /\ a200.nr = n
      /\ a200.type = "text/plain"
  BY DEF NoAnswer
<1>9. /\ IsJob(put)
      /\ put.url = j.url /\ put.at = "truncate" /\ put.req = j.req /\ put.nr = n
      /\ put.size = j.size /\ put.body = j.body /\ put.answer = j.answer
  BY <1>4 DEF IsJob
<1>10. r.method = "PUT" => StaticUrl(r) = r.url
  BY DEF StaticUrl, MayBeStatic
<1> HIDE DEF i, r, j, n, a404, a200, put
<1>11. CASE Matches(r) = {}
  <2> DEFINE q == Answered(j, a404)
  <2>0. Ended(j, a404, q)
    BY <1>4, <1>8, AnswerEnds
  <2>1. /\ IsJob(q) /\ q.at = "idle" /\ q.req = j.req /\ q.size = j.size /\ q.body = j.body
        /\ q.answer.by = "nothing" /\ q.answer.url = j.url
        /\ q.answer.type \in {"", "application/octet-stream"}
    BY <1>8, <2>0 DEF Ended
  <2>2. job' = [job EXCEPT ![w] = q]
    BY <1>7, <1>11
  <2> HIDE DEF q
  <2>3. Routed(registered, q)
    BY <1>4, <1>5, <1>11, <2>1 DEF Routed, r
  <2>4. Placed(q)
    BY <1>1, <1>4, <2>1, Zenon DEF JobOK, Placed
  <2>5. Whole(files, q)
    BY <2>1 DEF Whole
  <2> QED
    BY <1>2, <1>6, <2>1, <2>2, <2>3, <2>4, <2>5, OneJob DEF JobOK
<1>12. CASE Matches(r) # {} /\ r.method = "PUT"
  <2>1. job' = [job EXCEPT ![w] = put]
    BY <1>7, <1>12
  <2>2. Routed(registered, put)
    BY <1>1, <1>4, <1>5, <1>9, <1>12, Zenon DEF JobOK, Routed, r
  <2>3. Placed(put)
    BY <1>1, <1>3, <1>4, <1>9, <1>10, <1>12, Zenon DEF JobOK, Placed, r
  <2>4. Whole(files, put)
    BY <1>9 DEF Whole
  <2> QED
    BY <1>2, <1>6, <1>9, <2>1, <2>2, <2>3, <2>4, OneJob DEF JobOK
<1>13. CASE Matches(r) # {} /\ r.method # "PUT"
  <2> DEFINE q == Answered(j, a200)
  <2>0. Ended(j, a200, q)
    BY <1>4, <1>8, AnswerEnds
  <2>1. /\ IsJob(q) /\ q.at = "idle" /\ q.req = j.req /\ q.size = j.size /\ q.body = j.body
        /\ q.answer.by = "handler" /\ q.answer.nr = n /\ q.answer.url = j.url
        /\ q.answer.type \in {"text/plain", "application/octet-stream"}
    BY <1>8, <2>0 DEF Ended
  <2>2. job' = [job EXCEPT ![w] = q]
    BY <1>7, <1>13
  <2> HIDE DEF q
  <2>3. Routed(registered, q)
    BY <1>4, <1>5, <1>13, <2>1 DEF Routed, r
  <2>4. Placed(q)
    BY <1>1, <1>4, <2>1, Zenon DEF JobOK, Placed
  <2>5. Whole(files, q)
    BY <2>1 DEF Whole
  <2> QED
    BY <1>2, <1>6, <2>1, <2>2, <2>3, <2>4, <2>5, OneJob DEF JobOK
<1> QED
  BY <1>11, <1>12, <1>13

(* A file is answered: what is left to show of the body.                   *)
LEMMA FileAnswered ==
    ASSUME RouterInv, NEW w \in Worker, job[w].at # "idle",
           NEW body, NEW type \in {"", "type of the file"},
           type = "type of the file" => body \in Text,
           job[w].quiet => body = job[w].held,
           job' = [job EXCEPT ![w] = Static(job[w], body, type)],
           UNCHANGED <<started, asset_dir, routers, registered, files, asked>>
    PROVE  RouterInv'
<1> DEFINE i == job[w]
           a == [NoAnswer EXCEPT !.status = 200, !.by = "file", !.body = body, !.type = type]
           q == Answered(i, a)
<1>1. JobOK(registered, files, i)
  BY DEF RouterInv
<1>2. started
  BY Begun
<1>3. DOMAIN a = DOMAIN NoAnswer /\ a.by = "file" /\ a.body = body /\ a.type = type
  BY DEF NoAnswer
<1>4. job' = [job EXCEPT ![w] = q]
  BY DEF Static
<1> HIDE DEF a
<1>5. Ended(i, a, q)
  BY <1>1, <1>3, AnswerEnds DEF JobOK
<1> HIDE DEF i, q
<1>6. /\ IsJob(q) /\ q.at = "idle" /\ q.req = i.req /\ q.size = i.size /\ q.body = i.body
      /\ q.quiet = i.quiet /\ q.held = i.held
      /\ q.answer.by = "file" /\ q.answer.body = body
      /\ q.answer.type \in {type, "application/octet-stream"}
  BY <1>3, <1>5 DEF Ended
<1>7. Routed(registered, q)
  BY <1>6 DEF Routed
<1>8. Placed(q)
  BY <1>1, <1>6, Zenon DEF JobOK, Placed
<1>9. q.quiet => Whole(files, q)
  BY <1>6 DEF Whole, i
<1>10. asked' \in 0 .. MaxRequests
  BY DEF RouterInv
<1> QED
  BY <1>2, <1>4, <1>6, <1>7, <1>8, <1>9, <1>10, OneJob DEF JobOK

LEMMA OpenStep ==
    ASSUME RouterInv, NEW w \in Worker, Open(w)
    PROVE  RouterInv'
<1> DEFINE i == job[w]
           j == [i EXCEPT !.at = "read", !.size = Len(files[i.url])]
<1>1. JobOK(registered, files, i) /\ i.at = "open"
  BY DEF RouterInv, Open
<1>2. i.url = WithIndex(i.req.url) /\ i.req \in Request /\ i.body = <<>>
  BY <1>1 DEF JobOK, Placed
<1>3. UNCHANGED <<started, asset_dir, routers, registered, files, asked>>
  BY DEF Open
<1>4. CASE files[i.url] = Missing
  <2>1. job' = [job EXCEPT ![w] = Static(job[w], <<>>, "")]
    BY <1>4 DEF Open
  <2>2. ~job[w].quiet
    BY <1>1, <1>2, <1>4 DEF JobOK, Whole
  <2> QED
    BY <1>1, <1>3, <2>1, <2>2, FileAnswered
<1>5. CASE files[i.url] # Missing
  <2>1. job' = [job EXCEPT ![w] = j]
    BY <1>5 DEF Open
  <2>2. /\ IsJob(j)
        /\ j.at = "read" /\ j.req = i.req /\ j.url = i.url /\ j.size = Len(files[i.url])
        /\ j.body = i.body /\ j.quiet = i.quiet /\ j.held = i.held /\ j.answer = i.answer
    BY <1>1 DEF JobOK, IsJob
  <2>3. files[i.url] \in Text
    BY <1>2 DEF RouterInv, Path
  <2>4. Len(files[i.url]) \in Nat
    BY <2>3 DEF Text
  <2> HIDE DEF i, j
  <2>5. Routed(registered, j)
    BY <1>1, <2>2 DEF JobOK, Routed
  <2>6. Placed(j)
    <3>1. j.body \in Text /\ j.size \in Nat /\ Len(j.body) = 0
      BY <1>2, <2>2, <2>4, EmptyText
    <3>2. Len(j.body) <= j.size
      BY <3>1
    <3> QED
      BY <1>1, <1>2, <2>2, <3>1, <3>2, Zenon DEF JobOK, Placed
  <2>7. j.quiet => Whole(files, j)
    <3>1. Len(j.body) = 0
      BY <1>2, <2>2, EmptyText
    <3> QED
      BY <1>1, <1>2, <2>2, <3>1 DEF JobOK, Whole
  <2>8. started /\ asked' \in 0 .. MaxRequests
    BY <1>1, <1>3, Begun DEF RouterInv, i
  <2> QED
    BY <1>3, <2>1, <2>2, <2>5, <2>6, <2>7, <2>8, OneJob DEF JobOK
<1> QED
  BY <1>4, <1>5

LEMMA ReadStep ==
    ASSUME RouterInv, NEW w \in Worker, Read(w)
    PROVE  RouterInv'
<1> DEFINE i == job[w]
           n == Len(i.body)
           file == files[i.url]
<1>1. JobOK(registered, files, i) /\ i.at = "read"
  BY DEF RouterInv, Read
<1>2. /\ i.url = WithIndex(i.req.url) /\ i.req \in Request
      /\ i.body \in Text /\ i.size \in Nat /\ n <= i.size /\ n \in Nat
  <2>1. /\ i.url = WithIndex(i.req.url) /\ i.req \in Request
        /\ i.body \in Text /\ i.size \in Nat /\ n <= i.size
    BY <1>1 DEF JobOK, Placed
  <2>2. n \in Nat
    BY <2>1 DEF Text
  <2> QED
    BY <2>1, <2>2
<1>3. file \in Text /\ Len(file) \in Nat
  BY <1>2 DEF RouterInv, Path, Text
<1>4. i.quiet => /\ file = i.held /\ i.size = Len(file)
                 /\ \A k \in 1 .. n : i.body[k] = file[k]
  BY <1>1, <1>2 DEF JobOK, Whole
<1>5. UNCHANGED <<started, asset_dir, routers, registered, files, asked>>
  BY DEF Read
<1>6. CASE n = i.size
  <2>1. job' = [job EXCEPT ![w] = Static(job[w], i.body, "type of the file")]
    BY <1>6 DEF Read
  <2>2. i.quiet => i.body = file
    <3> SUFFICES ASSUME i.quiet PROVE i.body = file
      OBVIOUS
    <3>1. Len(i.body) = Len(file) /\ \A k \in 1 .. Len(file) : i.body[k] = file[k]
      BY <1>4, <1>6
    <3> QED
      BY <1>2, <1>3, <3>1 DEF Text
  <2>3. i.quiet => i.body = i.held
    BY <1>4, <2>2
  <2> QED
    BY <1>1, <1>2, <1>5, <2>1, <2>3, FileAnswered
<1>7. CASE n # i.size /\ ~(n < Len(file))
  <2>1. job' = [job EXCEPT ![w] =
                  Static(job[w], i.body \o [k \in 1 .. i.size - n |-> Zero], "")]
    BY <1>7 DEF Read
  <2>2. i.quiet => FALSE
    BY <1>2, <1>3, <1>4, <1>7
  <2> QED
    BY <1>1, <1>5, <2>1, <2>2, FileAnswered
<1>8. CASE n # i.size /\ n < Len(file)
  <2> DEFINE body == Append(i.body, file[n + 1])
             j == [i EXCEPT !.body = body]
  <2>1. job' = [job EXCEPT ![w] = j]
    BY <1>8 DEF Read
  <2>2. /\ IsJob(j)
        /\ j.at = "read" /\ j.req = i.req /\ j.url = i.url /\ j.size = i.size
        /\ j.body = body /\ j.quiet = i.quiet /\ j.held = i.held /\ j.answer = i.answer
    BY <1>1 DEF JobOK, IsJob
  <2>3. /\ body \in Text /\ Len(body) = n + 1
        /\ \A k \in 1 .. n : body[k] = i.body[k]
        /\ body[n + 1] = file[n + 1]
    BY <1>2, <1>3, <1>8 DEF Text
  <2> HIDE DEF i, file, body, j
  <2>4. Routed(registered, j)
    BY <1>1, <2>2 DEF JobOK, Routed
  <2>5. Placed(j)
    <3>1. j.body \in Text /\ j.size \in Nat /\ Len(j.body) <= j.size
      BY <1>2, <1>8, <2>2, <2>3
    <3> QED
      BY <1>1, <1>2, <2>2, <3>1, Zenon DEF JobOK, Placed
  <2>6. j.quiet => Whole(files, j)
    <3> SUFFICES ASSUME i.quiet PROVE Whole(files, j)
      BY <2>2
    <3>1. files[WithIndex(j.req.url)] = j.held
      BY <1>2, <1>4, <2>2 DEF file
    <3>2. j.size = Len(j.held)
      BY <1>4, <2>2
    <3>3. \A k \in 1 .. Len(j.body) : j.body[k] = j.held[k]
      BY <1>2, <1>4, <2>2, <2>3
    <3> QED
      BY <2>2, <3>1, <3>2, <3>3 DEF Whole
  <2>7. started /\ asked' \in 0 .. MaxRequests
    BY <1>1, <1>5, Begun DEF RouterInv, i
  <2> QED
    BY <1>5, <2>1, <2>2, <2>4, <2>5, <2>6, <2>7, OneJob DEF JobOK
<1> QED
  BY <1>6, <1>7, <1>8

LEMMA PutAnswered ==
    ASSUME NEW reg, NEW fs, NEW i, JobOK(reg, fs, i), i.at \in {"truncate", "write"}
    PROVE  /\ IsJob(Put(i)) /\ Routed(reg, Put(i)) /\ Placed(Put(i))
           /\ Put(i).at = "idle" /\ Put(i).req = i.req /\ Put(i).quiet = i.quiet
           /\ Put(i).answer.by = "put" /\ Put(i).answer.url = i.url
<1> DEFINE a == [NoAnswer EXCEPT !.status = 200, !.by = "put", !.nr = i.nr]
           q == Answered(i, a)
<1>1. DOMAIN a = DOMAIN NoAnswer /\ a.by = "put" /\ a.nr = i.nr /\ a.type = ""
  BY DEF NoAnswer
<1> HIDE DEF a
<1>2. Ended(i, a, q)
  BY <1>1, AnswerEnds DEF JobOK
<1>3. q = Put(i)
  BY DEF Put, a
<1> HIDE DEF q
<1>4. /\ IsJob(q) /\ q.at = "idle" /\ q.req = i.req /\ q.size = i.size /\ q.body = i.body
      /\ q.quiet = i.quiet
      /\ q.answer.by = "put" /\ q.answer.nr = i.nr /\ q.answer.url = i.url
      /\ q.answer.type \in {"", "application/octet-stream"}
  BY <1>1, <1>2 DEF Ended
<1>5. Routed(reg, q)
  BY <1>4 DEF JobOK, Routed
<1>6. Placed(q)
  BY <1>4, Zenon DEF JobOK, Placed
<1> QED
  BY <1>3, <1>4, <1>5, <1>6

LEMMA TruncateStep ==
    ASSUME RouterInv, NEW w \in Worker, Truncate(w)
    PROVE  RouterInv'
<1> DEFINE i == job[w]
           j == [i EXCEPT !.at = "write"]
<1>1. JobOK(registered, files, i) /\ i.at = "truncate"
  BY DEF RouterInv, Truncate
<1>2. i.url = i.req.url /\ i.req \in Request
  BY <1>1 DEF JobOK, Placed
<1>3. UNCHANGED <<started, asset_dir, routers, registered, asked>>
  BY DEF Truncate
<1>4. started
  BY <1>1, Begun
<1>5. CASE i.url \in Directory
  <2>1. job' = [job EXCEPT ![w] = Put(i)] /\ UNCHANGED files
    BY <1>5 DEF Truncate
  <2>2. Whole(files, Put(i))
    BY <1>1, <1>5, PutAnswered DEF Whole
  <2>3. JobOK(registered, files, Put(i))
    BY <1>1, <2>2, PutAnswered DEF JobOK
  <2>4. asked' \in 0 .. MaxRequests
    BY <1>3 DEF RouterInv
  <2> QED
    BY <1>3, <1>4, <2>1, <2>3, <2>4, OneJob
<1>6. CASE i.url \notin Directory
  <2> DEFINE others == Worker \ {w}
             fs == [files EXCEPT ![i.url] = <<>>]
  <2>1. job' = [Disturbed(others, i.url) EXCEPT ![w] = j] /\ files' = fs
    BY <1>6 DEF Truncate
  <2>2. /\ DOMAIN job' = Worker /\ job'[w] = j
        /\ \A v \in others : job'[v] = Disturbed(others, i.url)[v]
    BY <2>1 DEF Disturbed
  <2>3. i.url \in Path
    BY <1>2, <1>6 DEF Path, WithIndex
  <2>4. fs[i.url] = <<>>
    BY <2>3 DEF RouterInv
  <2>5. /\ IsJob(j)
        /\ j.at = "write" /\ j.req = i.req /\ j.url = i.url /\ j.nr = i.nr /\ j.size = i.size
        /\ j.body = i.body /\ j.answer = i.answer
    BY <1>1 DEF JobOK, IsJob
  <2> HIDE DEF i, j, fs
  <2>6. Routed(registered, j)
    BY <1>1, <2>5 DEF JobOK, Routed
  <2>7. Placed(j)
    BY <1>1, <1>2, <1>6, <2>5, Zenon DEF JobOK, Placed
  <2>8. Whole(fs, j)
    BY <2>4, <2>5 DEF Whole
  <2>9. JobOK(registered, fs, j)
    BY <2>5, <2>6, <2>7, <2>8 DEF JobOK
  <2>10. \A v \in Worker \ others : JobOK(registered, files', job'[v])
    BY <2>1, <2>2, <2>9
  <2> QED
    BY <1>3, <1>4, <2>1, <2>2, <2>3, <2>10, EmptyText, FileChanges DEF fs
<1> QED
  BY <1>5, <1>6

LEMMA WriteStep ==
    ASSUME RouterInv, NEW w \in Worker, Write(w)
    PROVE  RouterInv'
<1> DEFINE i == job[w]
           file == files[i.url]
           body == i.req.body
           content == body \o SubSeq(file, Len(body) + 1, Len(file))
           others == Worker \ {w}
           fs == [files EXCEPT ![i.url] = content]
           j == [Put(i) EXCEPT !.held = content]
<1>1. JobOK(registered, files, i) /\ i.at = "write"
  BY DEF RouterInv, Write
<1>2. i.url = i.req.url /\ i.req \in Request /\ i.url \notin Directory
  BY <1>1 DEF JobOK, Placed
<1>3. UNCHANGED <<started, asset_dir, routers, registered, asked>>
  BY DEF Write
<1>4. started
  BY <1>1, Begun
<1>5. i.url \in Path
  BY <1>2 DEF Path, WithIndex
<1>6. body \in Text /\ file \in Text
  BY <1>2, <1>5, SymbolsAreText, ContentAssumption DEF RouterInv
<1>7. content \in Text
  BY <1>6 DEF Text
<1>8. i.quiet => content = body
  <2> SUFFICES ASSUME i.quiet PROVE content = body
    OBVIOUS
  <2>1. file = <<>>
    BY <1>1 DEF JobOK, Whole
  <2>2. SubSeq(file, Len(body) + 1, Len(file)) = <<>>
    BY <1>6, <2>1 DEF Text
  <2>3. body \o <<>> = body
    BY <1>6 DEF Text
  <2> QED
    BY <2>2, <2>3
<1>9. job' = [Disturbed(others, i.url) EXCEPT ![w] = j] /\ files' = fs
  BY DEF Write
<1>10. /\ DOMAIN job' = Worker /\ job'[w] = j
       /\ \A v \in others : job'[v] = Disturbed(others, i.url)[v]
  BY <1>9 DEF Disturbed
<1> HIDE DEF content
<1>11. /\ IsJob(j)
       /\ j.at = "idle" /\ j.req = i.req /\ j.url = Put(i).url /\ j.nr = Put(i).nr
       /\ j.size = Put(i).size /\ j.body = Put(i).body /\ j.answer = Put(i).answer
       /\ j.held = content /\ j.quiet = i.quiet
       /\ j.answer.by = "put"
  BY <1>1, PutAnswered DEF IsJob
<1>12. Routed(registered, Put(i)) /\ Placed(Put(i)) /\ Put(i).at = "idle" /\ Put(i).req = i.req
  BY <1>1, PutAnswered
<1> HIDE DEF i, j, fs, body
<1>13. Routed(registered, j)
  BY <1>11, <1>12 DEF Routed
<1>14. Placed(j)
  BY <1>11, <1>12, Zenon DEF Placed
<1>15. j.quiet => Whole(fs, j)
  BY <1>8, <1>11 DEF Whole, body
<1>16. JobOK(registered, fs, j)
  BY <1>11, <1>13, <1>14, <1>15 DEF JobOK
<1>17. \A v \in Worker \ others : JobOK(registered, files', job'[v])
  BY <1>9, <1>10, <1>16
<1> QED
  BY <1>3, <1>4, <1>5, <1>7, <1>9, <1>10, <1>17, FileChanges DEF fs

LEMMA RemoveStep ==
    ASSUME RouterInv, NEW p \in Path, Remove(p)
    PROVE  RouterInv'
<1>1. /\ files' = [files EXCEPT ![p] = Missing] /\ job' = Disturbed(Worker, p)
      /\ UNCHANGED <<started, asset_dir, routers, registered, asked>>
  BY DEF Remove
<1>2. Missing \in Text
  BY DEF Missing, Text
<1>3. DOMAIN job' = Worker /\ \A v \in Worker : job'[v] = Disturbed(Worker, p)[v]
  BY <1>1 DEF Disturbed
<1> QED
  BY <1>1, <1>2, <1>3, FileChanges

LEMMA SetupStep ==
    ASSUME RouterInv,
           \/ \E dir \in BOOLEAN : SetAssetDir(dir)
           \/ \E m \in Method \ {"HEAD"}, pattern \in Pattern : AddMethod(m, pattern)
           \/ Start
    PROVE  RouterInv'
<1>1. /\ ~started
      /\ UNCHANGED <<files, job, asked>>
      /\ {started', asset_dir'} \subseteq BOOLEAN
      /\ RoutersOK'
  <2>1. CASE \E dir \in BOOLEAN : SetAssetDir(dir)
    BY <2>1, RoutersStay DEF SetAssetDir, RouterInv
  <2>2. CASE \E m \in Method \ {"HEAD"}, pattern \in Pattern : AddMethod(m, pattern)
    <3>1. PICK m \in Routable, pattern \in Pattern : AddMethod(m, pattern)
      BY <2>2 DEF Routable
    <3>2. RoutersOK'
      BY <3>1, RoutersAdded DEF RouterInv
    <3> QED
      BY <3>1, <3>2 DEF AddMethod, RouterInv
  <2>3. CASE Start
    BY <2>3, RoutersStay DEF Start, RouterInv
  <2> QED
    BY <2>1, <2>2, <2>3
<1>2. \A w \in Worker : job'[w] = NoJob
  BY <1>1 DEF RouterInv
<1>3. \A w \in Worker : JobOK(registered', files', job'[w])
  BY <1>2, NoJobOK
<1> QED
  BY <1>1, <1>2, <1>3 DEF RouterInv

LEMMA RouterStep == RouterInv /\ [Next]_vars => RouterInv'
<1> SUFFICES ASSUME RouterInv, [Next]_vars PROVE RouterInv'
  OBVIOUS
<1>1. CASE UNCHANGED vars
  <2>1. \A w \in Worker : JobOK(registered', files', job'[w])
    BY <1>1 DEF RouterInv, vars
  <2> QED
    BY <1>1, <2>1, RoutersStay DEF RouterInv, vars
<1>2. CASE \E w \in Worker : Serve(w)
  BY <1>2, RouteStaticStep, DispatcherStep, OpenStep, ReadStep, TruncateStep, WriteStep
     DEF Serve
<1>3. CASE \E w \in Worker, r \in Request : Receive(w, r)
  BY <1>3, ReceiveStep
<1>4. CASE \E p \in Path : Remove(p)
  BY <1>4, RemoveStep
<1> QED
  BY <1>1, <1>2, <1>3, <1>4, SetupStep DEF Next

LEMMA RouterCorrect == Spec => []RouterInv
  BY RouterInit, RouterStep, PTL DEF Spec

-----------------------------------------------------------------------------
(* The handler that answers is the first registered of those that match    *)
(* (http.hpp:730-760).                                                     *)
THEOREM FirstAnswers == Spec => []FirstRegisteredAnswers
<1>1. RouterInv => FirstRegisteredAnswers
  <2> SUFFICES ASSUME RouterInv, NEW w \in Worker
               PROVE  LET usable == Usable(registered, job[w].req, Given(w).url)
                      IN  /\ Given(w).by \in {"handler", "put"} =>
                                usable # {} /\ Given(w).nr = Min(usable)
                          /\ Given(w).by = "nothing" => usable = {}
    BY DEF FirstRegisteredAnswers, Usable, MethodOf
  <2>1. Routed(registered, job[w])
    BY DEF RouterInv, JobOK
  <2> QED
    BY <2>1 DEF Routed, IsFirst, Given
<1> QED
  BY <1>1, RouterCorrect, PTL

(* A file is served and stored whole, unless it is changed in the meantime, *)
(* and what has its type was read (http.hpp:175-204, main.cpp:26-31).      *)
THEOREM FilesCorrect == Spec => []FilesServed
<1>1. RouterInv => TypeOK
  <2> SUFFICES ASSUME RouterInv PROVE TypeOK
    OBVIOUS
  <2>1. ASSUME NEW m \in Routable, NEW k \in DOMAIN routers[m]
        PROVE  routers[m][k].pattern \in Pattern /\ routers[m][k].nr \in DOMAIN registered
    <3> DEFINE Entry == [pattern : Pattern, nr : Nat]
    <3>1. routers[m] \in Seq(Entry)
      BY DEF RouterInv, RoutersOK, RoutersAreKept
    <3>2. routers[m][k] \in Entry => routers[m][k].pattern \in Pattern
      OBVIOUS
    <3> HIDE DEF Entry
    <3>3. routers[m][k] \in Entry
      BY <3>1
    <3> QED
      BY <3>2, <3>3 DEF RouterInv, RoutersOK, RoutersAreKept
  <2>2. DOMAIN routers = Routable /\ DOMAIN files = Path
    BY DEF RouterInv, RoutersOK, RoutersAreKept
  <2>3. ASSUME NEW w \in Worker
        PROVE  /\ DOMAIN job[w] = DOMAIN NoJob
               /\ job[w].at \in {"idle", "route", "open", "read", "truncate", "write"}
               /\ Len(job[w].body) <= job[w].size
    <3>1. IsJob(job[w]) /\ Placed(job[w])
      BY DEF RouterInv, JobOK
    <3>2. DOMAIN job[w] = DOMAIN NoJob
      BY <3>1 DEF IsJob, NoJob
    <3> QED
      BY <3>1, <3>2 DEF Placed
  <2> QED
    BY <2>1, <2>2, <2>3 DEF TypeOK, RouterInv
<1>2. RouterInv => WholeUnlessConcurrent
  <2> SUFFICES ASSUME RouterInv, NEW w \in Worker, job[w].at = "idle", job[w].quiet
               PROVE  /\ Given(w).by = "file" => Given(w).body = job[w].held
                      /\ Given(w).by = "put" /\ Given(w).url \notin Directory =>
                            job[w].req.body = job[w].held
    BY DEF WholeUnlessConcurrent
  <2>1. Whole(files, job[w])
    BY DEF RouterInv, JobOK
  <2> QED
    BY <2>1 DEF Whole, Given
<1>3. RouterInv => TypedIsRead
  <2> SUFFICES ASSUME RouterInv, NEW w \in Worker, Given(w).type = "type of the file"
               PROVE  {k \in DOMAIN Given(w).body : Given(w).body[k] # Zero}
                         = DOMAIN Given(w).body
    BY DEF TypedIsRead
  <2> DEFINE S == Symbol \cup {"missing"}
             body == Given(w).body
  <2>1. body \in Seq(S)
    BY DEF RouterInv, JobOK, Placed, Given, Text
  <2>2. Zero \notin S
    BY ContentAssumption DEF Zero
  <2> HIDE DEF S, body
  <2>3. ASSUME NEW k \in DOMAIN body PROVE body[k] # Zero
    <3>1. body[k] \in S
      BY <2>1, ElementIn
    <3> QED
      BY <2>2, <3>1
  <2> QED
    BY <2>3 DEF body
<1> QED
  BY <1>1, <1>2, <1>3, RouterCorrect, PTL DEF FilesServed
=============================================================================
