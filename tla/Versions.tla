------------------------------- MODULE Versions -------------------------------
(***************************************************************************)
(* Which release of a mod a command takes: the version requirements        *)
(* (types/version.rs), the list of releases each provider answers with,    *)
(* and the choice from it, twice for a dependency: the resolver takes the  *)
(* latest and writes its number down, the installer asks again, perhaps    *)
(* after a release came or went, for that number.                          *)
(*                                                                         *)
(* A number is its dot-separated parts and its pre-release, 0 for none.    *)
(* Abstracted: the filters by game and loader (Modpack has the Connector's *)
(* second try), build metadata, dates that are equal, a request that fails *)
(* (nothing is chosen then) and the HTTP cache (HttpMeta): `listed` is     *)
(* what the cache answers.  What a provider lists is external; Modrinth    *)
(* and GitHub answer newest first, CurseForge in an order of its own.      *)
(***************************************************************************)
EXTENDS Integers, Sequences
Lists == INSTANCE SequencesExt

CONSTANTS
  Numbers,       \* [parts |-> up to three naturals, pre |-> natural]
  MaxReleases,   \* bound on the releases published
  MaxQuestions   \* bound on the commands that ask for one, the install of a
                 \* dependency apart

VersionsAssumption ==
  /\ \A n \in Numbers : n.parts \in Seq(Nat) /\ Len(n.parts) <= 3 /\ n.pre \in Nat
  /\ {MaxReleases, MaxQuestions} \subseteq Nat
ASSUME VersionsAssumption

\* The version of a file or a plain URL; it has no digit to compare.
Unknown == [parts |-> <<>>, pre |-> 0]
NoNumber == [parts |-> <<>>, pre |-> 1]

Sources == {"modrinth", "curseforge", "github", "file"}

VARIABLES
  source,   \* where the mod comes from
  listed,   \* its releases, in the provider's order; url: it has a JAR to download
  pinned,   \* the number the resolver chose for a dependency to be installed
  last,     \* (history) the question just asked, the releases it chose from, the choice
  count     \* releases published, questions asked

versionsVars == <<source, listed, pinned, last, count>>

Operators == {">=", "<=", ">", "<", "^", "~", "", "*"}
Req(op, number) == [op |-> op, number |-> number]
AnyVersion == Req("*", NoNumber)
Exact(number) == Req("", number)
NoReq == Req("none", NoNumber)  \* the command names no version

Question(req, from, choice) == [req |-> req, from |-> from, choice |-> choice]
NoQuestion == Question(NoReq, <<>>, {})

VersionsInit ==
  /\ source \in Sources
  /\ listed = <<>>
  /\ pinned = NoNumber
  /\ last = NoQuestion
  /\ count = [releases |-> 0, questions |-> 0]

----------------------------------------------------------------------------
\* Comparing.

\* parse_version_parts; a text without a leading number is not readable.
Numeric(v) == v.parts # <<>>
Full(v) == [i \in 1..3 |-> IF i \in DOMAIN v.parts THEN v.parts[i] ELSE 0]

\* Both numbers are canonical semver: three parts each.
SemverPair(v, t) == Len(v.parts) = 3 /\ Len(t.parts) = 3

\* Position in semver's order, where a pre-release comes before its release, or
\* among the digit tuples, where pre-releases do not count.
Position(v, semver) ==
  <<Full(v)[1], Full(v)[2], Full(v)[3],
    IF semver /\ v.pre # 0 THEN 0 ELSE 1, IF semver THEN v.pre ELSE 0>>

Below(a, b) ==
  \E i \in DOMAIN a : a[i] < b[i] /\ \A j \in 1 .. i - 1 : a[j] = b[j]

\* version_cmp with `<`; the other orders are made of it.
Less(v, t) == Below(Position(v, SemverPair(v, t)), Position(t, SemverPair(v, t)))

\* The semver crate lets a pre-release meet ^ and ~ only if the requirement names
\* one of the same numbers.
PreAllowed(v, t) == SemverPair(v, t) /\ v.pre # 0 => t.pre # 0 /\ Full(v) = Full(t)

\* Mistake: the branch for versions 0.x is missing.
CaretAnyZero(v, t) ==
  /\ ~ Less(v, t) /\ PreAllowed(v, t)
  /\ Full(v)[1] = Full(t)[1]

Caret(v, t) ==
  LET vs == Full(v)
      ts == Full(t)
  IN /\ ~ Less(v, t) /\ PreAllowed(v, t)
     /\ vs[1] = ts[1]
     /\ ts[1] = 0 => vs[2] = ts[2]
     /\ ts[1] = 0 /\ ts[2] = 0 => vs[3] = ts[3]

Tilde(v, t) ==
  LET vs == Full(v)
      ts == Full(t)
  IN /\ ~ Less(v, t) /\ PreAllowed(v, t)
     /\ vs[1] = ts[1]
     /\ vs[2] = ts[2] \/ (~ SemverPair(v, t) /\ ts[2] = 0)

\* VersionReq::matches
Matches(v, req) ==
  LET t == req.number
      comparable == Numeric(v) /\ Numeric(t)
  IN CASE req.op = "*"  -> TRUE
       [] req.op = ""   -> v = t
       [] req.op = ">=" -> comparable /\ ~ Less(v, t)
       [] req.op = "<=" -> comparable /\ ~ Less(t, v)
       [] req.op = ">"  -> comparable /\ Less(t, v)
       [] req.op = "<"  -> comparable /\ Less(v, t)
       [] req.op = "^"  -> comparable /\ Caret(v, t)
       [] req.op = "~"  -> comparable /\ Tilde(v, t)

\* VersionReq::parse refuses an operator without a version or before a space.
Requests == {Req(op, n) : op \in Operators \ {"*"}, n \in Numbers} \cup {AnyVersion}

----------------------------------------------------------------------------
\* The provider's side.

Publish(n) ==
  /\ count.releases < MaxReleases
  /\ count' = [count EXCEPT !.releases = @ + 1]
  /\ \E url \in BOOLEAN, i \in 1 .. Len(listed) + 1 :
       /\ i = 1 \/ source = "curseforge"
       /\ listed' = Lists!InsertAt(listed, i, [number |-> n, day |-> count'.releases, url |-> url])
  /\ last' = NoQuestion
  /\ UNCHANGED <<source, pinned>>

Withdraw(i) ==
  /\ listed' = Lists!RemoveAt(listed, i)
  /\ last' = NoQuestion
  /\ UNCHANGED <<source, pinned, count>>

ModrinthVersions == {listed}

\* Of what is left out only the places in the list remain: what is asked of a list
\* is which of two comes first.
OnList(s) == {s[i] : i \in DOMAIN s}
Those(kept) == [i \in {j \in DOMAIN listed : listed[j] \in kept} |-> listed[i]]
WithFile == {r \in OnList(listed) : r.url}

\* CurseForge's files without a link are looked up one by one; where that fails, the
\* file is left out.
FilesWithLink(found) == Those(WithFile \cup found)
CurseForgeVersions == {FilesWithLink(found) : found \in SUBSET OnList(listed)}

\* A GitHub release without a JAR among its assets is left out.
GitHubVersions == {Those(WithFile)}

\* One release without a number, whatever is there.
FileVersions == {<<[number |-> Unknown, day |-> 0, url |-> TRUE]>>}

\* Provider::get_versions, for a URL by classify_url.
GetVersions ==
  CASE source = "modrinth"   -> ModrinthVersions
    [] source = "curseforge" -> CurseForgeVersions
    [] source = "github"     -> GitHubVersions
    [] source = "file"       -> FileVersions

----------------------------------------------------------------------------
\* The command's side.

Newest(s) == {r \in OnList(s) : \A o \in OnList(s) : o.day <= r.day}
FirstMatch(s, req) ==
  {s[i] : i \in {j \in DOMAIN s :
     /\ Matches(s[j].number, req)
     /\ \A k \in DOMAIN s : k < j => ~ Matches(s[k].number, req)}}

Ask(question) == last' = question /\ UNCHANGED <<source, listed>>
NextQuestion ==
  /\ count.questions < MaxQuestions
  /\ count' = [count EXCEPT !.questions = @ + 1]

\* `add --version`
AddVersion(req) ==
  /\ NextQuestion
  /\ \E s \in GetVersions : Ask(Question(req, s, FirstMatch(s, req)))
  /\ UNCHANGED pinned

\* Provider::get_latest_version, for `add` and `update`
AddNewest ==
  /\ NextQuestion
  /\ \E s \in GetVersions : Ask(Question(NoReq, s, Newest(s)))
  /\ UNCHANGED pinned

\* resolve_mod; no caller gives it a requirement.
ResolveDep ==
  /\ pinned = NoNumber
  /\ NextQuestion
  /\ \E s \in GetVersions :
       /\ Ask(Question(NoReq, s, Newest(s)))
       /\ \E n \in {r.number : r \in Newest(s)} : pinned' = n

\* install_single_dep and install_deps parse the number as a requirement.
InstallDep ==
  /\ pinned # NoNumber
  /\ \E s \in GetVersions : Ask(Question(Exact(pinned), s, FirstMatch(s, Exact(pinned))))
  /\ pinned' = NoNumber
  /\ UNCHANGED count

VersionsNext ==
  \/ \E n \in Numbers : Publish(n)
  \/ \E i \in DOMAIN listed : Withdraw(i)
  \/ \E req \in Requests : AddVersion(req)
  \/ AddNewest \/ ResolveDep \/ InstallDep

VersionsSpec == VersionsInit /\ [][VersionsNext]_versionsVars

----------------------------------------------------------------------------
\* The reference: a requirement is an interval of numbers.

CaretEnd(t) == CASE Full(t)[1] # 0 -> <<Full(t)[1] + 1, 0, 0>>
                 [] Full(t)[1] = 0 /\ Full(t)[2] # 0 -> <<0, Full(t)[2] + 1, 0>>
                 [] OTHER -> <<0, 0, Full(t)[3] + 1>>

\* ~1.0 holds for all of 1.x where the digits are compared (a test says so), ~1.0.0
\* for 1.0.x only.
TildeEnd(v, t) == IF Full(t)[2] = 0 /\ ~ SemverPair(v, t)
                  THEN <<Full(t)[1] + 1, 0, 0>>
                  ELSE <<Full(t)[1], Full(t)[2] + 1, 0>>

InRange(v, req) ==
  LET t == req.number
      upto(end) == /\ ~ Less(v, t)
                   /\ Below(Full(v), end)
                   /\ SemverPair(v, t) /\ v.pre # 0 => Full(v) = Full(t)
      interval == req.op \in {"^", "~"} /\ Numeric(v) /\ Numeric(t)
  IN \/ req = NoReq
     \/ interval /\ upto(IF req.op = "^" THEN CaretEnd(t) ELSE TildeEnd(v, t))
     \/ ~ interval /\ Matches(v, req)

\* The release taken is one the provider offers, inside the interval of the
\* requirement, the newest where there is none, and nothing is refused that the
\* requirement admits: for ^ and ~ with any zeros, for numbers that mix two and three
\* parts, pre-releases, texts that are no version, and for a dependency that is
\* installed by number after its releases have changed.
RightVersion ==
  LET offered == OnList(last.from)
      fits == {r \in offered : InRange(r.number, last.req)}
  IN /\ last.choice \subseteq fits
     /\ fits # {} => last.choice # {}
     /\ last.req = NoReq => \A r \in last.choice, o \in offered : r.day >= o.day
=============================================================================
