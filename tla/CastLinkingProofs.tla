-------------------------- MODULE CastLinkingProofs --------------------------
(***************************************************************************)
(* Proofs about the link from a script to its member, for movies with any    *)
(* number of casts, contexts, scripts and members, shared in any way.       *)
(***************************************************************************)
EXTENDS CastLinking, SequenceTheorems, NumberLemmas

HasClaim(m, s) == \E claim \in ClaimsOf(m) : Entries(claim[1])[claim[2]] = s

CastRecords == [name : DOMAIN Clean, id : Int, minMember : Int, section : Int,
                lctx : SectionsAndNone]
ScriptRecords == [declared : Seq(Int), names : SectionsAndNone,
                  parsedWith : SectionsAndNone, factories : Seq(Int),
                  member : SectionsAndNone]

(* The inductive invariant.                                                *)
Control ==
  /\ movie \in Movies
  /\ phase \in {"casts", "context", "members", "parse", "dump", "restore", "done", "aborted"}
  /\ at \in Nat \ {0} /\ slot \in Nat \ {0}
  /\ phase \in {"context", "members"} => casts # <<>>

(* A cast is in the movie and has the context that the keys of one of its    *)
(* owners lead to.                                                         *)
LeadsTo(section, x) ==
  \E j \in DOMAIN casts : casts[j].section = section /\ Owns(casts[j].id, "Lctx", x)
CastsInv ==
  /\ casts \in Seq(CastRecords)
  /\ \A k \in DOMAIN casts :
       /\ casts[k].section \in DOMAIN movie.memberIDs
       /\ casts[k].lctx # None =>
            casts[k].lctx \in DOMAIN contexts /\ LeadsTo(casts[k].section, casts[k].lctx)

(* A context is as in the movie.                                            *)
ContextsInv ==
  \A x \in DOMAIN contexts :
    /\ x \in DOMAIN movie.contexts
    /\ contexts[x] = Entries(x)
    /\ \A n \in DOMAIN Entries(x) : Entries(x)[n] \in DOMAIN scripts

(* A script is in some context, its names are the last it was given, and so  *)
(* are those it is parsed with; a member it leads to asked for it.          *)
OfScript(s) ==
  /\ s \in Int
  /\ scripts[s] \in ScriptRecords
  /\ scripts[s].declared # <<>>
  /\ scripts[s].names = Last(scripts[s].declared)
  /\ scripts[s].parsedWith \in {None, scripts[s].names}
  /\ \A k \in DOMAIN scripts[s].factories : scripts[s].factories[k] \in DOMAIN scripts
  /\ \E x \in DOMAIN contexts : \E n \in DOMAIN Entries(x) : Entries(x)[n] = s
  /\ scripts[s].member # None => HasClaim(scripts[s].member, s)
ScriptsInv == \A s \in DOMAIN scripts : OfScript(s)

(* Nothing is parsed before all casts are read; then one cast after another  *)
(* is, and with the last one every script is, if no context was lost.       *)
ParsedScripts(k) ==
  \A n \in DOMAIN ScriptsOf(casts[k]) :
    scripts[ScriptsOf(casts[k])[n]].parsedWith = scripts[ScriptsOf(casts[k])[n]].names
ParsingInv ==
  /\ phase \in {"casts", "context", "members"} =>
       \A s \in DOMAIN scripts : scripts[s].parsedWith = None
  /\ phase = "parse" => \A k \in DOMAIN casts : k < at => ParsedScripts(k)
  /\ phase \in {"dump", "restore", "done"} /\ ContextsAreKept =>
       \A s \in DOMAIN scripts : scripts[s].parsedWith = scripts[s].names

(* A member has the text of the movie, or one that it asked for.            *)
OfMember(m) ==
  /\ members[m] = [number |-> members[m].number, text |-> members[m].text]
  /\ members[m].number \in Shorts
  /\ IsRestored(m) => IsText(members[m].text) /\ HasClaim(m, members[m].text.body.script)
MembersInv == \A m \in DOMAIN members : OfMember(m)
DumpedInv == \A p \in DOMAIN dumped : IsText(dumped[p])

(* What the links are, and what has been given, whatever the phase.         *)
Linked == CastsInv /\ ContextsInv /\ ScriptsInv
Given == MembersInv /\ DumpedInv
LinkInv == Control /\ Linked /\ ParsingInv /\ Given /\ GivesUpForAReason
-----------------------------------------------------------------------------
(* Every bounded set of numbers can be put in order.                        *)
IsInOrder(q, S) ==
  /\ q \in [1 .. Cardinality(S) -> S]
  /\ \A i, j \in DOMAIN q : i < j => q[i] < q[j]
LEMMA InOrderExists ==
  ASSUME NEW b \in Nat, NEW S, S \subseteq 0 .. b
  PROVE  IsInOrder(InOrder(S), S) /\ Cardinality(S) \in Nat
<1> DEFINE Bad == {T \in SUBSET S : \A q : ~IsInOrder(q, T)}
<1>1. IsFiniteSet(S) /\ \A T \in SUBSET S : IsFiniteSet(T) /\ Cardinality(T) \in Nat
  <2>1. IsFiniteSet(0 .. b)
    BY FS_Interval
  <2>2. IsFiniteSet(S)
    BY <2>1, FS_Subset
  <2>3. QED
    BY <2>2, FS_Subset, FS_CardinalityType
<1>2. ASSUME Bad # {}
      PROVE  FALSE
  <2>1. Bad \subseteq SUBSET S
    OBVIOUS
  <2>2. PICK T \in Bad : \A U \in Bad : U \subseteq T => U = T
    <3> HIDE DEF Bad
    <3>1. Bad \in SUBSET (SUBSET S) /\ Bad # {} /\ IsFiniteSet(S)
      BY <1>1, <1>2, <2>1
    <3>2. HasMinimal(Bad)
      BY <3>1, MinimalSubset
    <3>3. QED
      BY <3>2 DEF HasMinimal
  <2>3. CASE T = {}
    <3>1. IsInOrder(<<>>, {})
      BY FS_EmptySet DEF IsInOrder
    <3>2. QED
      BY <2>2, <2>3, <3>1
  <2>4. CASE T # {}
    <3> DEFINE e == Max(T)
               U == T \ {e}
               n == Cardinality(U)
    <3>1. e \in T /\ \A y \in T : e >= y
      BY <2>4, GreatestExists
    <3>2. n \in Nat /\ Cardinality(T) = n + 1
      BY <1>1, <3>1, FS_RemoveElement
    <3>3. PICK q : IsInOrder(q, U)
      BY <2>2, <3>1
    <3> HIDE DEF e, U, n
    <3> DEFINE r == [i \in 1 .. n + 1 |-> IF i = n + 1 THEN e ELSE q[i]]
    <3>4. \A i \in 1 .. n : q[i] \in U
      BY <3>3 DEF IsInOrder, n
    <3>5. \A y \in U : y \in T /\ y < e /\ y \in Nat
      BY <3>1 DEF U
    <3>6. r \in [1 .. Cardinality(T) -> T]
      BY <3>1, <3>2, <3>4, <3>5
    <3>7. \A i, j \in DOMAIN r : i < j => r[i] < r[j]
      <4>1. DOMAIN q = 1 .. n /\ \A i, j \in 1 .. n : i < j => q[i] < q[j]
        BY <3>3 DEF IsInOrder, n
      <4>2. QED
        BY <3>2, <3>4, <3>5, <4>1
    <3>8. IsInOrder(r, T)
      BY <3>6, <3>7 DEF IsInOrder
    <3>9. QED
      BY <2>2, <3>8
  <2>5. QED
    BY <2>3, <2>4
<1>3. \E q : IsInOrder(q, S)
  BY <1>2
<1>4. QED
  BY <1>1, <1>3 DEF InOrder, IsInOrder
-----------------------------------------------------------------------------
(* What the sections of a context are in.                                   *)
LEMMA EntriesType ==
  ASSUME movie \in Movies, NEW x \in DOMAIN movie.contexts
  PROVE  /\ DOMAIN Entries(x) \subseteq 1 .. Len(movie.contexts[x].sections)
         /\ Len(movie.contexts[x].sections) \in Nat
         /\ \A n \in DOMAIN Entries(x) : Entries(x)[n] \in Int
<1>1. movie.contexts[x].sections \in Seq(Int)
  BY MoviesAssumption DEF IsMovie
<1>2. QED
  BY <1>1 DEF Entries

(* The number of a cast's script leads to a script.                         *)
LEMMA ScriptsOfType ==
  ASSUME movie \in Movies, CastsInv, ContextsInv, NEW k \in DOMAIN casts
  PROVE  /\ \E b \in Nat : DOMAIN ScriptsOf(casts[k]) \subseteq 0 .. b
         /\ \A n \in DOMAIN ScriptsOf(casts[k]) : ScriptsOf(casts[k])[n] \in DOMAIN scripts
<1>1. CASE casts[k].lctx = None
  BY <1>1 DEF ScriptsOf
<1>2. CASE casts[k].lctx # None
  <2>1. casts[k].lctx \in DOMAIN contexts
    BY <1>2 DEF CastsInv
  <2>2. /\ casts[k].lctx \in DOMAIN movie.contexts
        /\ ScriptsOf(casts[k]) = Entries(casts[k].lctx)
        /\ \A n \in DOMAIN Entries(casts[k].lctx) : Entries(casts[k].lctx)[n] \in DOMAIN scripts
    BY <1>2, <2>1 DEF ContextsInv, ScriptsOf
  <2>3. QED
    <3> DEFINE b == Len(movie.contexts[casts[k].lctx].sections)
    <3>1. b \in Nat /\ DOMAIN ScriptsOf(casts[k]) \subseteq 1 .. b
      BY <2>2, EntriesType
    <3> HIDE DEF b
    <3>2. DOMAIN ScriptsOf(casts[k]) \subseteq 0 .. b
      BY <3>1
    <3>3. QED
      BY <2>2, <3>1, <3>2
<1>3. QED
  BY <1>1, <1>2

(* The key that is found for a context belongs to the owner.                *)
LEMMA ContextKeyLeads ==
  ASSUME movie \in Movies, NEW owner, ContextKey(owner) # None
  PROVE  IsContext(ContextKey(owner)) /\ Owns(owner, "Lctx", ContextKey(owner))
<1> DEFINE S == {k \in KeysOf(owner, "Lctx") : IsContext(movie.keys[k].section)}
<1>1. S # {} /\ ContextKey(owner) = movie.keys[Min(S)].section
  BY DEF ContextKey, FirstKey
<1>2. DOMAIN movie.keys \subseteq Nat
  BY MoviesAssumption DEF IsMovie
<1>3. S \subseteq Nat
  BY <1>2 DEF KeysOf
<1>4. Min(S) \in S
  <2> HIDE DEF S
  <2>1. QED
    BY <1>1, <1>3, LeastExists
<1>5. QED
  BY <1>1, <1>4 DEF KeysOf, Owns

(* What a claim says.                                                       *)
LEMMA ClaimParts ==
  ASSUME NEW claim \in Claims
  PROVE  /\ claim = <<claim[1], claim[2], claim[3]>>
         /\ claim[1] \in DOMAIN movie.contexts /\ claim[3] \in DOMAIN movie.members
         /\ claim[2] = ScriptID(claim[3]) /\ claim[2] \in DOMAIN Entries(claim[1])
         /\ \E k \in DOMAIN casts : Owns(casts[k].id, "Lctx", claim[1]) /\ Lists(casts[k], claim[3])
BY DEF Claims, ScriptID

LEMMA ClaimIsMade ==
  ASSUME NEW x \in DOMAIN movie.contexts, NEW m \in DOMAIN movie.members,
         ScriptID(m) \in DOMAIN Entries(x),
         NEW k \in DOMAIN casts, Owns(casts[k].id, "Lctx", x), Lists(casts[k], m)
  PROVE  <<x, ScriptID(m), m>> \in Claims
BY DEF Claims, ScriptID

(* A claim stands as more casts are read and linked.                        *)
CastsStand ==
  /\ movie' = movie
  /\ \A k \in DOMAIN casts : /\ k \in DOMAIN casts'
                            /\ casts'[k].id = casts[k].id
                            /\ casts'[k].section = casts[k].section
LEMMA LeadsToStands ==
  ASSUME CastsStand, NEW section, NEW x, LeadsTo(section, x)
  PROVE  LeadsTo(section, x)'
BY DEF CastsStand, LeadsTo, Owns

LEMMA ClaimStands ==
  ASSUME CastsStand, NEW claim \in Claims
  PROVE  claim \in Claims'
<1>1. \A x : Entries(x)' = Entries(x)
  BY DEF CastsStand, Entries
<1>2. PICK k \in DOMAIN casts :
        Owns(casts[k].id, "Lctx", claim[1]) /\ Lists(casts[k], claim[3])
  BY ClaimParts
<1>3. /\ claim \in (DOMAIN movie.contexts)
                  \X (UNION {DOMAIN Entries(x) : x \in DOMAIN movie.contexts})
                  \X (DOMAIN movie.members)
      /\ claim[2] = movie.members[claim[3]].scriptID
      /\ claim[2] \in DOMAIN Entries(claim[1])
  BY DEF Claims
<1>4. k \in DOMAIN casts' /\ (Owns(casts[k].id, "Lctx", claim[1]) /\ Lists(casts[k], claim[3]))'
  BY <1>2 DEF CastsStand, Owns, Lists
<1>5. (UNION {DOMAIN Entries(x) : x \in DOMAIN movie.contexts})'
        = UNION {DOMAIN Entries(x) : x \in DOMAIN movie.contexts}
  BY <1>1 DEF CastsStand
<1>6. /\ claim \in ((DOMAIN movie.contexts)
                    \X (UNION {DOMAIN Entries(x) : x \in DOMAIN movie.contexts})
                    \X (DOMAIN movie.members))'
      /\ claim[2] = movie'.members[claim[3]].scriptID
      /\ claim[2] \in DOMAIN Entries(claim[1])'
  BY <1>1, <1>3, <1>5 DEF CastsStand
<1>7. QED
  BY <1>4, <1>6 DEF Claims

LEMMA ClaimsStand ==
  ASSUME movie' = movie,
         \A k \in DOMAIN casts : /\ k \in DOMAIN casts'
                                 /\ casts'[k].id = casts[k].id
                                 /\ casts'[k].section = casts[k].section,
         NEW m, NEW s, HasClaim(m, s)
  PROVE  HasClaim(m, s)'
<1>1. PICK claim \in Claims : claim[3] = m /\ Entries(claim[1])[claim[2]] = s
  BY DEF HasClaim, ClaimsOf
<1>2. \A x : Entries(x)' = Entries(x)
  BY DEF Entries
<1>3. claim \in Claims'
  BY ClaimStands DEF CastsStand
<1>4. QED
  BY <1>1, <1>2, <1>3 DEF HasClaim, ClaimsOf

(* The member in a slot claims the script it is linked to.                  *)
LEMMA LinkIsClaim ==
  ASSUME Control, CastsInv, ContextsInv, phase = "members",
         slot <= Len(MemberIDs), MemberIDs[slot] \in DOMAIN movie.members,
         ScriptID(MemberIDs[slot]) \in DOMAIN ScriptsOf(Cast)
  PROVE  LET s == ScriptsOf(Cast)[ScriptID(MemberIDs[slot])]
         IN  s \in DOMAIN scripts /\ HasClaim(MemberIDs[slot], s)
<1> DEFINE k == Len(casts)
           m == MemberIDs[slot]
           x == casts[k].lctx
           n == ScriptID(m)
<1>1. k \in DOMAIN casts /\ Cast = casts[k]
  BY DEF Control, CastsInv, Cast, Last
<1>2. x # None
  BY <1>1 DEF ScriptsOf
<1>3. /\ x \in DOMAIN contexts /\ LeadsTo(casts[k].section, x)
      /\ casts[k].section \in DOMAIN movie.memberIDs
  BY <1>1, <1>2 DEF CastsInv
<1>4. /\ x \in DOMAIN movie.contexts
      /\ ScriptsOf(Cast) = Entries(x)
      /\ \A i \in DOMAIN Entries(x) : Entries(x)[i] \in DOMAIN scripts
  BY <1>1, <1>2, <1>3 DEF ContextsInv, ScriptsOf
<1>5. slot \in DOMAIN movie.memberIDs[casts[k].section]
  <2>1. movie.memberIDs[casts[k].section] \in Seq(Int)
    BY <1>3, MoviesAssumption DEF IsMovie, Control
  <2>2. QED
    BY <1>1, <2>1 DEF MemberIDs, Control
<1>6. \E j \in DOMAIN casts :
        /\ Owns(casts[j].id, "Lctx", x)
        /\ \E i \in DOMAIN movie.memberIDs[casts[j].section] :
             movie.memberIDs[casts[j].section][i] = m
  BY <1>1, <1>3, <1>5 DEF MemberIDs, LeadsTo
<1>7. <<x, n, m>> \in Claims
  BY <1>4, <1>6 DEF Claims, Lists, ScriptID
<1>8. QED
  BY <1>4, <1>7 DEF HasClaim, ClaimsOf

(* The text of a script.                                                    *)
LEMMA TextType ==
  ASSUME ScriptsInv, NEW s \in DOMAIN scripts
  PROVE  IsText(Text(s)) /\ Text(s).body.script = s
<1>1. ASSUME NEW r \in DOMAIN scripts
      PROVE  OwnText(r) \in Body
  BY <1>1 DEF ScriptsInv, OfScript, ScriptRecords, OwnText, Body
<1>2. \A k \in DOMAIN scripts[s].factories : scripts[s].factories[k] \in DOMAIN scripts
  BY DEF ScriptsInv, OfScript
<1>3. \A k \in DOMAIN Text(s).factories : Text(s).factories[k] \in Body
  BY <1>1, <1>2 DEF Text
<1>4. Text(s).body = OwnText(s) /\ OwnText(s).script = s
  BY DEF Text, OwnText
<1>5. QED
  BY <1>1, <1>3, <1>4 DEF IsText

(* The text of a script that is parsed, with factories that are.            *)
IsWhole(text) ==
  /\ Complete(text.body)
  /\ \A k \in DOMAIN text.factories : Complete(text.factories[k])
LEMMA TextIsWhole ==
  ASSUME ScriptsInv, NEW s \in DOMAIN scripts,
         \A r \in DOMAIN scripts : scripts[r].parsedWith = scripts[r].names
  PROVE  IsWhole(Text(s))
<1>1. ASSUME NEW r \in DOMAIN scripts
      PROVE  Complete(OwnText(r))
  <2>1. /\ scripts[r].declared \in Seq(Int) /\ scripts[r].declared # <<>>
        /\ scripts[r].parsedWith = Last(scripts[r].declared)
    BY <1>1 DEF ScriptsInv, OfScript, ScriptRecords
  <2>2. Last(scripts[r].declared) \in Int
    BY <2>1 DEF Last
  <2>3. scripts[r].parsedWith # None
    BY <2>1, <2>2, MoviesAssumption
  <2>4. QED
    BY <2>1, <2>3 DEF OwnText, Complete
<1>2. \A k \in DOMAIN scripts[s].factories : scripts[s].factories[k] \in DOMAIN scripts
  BY DEF ScriptsInv, OfScript
<1>3. \A k \in DOMAIN Text(s).factories : Complete(Text(s).factories[k])
  BY <1>1, <1>2 DEF Text
<1>4. Text(s).body = OwnText(s)
  BY DEF Text
<1>5. QED
  BY <1>1, <1>3, <1>4 DEF IsWhole
-----------------------------------------------------------------------------
(* Steps that leave the links alone.                                        *)
LEMMA LinkedStands ==
  ASSUME Linked, UNCHANGED <<movie, casts, contexts, scripts>>
  PROVE  Linked'
<1>1. CastsInv'
  BY DEF Linked, CastsInv, LeadsTo, Owns
<1>2. \A x : Entries(x)' = Entries(x)
  BY DEF Entries
<1>3. ContextsInv'
  BY <1>2 DEF Linked, ContextsInv
<1>4. ASSUME NEW s \in DOMAIN scripts
      PROVE  OfScript(s)'
  <2>1. OfScript(s)
    BY <1>4 DEF Linked, ScriptsInv
  <2>2. scripts[s].member # None => HasClaim(scripts[s].member, s)'
    BY <2>1, ClaimsStand DEF OfScript
  <2>3. QED
    BY <1>2, <2>1, <2>2 DEF OfScript
<1>5. ScriptsInv'
  BY <1>4 DEF ScriptsInv
<1>6. QED
  BY <1>1, <1>3, <1>5 DEF Linked

LEMMA MemberStands ==
  ASSUME movie' = movie, NEW m, OfMember(m), members'[m] = members[m],
         \A k \in DOMAIN casts : /\ k \in DOMAIN casts'
                                 /\ casts'[k].id = casts[k].id
                                 /\ casts'[k].section = casts[k].section
  PROVE  OfMember(m)'
<1>1. PICK s : s = members[m].text.body.script
  OBVIOUS
<1>2. HasClaim(m, s) => HasClaim(m, s)'
  BY ClaimsStand
<1>3. IsRestored(m)' <=> IsRestored(m)
  BY DEF IsRestored
<1>4. IsRestored(m) => IsText(members[m].text) /\ HasClaim(m, s)
  BY <1>1 DEF OfMember
<1>5. /\ members[m].number \in Shorts
      /\ members[m] = [number |-> members[m].number, text |-> members[m].text]
  BY DEF OfMember
<1>6. members'[m] = members[m] /\ (members[m].text.body.script)' = s
  BY <1>1
<1>7. QED
  BY <1>2, <1>3, <1>4, <1>5, <1>6 DEF OfMember

LEMMA GivenStands ==
  ASSUME Given, UNCHANGED <<movie, members, dumped>>,
         \A k \in DOMAIN casts : /\ k \in DOMAIN casts'
                                 /\ casts'[k].id = casts[k].id
                                 /\ casts'[k].section = casts[k].section
  PROVE  Given'
<1>1. DumpedInv'
  BY DEF Given, DumpedInv
<1>2. ASSUME NEW m \in DOMAIN members
      PROVE  OfMember(m)'
  <2>1. OfMember(m)
    BY <1>2 DEF Given, MembersInv
  <2>2. QED
    BY <2>1, MemberStands
<1>3. MembersInv'
  BY <1>2 DEF MembersInv
<1>4. QED
  BY <1>1, <1>3 DEF Given

LEMMA ParsingStands ==
  ASSUME ParsingInv, UNCHANGED <<casts, contexts, scripts>>, phase' = phase, at' = at
  PROVE  ParsingInv'
BY DEF ParsingInv, ParsedScripts, ScriptsOf, ContextsAreKept
-----------------------------------------------------------------------------
(* The actions one by one.                                                 *)
LEMMA QuietStep ==
  ASSUME LinkInv, UNCHANGED <<movie, casts, contexts, scripts, members, dumped>>
  PROVE  Linked' /\ Given'
BY LinkedStands, GivenStands DEF LinkInv

(* Giving up changes nothing; there has to be a reason.                     *)
LEMMA AbortStep ==
  ASSUME LinkInv, Abort, GivesUpForAReason'
  PROVE  LinkInv'
<1>1. Linked' /\ Given'
  BY QuietStep DEF Abort
<1>2. Control' /\ ParsingInv'
  BY DEF LinkInv, Abort, Control, ParsingInv
<1>3. QED
  BY <1>1, <1>2 DEF LinkInv

LEMMA SkipCastStep ==
  ASSUME LinkInv, SkipCast
  PROVE  LinkInv'
<1>1. Linked' /\ Given'
  BY QuietStep DEF SkipCast
<1>2. Control' /\ ParsingInv' /\ GivesUpForAReason'
  BY DEF LinkInv, SkipCast, Control, ParsingInv, GivesUpForAReason
<1>3. QED
  BY <1>1, <1>2 DEF LinkInv

(* The first of some keys is one of them.                                   *)
LEMMA FirstKeyLeads ==
  ASSUME movie \in Movies, NEW owner, NEW fourCC, FirstKey(KeysOf(owner, fourCC)) # None
  PROVE  \E i \in DOMAIN movie.keys :
           /\ movie.keys[i].fourCC = fourCC /\ movie.keys[i].owner = owner
           /\ movie.keys[i].section = FirstKey(KeysOf(owner, fourCC))
<1> DEFINE S == KeysOf(owner, fourCC)
<1>1. S # {} /\ FirstKey(S) = movie.keys[Min(S)].section
  BY DEF FirstKey
<1>2. S \subseteq Nat
  BY MoviesAssumption DEF IsMovie, KeysOf
<1>3. Min(S) \in S
  <2> HIDE DEF S
  <2>1. QED
    BY <1>1, <1>2, LeastExists
<1>4. QED
  BY <1>1, <1>3 DEF KeysOf

(* A cast that is read is what a cast list or a file says; its section, if   *)
(* it is missing, comes from a key.                                         *)
LEMMA CastEntriesType ==
  ASSUME movie \in Movies, NEW k \in 1 .. Len(CastEntries), CastEntries[k].section > 0
  PROVE  /\ CastEntries[k].name \in DOMAIN Clean /\ CastEntries[k].id \in Int
         /\ CastEntries[k].minMember \in Int
         /\ CastEntries[k].section \notin DOMAIN movie.memberIDs =>
              \E i \in DOMAIN movie.keys :
                /\ movie.keys[i].fourCC = "CAS*"
                /\ movie.keys[i].section > 0
                /\ movie.keys[i].section \notin DOMAIN movie.memberIDs
<1>1. CASE movie.listed
  <2>1. movie.castList \in Seq([name : DOMAIN Clean, id : Int, minMember : Int])
    BY MoviesAssumption DEF IsMovie
  <2>2. Len(CastEntries) = Len(movie.castList)
    <3>1. DOMAIN CastEntries = 1 .. Len(movie.castList) /\ Len(movie.castList) \in Nat
      BY <1>1, <2>1 DEF CastEntries
    <3>2. CastEntries = [i \in 1 .. Len(movie.castList) |-> CastEntries[i]]
      BY <1>1, <3>1 DEF CastEntries
    <3>3. QED
      BY <3>1, <3>2
  <2>3. k \in DOMAIN movie.castList
    BY <2>1, <2>2
  <2>4. /\ CastEntries[k].name = movie.castList[k].name
        /\ CastEntries[k].id = movie.castList[k].id
        /\ CastEntries[k].minMember = movie.castList[k].minMember
        /\ CastEntries[k].section = SectionID(movie.castList[k].id)
    BY <1>1, <2>3 DEF CastEntries
  <2>5. movie.castList[k] \in [name : DOMAIN Clean, id : Int, minMember : Int]
    <3> DEFINE R == [name : DOMAIN Clean, id : Int, minMember : Int]
    <3>1. movie.castList \in Seq(R)
      BY <2>1
    <3> HIDE DEF R
    <3>2. movie.castList[k] \in R
      BY <2>3, <3>1
    <3>3. QED
      BY <3>2 DEF R
  <2>6. ASSUME CastEntries[k].section \notin DOMAIN movie.memberIDs
        PROVE  \E i \in DOMAIN movie.keys :
                 /\ movie.keys[i].fourCC = "CAS*"
                 /\ movie.keys[i].section > 0
                 /\ movie.keys[i].section \notin DOMAIN movie.memberIDs
    <3> DEFINE key == FirstKey(KeysOf(movie.castList[k].id, "CAS*"))
    <3>1. key # None /\ CastEntries[k].section = key
      BY <2>4 DEF SectionID
    <3>2. PICK i \in DOMAIN movie.keys : movie.keys[i].fourCC = "CAS*" /\ movie.keys[i].section = key
      BY <3>1, FirstKeyLeads
    <3> HIDE DEF key
    <3>3. QED
      BY <2>6, <3>1, <3>2
  <2>7. QED
    BY <2>4, <2>5, <2>6
<1>2. CASE ~movie.listed
  <2>1. movie.firstCast # None /\ k = 1
    <3>1. CASE movie.firstCast = None
      <4>1. Len(CastEntries) = 0
        BY <1>2, <3>1 DEF CastEntries
      <4>2. QED
        BY <4>1
    <3>2. CASE movie.firstCast # None
      <4> DEFINE entry == [name |-> IF movie.modern THEN "External" ELSE "Internal", id |-> 1024,
                           minMember |-> movie.minMember, section |-> movie.firstCast]
      <4>1. CastEntries = <<entry>>
        BY <1>2, <3>2 DEF CastEntries
      <4> HIDE DEF entry
      <4>2. Len(CastEntries) = 1
        BY <4>1
      <4>3. QED
        BY <3>2, <4>2
    <3>3. QED
      BY <3>1, <3>2
  <2>2. /\ CastEntries[1].name \in {"External", "Internal"}
        /\ CastEntries[1].id = 1024
        /\ CastEntries[1].minMember = movie.minMember
        /\ CastEntries[1].section = movie.firstCast
    BY <1>2, <2>1 DEF CastEntries
  <2>3. movie.minMember \in Int /\ movie.firstCast \in DOMAIN movie.memberIDs
    BY <2>1, MoviesAssumption DEF IsMovie
  <2>4. CastEntries[1].name \in DOMAIN Clean
    BY <2>2, MoviesAssumption
  <2>5. CastEntries[k] = CastEntries[1]
    BY <2>1
  <2>6. QED
    BY <2>2, <2>3, <2>4, <2>5
<1>3. QED
  BY <1>1, <1>2

(* What populate changes in all entries of one CastChunk.                   *)
LEMMA RenamedShape ==
  ASSUME casts \in Seq(CastRecords), NEW section, NEW name \in DOMAIN Clean
  PROVE  /\ Renamed(section, name) \in Seq(CastRecords)
         /\ Len(Renamed(section, name)) = Len(casts)
         /\ \A k \in DOMAIN casts :
              /\ Renamed(section, name)[k].id = casts[k].id
              /\ Renamed(section, name)[k].section = casts[k].section
              /\ Renamed(section, name)[k].lctx = casts[k].lctx
<1> DEFINE f == Renamed(section, name)
<1>1. DOMAIN casts = 1 .. Len(casts) /\ Len(casts) \in Nat
  OBVIOUS
<1>2. ASSUME NEW k \in DOMAIN casts
      PROVE  /\ f[k] \in CastRecords /\ f[k].id = casts[k].id
             /\ f[k].section = casts[k].section /\ f[k].lctx = casts[k].lctx
  <2>1. casts[k] \in CastRecords
    OBVIOUS
  <2>2. f[k] = casts[k] \/ f[k] = [casts[k] EXCEPT !.name = name]
    BY DEF Renamed
  <2>3. QED
    BY <2>1, <2>2 DEF CastRecords
<1>3. f = [k \in 1 .. Len(casts) |-> f[k]]
  BY <1>1 DEF Renamed
<1> HIDE DEF f
<1>4. f \in Seq(CastRecords) /\ Len(f) = Len(casts)
  BY <1>1, <1>2, <1>3
<1>5. QED
  BY <1>2, <1>4 DEF f

LEMMA WithContextShape ==
  ASSUME casts \in Seq(CastRecords), NEW section, NEW x \in Int
  PROVE  /\ WithContext(section, x) \in Seq(CastRecords)
         /\ Len(WithContext(section, x)) = Len(casts)
         /\ \A k \in DOMAIN casts :
              /\ WithContext(section, x)[k].id = casts[k].id
              /\ WithContext(section, x)[k].section = casts[k].section
              /\ WithContext(section, x)[k].lctx =
                   IF casts[k].section = section THEN x ELSE casts[k].lctx
<1> DEFINE f == WithContext(section, x)
<1>1. DOMAIN casts = 1 .. Len(casts) /\ Len(casts) \in Nat
  OBVIOUS
<1>2. ASSUME NEW k \in DOMAIN casts
      PROVE  /\ f[k] \in CastRecords /\ f[k].id = casts[k].id
             /\ f[k].section = casts[k].section
             /\ f[k].lctx = IF casts[k].section = section THEN x ELSE casts[k].lctx
  <2>1. casts[k] \in CastRecords
    OBVIOUS
  <2>2. f[k] = IF casts[k].section = section THEN [casts[k] EXCEPT !.lctx = x] ELSE casts[k]
    BY DEF WithContext, Sharing
  <2>3. QED
    BY <2>1, <2>2 DEF CastRecords, SectionsAndNone
<1>3. f = [k \in 1 .. Len(casts) |-> f[k]]
  BY <1>1 DEF WithContext
<1> HIDE DEF f
<1>4. f \in Seq(CastRecords) /\ Len(f) = Len(casts)
  BY <1>1, <1>2, <1>3
<1>5. QED
  BY <1>2, <1>4 DEF f

(* A new entry has the context that another entry of its CastChunk has.     *)
LEMMA ContextSoFarIs ==
  ASSUME casts \in Seq(CastRecords), NEW section
  PROVE  /\ ContextSoFar(section) \in SectionsAndNone
         /\ \/ ContextSoFar(section) = None
            \/ \E k \in DOMAIN casts : casts[k].section = section /\ casts[k].lctx = ContextSoFar(section)
<1>1. CASE Sharing(section) = {}
  BY <1>1 DEF ContextSoFar, SectionsAndNone
<1>2. CASE Sharing(section) # {}
  <2>1. PICK k \in Sharing(section) : k = CHOOSE j \in Sharing(section) : TRUE
    BY <1>2
  <2>2. k \in DOMAIN casts /\ casts[k].section = section /\ casts[k] \in CastRecords
    BY <2>1 DEF Sharing
  <2>3. ContextSoFar(section) = casts[k].lctx
    BY <1>2, <2>1 DEF ContextSoFar
  <2>4. QED
    BY <2>2, <2>3 DEF CastRecords
<1>3. QED
  BY <1>1, <1>2

LEMMA ReadCastStep ==
  ASSUME LinkInv, ReadCast
  PROVE  LinkInv'
<1> DEFINE entry == CastEntries[at]
           cast == [name |-> entry.name, id |-> entry.id, minMember |-> entry.minMember,
                    section |-> entry.section, lctx |-> ContextSoFar(entry.section)]
           renamed == Renamed(entry.section, entry.name)
<1>1. at \in 1 .. Len(CastEntries) /\ movie \in Movies
  BY DEF ReadCast, LinkInv, Control
<1>2. CASE entry.section \notin DOMAIN movie.memberIDs
  <2>1. Abort
    BY <1>2 DEF ReadCast
  <2>2. GivesUpForAReason'
    BY <1>1, <1>2, <2>1, CastEntriesType DEF ReadCast, Abort, GivesUpForAReason
  <2>3. QED
    BY <2>1, <2>2, AbortStep
<1>3. CASE entry.section \in DOMAIN movie.memberIDs
  <2>1. /\ casts' = Append(renamed, cast) /\ phase' = "context"
        /\ UNCHANGED <<movie, contexts, scripts, members, at, slot, dumped>>
    BY <1>3 DEF ReadCast
  <2>2. cast \in CastRecords /\ casts \in Seq(CastRecords)
    <3>1. entry.section \in Int
      BY <1>1, <1>3, MoviesAssumption DEF IsMovie
    <3>2. casts \in Seq(CastRecords)
      BY DEF LinkInv, Linked, CastsInv
    <3>3. ContextSoFar(entry.section) \in SectionsAndNone
      BY <3>2, ContextSoFarIs
    <3>4. /\ entry.name \in DOMAIN Clean /\ entry.id \in Int /\ entry.minMember \in Int
      BY <1>1, CastEntriesType DEF ReadCast
    <3>5. QED
      BY <3>1, <3>2, <3>3, <3>4 DEF CastRecords
  <2>3. /\ cast.section = entry.section /\ cast.section \in DOMAIN movie.memberIDs
        /\ \/ cast.lctx = None
           \/ \E k \in DOMAIN casts : casts[k].section = cast.section /\ casts[k].lctx = cast.lctx
    BY <1>3, <2>2, ContextSoFarIs
  <2>4. /\ renamed \in Seq(CastRecords) /\ Len(renamed) = Len(casts)
        /\ \A k \in DOMAIN casts : /\ renamed[k].id = casts[k].id
                                  /\ renamed[k].section = casts[k].section
                                  /\ renamed[k].lctx = casts[k].lctx
    BY <1>1, <2>2, CastEntriesType, RenamedShape DEF ReadCast
  <2> HIDE DEF cast, renamed
  <2>5. /\ casts' \in Seq(CastRecords) /\ casts' # <<>>
         /\ DOMAIN casts' = DOMAIN casts \cup {Len(casts) + 1}
         /\ casts'[Len(casts) + 1] = cast
         /\ \A k \in DOMAIN casts : /\ k \in DOMAIN casts'
                                   /\ casts'[k].id = casts[k].id
                                   /\ casts'[k].section = casts[k].section
                                   /\ casts'[k].lctx = casts[k].lctx
    <3>1. \A k \in DOMAIN casts : k \in DOMAIN casts' /\ casts'[k] = renamed[k]
      BY <2>1, <2>2, <2>4
    <3>2. /\ casts' \in Seq(CastRecords) /\ casts' # <<>>
          /\ DOMAIN casts' = DOMAIN casts \cup {Len(casts) + 1}
          /\ casts'[Len(casts) + 1] = cast
      BY <2>1, <2>2, <2>4
    <3>3. QED
      BY <2>4, <3>1, <3>2
  <2>6. CastsInv'
    <3>1. CastsStand
      BY <2>1, <2>5 DEF CastsStand
    <3>2. ASSUME NEW k \in DOMAIN casts, NEW section, section = casts[k].section,
                 NEW x, x = casts[k].lctx
          PROVE  /\ section \in DOMAIN movie.memberIDs
                 /\ x # None => x \in DOMAIN contexts /\ LeadsTo(section, x)'
      BY <3>1, <3>2, LeadsToStands DEF LinkInv, Linked, CastsInv
    <3>3. ASSUME NEW k \in DOMAIN casts', NEW section, section = casts'[k].section,
                 NEW x, x = casts'[k].lctx
          PROVE  /\ section \in DOMAIN movie.memberIDs
                 /\ x # None => x \in DOMAIN contexts /\ LeadsTo(section, x)'
      <4>1. CASE k \in DOMAIN casts
        BY <2>5, <3>2, <3>3, <4>1
      <4>2. CASE k = Len(casts) + 1
        BY <2>3, <2>5, <3>2, <3>3, <4>2
      <4>3. QED
        BY <2>5, <3>3, <4>1, <4>2
    <3>4. QED
      BY <2>1, <2>5, <3>3 DEF CastsInv, LeadsTo
  <2>7. \A x : Entries(x)' = Entries(x)
    BY <2>1 DEF Entries
  <2>8. ContextsInv'
    BY <2>1, <2>7 DEF ContextsInv, LinkInv, Linked
  <2>9. ASSUME NEW s \in DOMAIN scripts
        PROVE  OfScript(s)'
    <3>1. OfScript(s)
      BY <2>9 DEF LinkInv, Linked, ScriptsInv
    <3>2. scripts[s].member # None => HasClaim(scripts[s].member, s)'
      BY <2>1, <2>5, <3>1, ClaimsStand DEF OfScript
    <3>3. QED
      BY <2>1, <2>7, <3>1, <3>2 DEF OfScript
  <2>10. ScriptsInv'
    BY <2>1, <2>9 DEF ScriptsInv
  <2>11. Given'
    BY <2>1, <2>5, GivenStands DEF LinkInv
  <2>12. Control' /\ ParsingInv' /\ GivesUpForAReason'
    BY <2>1, <2>5 DEF LinkInv, ReadCast, Control, ParsingInv, GivesUpForAReason
  <2>13. QED
    BY <2>6, <2>8, <2>10, <2>11, <2>12 DEF LinkInv, Linked
<1>4. QED
  BY <1>2, <1>3

LEMMA CastReadStep ==
  ASSUME LinkInv, CastRead
  PROVE  LinkInv'
<1>1. Linked' /\ Given'
  BY QuietStep DEF CastRead
<1>2. Control' /\ ParsingInv' /\ GivesUpForAReason'
  BY DEF LinkInv, CastRead, Control, ParsingInv, GivesUpForAReason
<1>3. QED
  BY <1>1, <1>2 DEF LinkInv

LEMMA CastsReadStep ==
  ASSUME LinkInv, CastsRead
  PROVE  LinkInv'
<1>1. Linked' /\ Given'
  BY QuietStep DEF CastsRead
<1>2. \A k \in DOMAIN casts : ~(k < 1)
  BY DEF LinkInv, Linked, CastsInv
<1>3. Control' /\ ParsingInv' /\ GivesUpForAReason'
  BY <1>2 DEF LinkInv, CastsRead, Control, ParsingInv, GivesUpForAReason
<1>4. QED
  BY <1>1, <1>3 DEF LinkInv

(* Every script is in a context that was read; as long as each is still that *)
(* of some cast, all scripts are parsed when all casts are.                 *)
LEMMA ParsedStep ==
  ASSUME LinkInv, Parsed
  PROVE  LinkInv'
<1>1. Linked' /\ Given'
  BY QuietStep DEF Parsed
<1>2. ASSUME ContextsAreKept, NEW s \in DOMAIN scripts
      PROVE  scripts[s].parsedWith = scripts[s].names
  <2>1. PICK x \in DOMAIN contexts : \E n \in DOMAIN Entries(x) : Entries(x)[n] = s
    BY <1>2 DEF LinkInv, Linked, ScriptsInv, OfScript
  <2>2. x \in DOMAIN movie.contexts /\ contexts[x] = Entries(x)
    BY <2>1 DEF LinkInv, Linked, ContextsInv
  <2>3. PICK k \in DOMAIN casts : casts[k].lctx = x
    BY <1>2 DEF ContextsAreKept
  <2>4. x # None
    BY <2>2, MoviesAssumption DEF IsMovie, LinkInv, Control
  <2>5. ScriptsOf(casts[k]) = Entries(x)
    BY <2>2, <2>3, <2>4 DEF ScriptsOf
  <2>6. k < at
    BY DEF LinkInv, Linked, CastsInv, Control, Parsed
  <2>7. ParsedScripts(k)
    BY <2>6 DEF LinkInv, ParsingInv, Parsed
  <2>8. QED
    BY <2>1, <2>5, <2>7 DEF ParsedScripts
<1>3. ParsingInv'
  BY <1>2 DEF Parsed, ParsingInv, ContextsAreKept
<1>4. Control' /\ GivesUpForAReason'
  BY DEF LinkInv, Parsed, Control, GivesUpForAReason
<1>5. QED
  BY <1>1, <1>3, <1>4 DEF LinkInv

LEMMA DumpedStep ==
  ASSUME LinkInv, Dumped
  PROVE  LinkInv'
<1>1. Linked' /\ Given'
  BY QuietStep DEF Dumped
<1>2. Control' /\ ParsingInv' /\ GivesUpForAReason'
  BY DEF LinkInv, Dumped, Control, ParsingInv, ContextsAreKept, GivesUpForAReason
<1>3. QED
  BY <1>1, <1>2 DEF LinkInv

LEMMA RestoredStep ==
  ASSUME LinkInv, Restored
  PROVE  LinkInv'
<1>1. Linked' /\ Given'
  BY QuietStep DEF Restored
<1>2. Control' /\ ParsingInv' /\ GivesUpForAReason'
  BY DEF LinkInv, Restored, Control, ParsingInv, ContextsAreKept, GivesUpForAReason
<1>3. QED
  BY <1>1, <1>2 DEF LinkInv

(* A text that is written to a file or to a member is that of a script.     *)
LEMMA ChosenScript ==
  ASSUME LinkInv, NEW k \in DOMAIN casts, NEW S, S \subseteq Named(casts[k]), S # {}
  PROVE  /\ Max(S) \in S
         /\ ScriptsOf(casts[k])[Max(S)] \in DOMAIN scripts
<1>1. /\ \E b \in Nat : DOMAIN ScriptsOf(casts[k]) \subseteq 0 .. b
      /\ \A n \in DOMAIN ScriptsOf(casts[k]) : ScriptsOf(casts[k])[n] \in DOMAIN scripts
  BY ScriptsOfType DEF LinkInv, Control, Linked
<1>2. PICK b \in Nat : DOMAIN ScriptsOf(casts[k]) \subseteq 0 .. b
  BY <1>1
<1>3. S \subseteq 0 .. b
  BY <1>2 DEF Named
<1>4. Max(S) \in S
  BY <1>3, GreatestExists
<1>5. QED
  BY <1>1, <1>4 DEF Named

LEMMA DumpCastStep ==
  ASSUME LinkInv, DumpCast
  PROVE  LinkInv'
<1> DEFINE cast == casts[at]
           PathOf(n) == Path(cast, scripts[ScriptsOf(cast)[n]].member)
           written == {PathOf(n) : n \in Named(cast)}
           Numbered(p) == {n \in Named(cast) : PathOf(n) = p}
<1>1. at \in DOMAIN casts
  BY DEF LinkInv, Linked, CastsInv, Control, DumpCast
<1>2. dumped' = [p \in DOMAIN dumped \cup written |->
                   IF p \in written THEN FileText(ScriptsOf(cast)[Max(Numbered(p))])
                   ELSE dumped[p]]
  BY DEF DumpCast
<1>3. ASSUME NEW p \in written
      PROVE  IsText(FileText(ScriptsOf(cast)[Max(Numbered(p))]))
  <2> DEFINE S == Numbered(p)
  <2>1. S # {} /\ S \subseteq Named(casts[at])
    BY <1>3
  <2> HIDE DEF S
  <2>2. ScriptsOf(casts[at])[Max(S)] \in DOMAIN scripts
    BY <1>1, <2>1, ChosenScript
  <2>3. PICK s \in DOMAIN scripts : s = ScriptsOf(casts[at])[Max(S)]
    BY <2>2
  <2>4. IsText(Text(s))
    BY <2>3, TextType DEF LinkInv, Linked
  <2>5. QED
    BY <2>3, <2>4 DEF S, FileText
<1>4. DumpedInv'
  <2> HIDE DEF written, Numbered, cast
  <2>1. ASSUME NEW p \in DOMAIN dumped'
        PROVE  IsText(dumped'[p])
    <3>1. CASE p \in written
      BY <1>2, <1>3, <3>1
    <3>2. CASE p \notin written
      BY <1>2, <2>1, <3>2 DEF LinkInv, Given, DumpedInv
    <3>3. QED
      BY <3>1, <3>2
  <2>2. QED
    BY <2>1 DEF DumpedInv
<1>5. UNCHANGED <<movie, phase, casts, contexts, scripts, members, slot>> /\ at' = at + 1
  BY DEF DumpCast
<1>6. Linked'
  BY <1>5, LinkedStands DEF LinkInv
<1>7. ASSUME NEW m \in DOMAIN members
      PROVE  OfMember(m)'
  <2>1. OfMember(m)
    BY <1>7 DEF LinkInv, Given, MembersInv
  <2>2. QED
    BY <1>5, <2>1, MemberStands
<1>8. MembersInv'
  BY <1>5, <1>7 DEF MembersInv
<1>9. Control' /\ ParsingInv' /\ GivesUpForAReason'
  BY <1>5 DEF LinkInv, DumpCast, Control, ParsingInv, ContextsAreKept,
                 GivesUpForAReason
<1>10. QED
  BY <1>4, <1>6, <1>8, <1>9 DEF LinkInv, Given

LEMMA RestoreCastStep ==
  ASSUME LinkInv, RestoreCast
  PROVE  LinkInv'
<1> DEFINE cast == casts[at]
           Texts(m) == {n \in Named(cast) : scripts[ScriptsOf(cast)[n]].member = m}
<1>1. at \in DOMAIN casts
  BY DEF LinkInv, Linked, CastsInv, Control, RestoreCast
<1>2. /\ members' = [m \in DOMAIN members |->
                       IF Texts(m) = {} \/ ~movie.members[m].info THEN members[m]
                       ELSE [members[m] EXCEPT !.text = Text(ScriptsOf(cast)[Max(Texts(m))])]]
      /\ UNCHANGED <<movie, phase, casts, contexts, scripts, slot, dumped>> /\ at' = at + 1
  BY DEF RestoreCast
<1>3. ASSUME NEW m \in DOMAIN members
      PROVE  OfMember(m)'
  <2> DEFINE S == Texts(m)
  <2>1. OfMember(m)
    BY <1>3 DEF LinkInv, Given, MembersInv
  <2>2. CASE S = {} \/ ~movie.members[m].info
    <3>1. members'[m] = members[m]
      BY <1>2, <2>2
    <3>2. QED
      BY <1>2, <2>1, <3>1, MemberStands
  <2>3. CASE ~(S = {} \/ ~movie.members[m].info)
    <3>1. members'[m] = [members[m] EXCEPT !.text = Text(ScriptsOf(cast)[Max(S)])]
      BY <1>2, <2>3
    <3>2. S # {} /\ S \subseteq Named(casts[at])
      BY <2>3
    <3> HIDE DEF S
    <3>3. Max(S) \in S /\ ScriptsOf(casts[at])[Max(S)] \in DOMAIN scripts
      BY <1>1, <3>2, ChosenScript
    <3>4. PICK s \in DOMAIN scripts : s = ScriptsOf(casts[at])[Max(S)]
      BY <3>3
    <3>5. scripts[s].member = m /\ m # None
      BY <3>3, <3>4 DEF S, Named
    <3>6. HasClaim(m, s)
      BY <3>5 DEF LinkInv, Linked, ScriptsInv, OfScript
    <3>7. HasClaim(m, s)'
      BY <1>2, <3>6, ClaimsStand
    <3>8. IsText(Text(s)) /\ Text(s).body.script = s
      BY <3>4, TextType DEF LinkInv, Linked
    <3>9. /\ members[m] = [number |-> members[m].number, text |-> members[m].text]
          /\ members[m].number \in Shorts
      BY <2>1 DEF OfMember
    <3>10. members'[m] = [number |-> members[m].number, text |-> Text(s)]
      BY <3>1, <3>4, <3>9
    <3>11. QED
      BY <3>7, <3>8, <3>9, <3>10 DEF OfMember
  <2>4. QED
    BY <2>2, <2>3
<1>4. MembersInv'
  BY <1>2, <1>3 DEF MembersInv
<1>5. Linked'
  BY <1>2, LinkedStands DEF LinkInv
<1>6. DumpedInv'
  BY <1>2 DEF LinkInv, Given, DumpedInv
<1>7. Control' /\ ParsingInv' /\ GivesUpForAReason'
  BY <1>2 DEF LinkInv, RestoreCast, Control, ParsingInv, ContextsAreKept,
                 GivesUpForAReason
<1>8. QED
  BY <1>4, <1>5, <1>6, <1>7 DEF LinkInv, Given

(* A parsed script has the names it had when it was parsed.                 *)
LEMMA ParseCastStep ==
  ASSUME LinkInv, ParseCast
  PROVE  LinkInv'
<1> DEFINE cast == casts[at]
           parsed == {ScriptsOf(cast)[n] : n \in DOMAIN ScriptsOf(cast)}
<1>1. /\ scripts' = [s \in DOMAIN scripts |->
                       IF s \in parsed THEN [scripts[s] EXCEPT !.parsedWith = scripts[s].names]
                       ELSE scripts[s]]
      /\ UNCHANGED <<movie, phase, casts, contexts, members, slot, dumped>> /\ at' = at + 1
  BY DEF ParseCast
<1>2. \A x : Entries(x)' = Entries(x)
  BY <1>1 DEF Entries
<1>3. ASSUME NEW s \in DOMAIN scripts
      PROVE  /\ OfScript(s)'
             /\ scripts'[s].names = scripts[s].names
             /\ s \in parsed \/ scripts[s].parsedWith = scripts[s].names =>
                  scripts'[s].parsedWith = scripts'[s].names
  <2>1. OfScript(s)
    BY <1>3 DEF LinkInv, Linked, ScriptsInv
  <2>2. scripts'[s] = scripts[s] \/ scripts'[s] = [scripts[s] EXCEPT !.parsedWith = scripts[s].names]
    BY <1>1
  <2>3. /\ scripts'[s] \in ScriptRecords
        /\ scripts'[s].declared = scripts[s].declared /\ scripts'[s].names = scripts[s].names
        /\ scripts'[s].factories = scripts[s].factories /\ scripts'[s].member = scripts[s].member
        /\ scripts'[s].parsedWith \in {scripts[s].parsedWith, scripts[s].names}
    BY <2>1, <2>2 DEF OfScript, ScriptRecords
  <2>4. scripts[s].member # None => HasClaim(scripts[s].member, s)'
    BY <1>1, <2>1, ClaimsStand DEF OfScript
  <2>5. DOMAIN scripts' = DOMAIN scripts /\ contexts' = contexts
    BY <1>1
  <2>6. OfScript(s)'
    BY <1>2, <2>1, <2>3, <2>4, <2>5 DEF OfScript
  <2>7. s \in parsed => scripts'[s] = [scripts[s] EXCEPT !.parsedWith = scripts[s].names]
    BY <1>1
  <2>8. s \in parsed => scripts'[s].parsedWith = scripts'[s].names
    BY <2>1, <2>3, <2>7 DEF OfScript, ScriptRecords
  <2>9. QED
    BY <2>3, <2>6, <2>8
<1>4. DOMAIN scripts' = DOMAIN scripts
  BY <1>1
<1>5. CastsInv' /\ ContextsInv'
  BY <1>1, <1>2, <1>4 DEF LinkInv, Linked, CastsInv, ContextsInv, LeadsTo, Owns
<1>6. ScriptsInv'
  BY <1>3, <1>4 DEF ScriptsInv
<1>7. ASSUME NEW k \in DOMAIN casts, k < at + 1
      PROVE  ParsedScripts(k)'
  <2>1. ScriptsOf(casts[k])' = ScriptsOf(casts[k])
    BY <1>1 DEF ScriptsOf
  <2>2. \A n \in DOMAIN ScriptsOf(casts[k]) : ScriptsOf(casts[k])[n] \in DOMAIN scripts
    BY ScriptsOfType DEF LinkInv, Control, Linked
  <2>3. k = at \/ k < at
    BY <1>7 DEF LinkInv, Linked, CastsInv, Control
  <2>4. k < at => ParsedScripts(k)
    BY DEF LinkInv, ParsingInv, ParseCast
  <2>5. ASSUME NEW n \in DOMAIN ScriptsOf(casts[k])
        PROVE  scripts'[ScriptsOf(casts[k])[n]].parsedWith = scripts'[ScriptsOf(casts[k])[n]].names
    <3>1. ScriptsOf(casts[k])[n] \in parsed \/ k < at
      BY <2>3, <2>5
    <3>2. QED
      BY <1>3, <2>2, <2>4, <3>1 DEF ParsedScripts
  <2>6. QED
    BY <2>1, <2>5 DEF ParsedScripts
<1>8. phase = "parse" /\ phase' = "parse" /\ at' = at + 1 /\ casts' = casts
  BY DEF ParseCast
<1>9. ParsingInv'
  BY <1>7, <1>8 DEF ParsingInv
<1>10. Given'
  BY <1>1, GivenStands DEF LinkInv
<1>11. Control' /\ GivesUpForAReason'
  BY <1>1, <1>8 DEF LinkInv, Control, GivesUpForAReason
<1>12. QED
  BY <1>5, <1>6, <1>9, <1>10, <1>11 DEF LinkInv, Linked

(* The number of a member has 16 bits.                                      *)
LEMMA WrapsToShort ==
  ASSUME NEW i \in Int
  PROVE  i % 65536 \in Shorts
BY DEF Shorts

LEMMA LinkMemberStep ==
  ASSUME LinkInv, LinkMember
  PROVE  LinkInv'
<1> DEFINE m == MemberIDs[slot]
           linked == ScriptID(m) \in DOMAIN ScriptsOf(Cast)
           section == casts[Len(casts)].section
<1>1. /\ Len(casts) \in DOMAIN casts /\ Cast = casts[Len(casts)]
      /\ casts[Len(casts)] \in CastRecords /\ section \in DOMAIN movie.memberIDs
  BY DEF LinkMember, LinkInv, Control, Linked, CastsInv, Cast, Last
<1>2. MemberIDs = movie.memberIDs[section] /\ slot \in DOMAIN movie.memberIDs[section]
  <2>1. movie.memberIDs[section] \in Seq(Int)
    BY <1>1, MoviesAssumption DEF IsMovie, LinkInv, Control
  <2>2. MemberIDs = movie.memberIDs[section]
    BY <1>1 DEF MemberIDs
  <2>3. slot \in Nat /\ slot > 0 /\ slot <= Len(MemberIDs)
    BY DEF LinkMember, LinkInv, Control
  <2>4. QED
    BY <2>1, <2>2, <2>3
<1>3. m \in Int
  BY <1>1, <1>2, MoviesAssumption DEF IsMovie, LinkInv, Control
<1>4. CASE m <= 0
  <2>1. UNCHANGED <<movie, phase, casts, contexts, scripts, members, at, dumped>> /\ slot' = slot + 1
    BY <1>4 DEF LinkMember
  <2>2. Linked' /\ Given'
    BY <2>1, QuietStep
  <2>3. Control' /\ ParsingInv' /\ GivesUpForAReason'
    BY <2>1 DEF LinkInv, LinkMember, Control, ParsingInv, GivesUpForAReason
  <2>4. QED
    BY <2>2, <2>3 DEF LinkInv
<1>5. CASE m > 0 /\ m \notin DOMAIN movie.members
  <2>1. Abort
    BY <1>3, <1>5 DEF LinkMember
  <2>2. movie' = movie /\ movie.memberIDs[section][slot] = m
    BY <1>2, <2>1 DEF Abort
  <2>3. PICK c, i : c = section /\ i = slot
    OBVIOUS
  <2>4. /\ c \in DOMAIN movie'.memberIDs /\ i \in DOMAIN movie'.memberIDs[c]
        /\ movie'.memberIDs[c][i] > 0 /\ movie'.memberIDs[c][i] \notin DOMAIN movie'.members
    BY <1>1, <1>2, <1>5, <2>2, <2>3
  <2>5. GivesUpForAReason'
    BY <2>4 DEF GivesUpForAReason
  <2>6. QED
    BY <2>1, <2>5, AbortStep
<1>6. CASE m > 0 /\ m \in DOMAIN movie.members
  <2>1. /\ members' = With(members, m, [number |-> MemberNumber(slot), text |-> movie.members[m].text])
        /\ scripts' = IF linked
                      THEN [scripts EXCEPT ![ScriptsOf(Cast)[ScriptID(m)]].member = m]
                      ELSE scripts
        /\ UNCHANGED <<movie, phase, casts, contexts, at, dumped>> /\ slot' = slot + 1
        /\ phase = "members"
    BY <1>3, <1>6 DEF LinkMember
  <2>2. MemberNumber(slot) \in Shorts
    <3>1. casts[Len(casts)].minMember \in Int
      BY <1>1 DEF CastRecords
    <3>2. slot \in Int /\ Cast.minMember \in Int
      BY <1>1, <3>1 DEF LinkInv, Control
    <3>3. slot - 1 + Cast.minMember \in Int
      BY <3>2
    <3>4. QED
      BY <3>3, WrapsToShort DEF MemberNumber
  <2>3. ASSUME NEW n \in DOMAIN members'
        PROVE  OfMember(n)'
    <3>1. CASE n = m
      <4>1. members'[n] = [number |-> MemberNumber(slot), text |-> movie.members[m].text]
        BY <2>1, <3>1 DEF With
      <4>2. PICK number : number = MemberNumber(slot)
        OBVIOUS
      <4>3. members'[n] = [number |-> number, text |-> movie'.members[n].text] /\ number \in Shorts
        BY <2>1, <2>2, <3>1, <4>1, <4>2
      <4>4. QED
        BY <4>3 DEF OfMember, IsRestored
    <3>2. CASE n # m
      <4>1. n \in DOMAIN members /\ members'[n] = members[n]
        BY <2>1, <2>3, <3>2 DEF With
      <4>2. OfMember(n)
        BY <4>1 DEF LinkInv, Given, MembersInv
      <4>3. QED
        BY <2>1, <4>1, <4>2, MemberStands
    <3>3. QED
      BY <3>1, <3>2
  <2>4. Given'
    BY <2>1, <2>3 DEF LinkInv, Given, MembersInv, DumpedInv
  <2>5. \A x : Entries(x)' = Entries(x)
    BY <2>1 DEF Entries
  <2>6. linked => /\ ScriptsOf(Cast)[ScriptID(m)] \in DOMAIN scripts
                  /\ HasClaim(m, ScriptsOf(Cast)[ScriptID(m)])
    BY <1>6, LinkIsClaim DEF LinkMember, LinkInv, Linked
  <2>7. PICK r : r = ScriptsOf(Cast)[ScriptID(m)]
    OBVIOUS
  <2>8. DOMAIN scripts' = DOMAIN scripts
    BY <2>1
  <2>9. ASSUME NEW s \in DOMAIN scripts
        PROVE  OfScript(s)' /\ scripts'[s].parsedWith = scripts[s].parsedWith
    <3>1. OfScript(s)
      BY <2>9 DEF LinkInv, Linked, ScriptsInv
    <3>2. CASE scripts'[s] = scripts[s]
      <4>1. PICK n : n = scripts[s].member
        OBVIOUS
      <4>2. n # None => HasClaim(n, s)
        BY <3>1, <4>1 DEF OfScript
      <4>3. n # None => HasClaim(n, s)'
        BY <2>1, <4>2, ClaimsStand
      <4>4. scripts'[s].member = n
        BY <3>2, <4>1
      <4>5. QED
        BY <2>1, <2>5, <2>8, <3>1, <3>2, <4>3, <4>4 DEF OfScript
    <3>3. CASE scripts'[s] # scripts[s]
      <4>1. PICK n : n = m
        OBVIOUS
      <4>2. linked /\ s = r /\ scripts'[s] = [scripts[s] EXCEPT !.member = n]
        BY <2>1, <2>7, <3>3, <4>1
      <4>3. HasClaim(n, s)
        BY <2>6, <2>7, <4>1, <4>2
      <4>4. HasClaim(n, s)'
        BY <2>1, <4>3, ClaimsStand
      <4>5. /\ scripts'[s] \in ScriptRecords /\ scripts'[s].member = n
            /\ scripts'[s].declared = scripts[s].declared /\ scripts'[s].names = scripts[s].names
            /\ scripts'[s].parsedWith = scripts[s].parsedWith
            /\ scripts'[s].factories = scripts[s].factories
        BY <1>3, <3>1, <4>1, <4>2 DEF OfScript, ScriptRecords, SectionsAndNone
      <4>6. QED
        BY <2>1, <2>5, <2>8, <3>1, <4>4, <4>5 DEF OfScript
    <3>4. QED
      BY <3>2, <3>3
  <2>10. CastsInv' /\ ContextsInv'
    BY <2>1, <2>5, <2>8 DEF LinkInv, Linked, CastsInv, ContextsInv, LeadsTo, Owns
  <2>11. ScriptsInv'
    BY <2>8, <2>9 DEF ScriptsInv
  <2>12. Control' /\ ParsingInv' /\ GivesUpForAReason'
    BY <2>1, <2>8, <2>9 DEF LinkInv, Control, ParsingInv, GivesUpForAReason
  <2>13. QED
    BY <2>4, <2>10, <2>11, <2>12 DEF LinkInv, Linked
<1>7. QED
  BY <1>3, <1>4, <1>5, <1>6

(* The names of a context come after those a script had.                    *)
LEMMA DeclaredType ==
  ASSUME movie \in Movies, NEW x \in DOMAIN movie.contexts,
         NEW s, \E n \in DOMAIN Entries(x) : Entries(x)[n] = s,
         ScriptObject(s).declared \in Seq(Int)
  PROVE  /\ Declared(x, s) \in Seq(Int) /\ Declared(x, s) # <<>>
         /\ Last(Declared(x, s)) = movie.contexts[x].names /\ movie.contexts[x].names \in Int
<1> DEFINE S == {n \in DOMAIN Entries(x) : Entries(x)[n] = s}
           c == Cardinality(S)
           added == [k \in 1 .. c |-> movie.contexts[x].names]
<1>1. movie.contexts[x].names \in Int
  BY MoviesAssumption DEF IsMovie
<1>2. c \in Nat /\ c > 0
  <2>1. PICK b \in Nat : S \subseteq 1 .. b
    BY EntriesType
  <2>2. S # {}
    OBVIOUS
  <2> HIDE DEF S
  <2>3. IsFiniteSet(1 .. b)
    BY FS_Interval
  <2>4. IsFiniteSet(S)
    BY <2>1, <2>3, FS_Subset
  <2>5. QED
    BY <2>2, <2>4, FS_CardinalityType, FS_EmptySet
<1>3. Declared(x, s) = ScriptObject(s).declared \o added
  BY DEF Declared
<1> HIDE DEF c
<1>4. added \in Seq(Int) /\ Len(added) = c /\ added[c] = movie.contexts[x].names
  BY <1>1, <1>2
<1> HIDE DEF added
<1>5. PICK d \in Seq(Int) : d = ScriptObject(s).declared
  OBVIOUS
<1>6. /\ d \o added \in Seq(Int) /\ Len(d \o added) = Len(d) + c
      /\ (d \o added)[Len(d) + c] = movie.contexts[x].names
  <2>1. Len(d) \in Nat /\ added \in Seq(Int) /\ Len(added) = c
    BY <1>4
  <2>2. d \o added \in Seq(Int) /\ Len(d \o added) = Len(d) + c
    BY <2>1, ConcatProperties
  <2>3. \A i \in 1 .. Len(d) + Len(added) :
          (d \o added)[i] = IF i <= Len(d) THEN d[i] ELSE added[i - Len(d)]
    BY <2>1, ConcatProperties
  <2>4. (d \o added)[Len(d) + c] = added[c]
    BY <1>2, <2>1, <2>3
  <2>5. QED
    BY <1>4, <2>2, <2>4
<1>7. PICK e : e = d \o added
  OBVIOUS
<1>8. e \in Seq(Int) /\ e # <<>> /\ e[Len(e)] = movie.contexts[x].names
  <2>1. e \in Seq(Int) /\ Len(e) = Len(d) + c /\ e[Len(d) + c] = movie.contexts[x].names
    BY <1>6, <1>7
  <2>2. Len(d) \in Nat
    OBVIOUS
  <2>3. Len(e) > 0
    BY <1>2, <2>1, <2>2
  <2>4. QED
    BY <2>1, <2>3
<1>9. Declared(x, s) = e
  BY <1>3, <1>5, <1>7
<1>10. Last(e) = movie.contexts[x].names
  BY <1>8 DEF Last
<1>11. QED
  BY <1>1, <1>8, <1>9, <1>10

(* The factories of a script are scripts of the same contexts.              *)
FactoriesAreScripts(x, s) ==
  \A k \in DOMAIN FactoriesOf(x, s) :
    \/ \E n \in DOMAIN Entries(x) : FactoriesOf(x, s)[k] = Entries(x)[n]
    \/ \E j \in DOMAIN ScriptObject(s).factories :
         FactoriesOf(x, s)[k] = ScriptObject(s).factories[j]
LEMMA FactoriesType ==
  ASSUME movie \in Movies, NEW x \in DOMAIN movie.contexts,
         NEW s, ScriptObject(s).factories \in Seq(Int)
  PROVE  FactoriesOf(x, s) \in Seq(Int) /\ FactoriesAreScripts(x, s)
<1> DEFINE S == {n \in DOMAIN Entries(x) :
                   LET parent == movie.scripts[Entries(x)[n]].parent
                   IN  parent # None /\ Entries(x)[parent + 1] = s}
           q == InOrder(S)
           added == [k \in DOMAIN q |-> Entries(x)[q[k]]]
<1>1. S \subseteq DOMAIN Entries(x)
  OBVIOUS
<1>2. FactoriesOf(x, s) = ScriptObject(s).factories \o added
  BY DEF FactoriesOf
<1> HIDE DEF S
<1>3. PICK b \in Nat : S \subseteq 0 .. b
  <2>1. PICK c \in Nat : DOMAIN Entries(x) \subseteq 1 .. c
    BY EntriesType
  <2>2. S \subseteq 0 .. c
    BY <1>1, <2>1
  <2>3. QED
    BY <2>2
<1>4. q \in [1 .. Cardinality(S) -> S] /\ Cardinality(S) \in Nat
  BY <1>3, InOrderExists DEF IsInOrder
<1> HIDE DEF q
<1>5. \A k \in 1 .. Cardinality(S) : q[k] \in DOMAIN Entries(x) /\ Entries(x)[q[k]] \in Int
  BY <1>1, <1>4, EntriesType
<1>6. added \in Seq(Int) /\ Len(added) = Cardinality(S)
  BY <1>4, <1>5
<1>7. \A k \in DOMAIN added : \E n \in DOMAIN Entries(x) : added[k] = Entries(x)[n]
  BY <1>4, <1>5
<1> HIDE DEF added
<1>8. PICK f \in Seq(Int) : f = ScriptObject(s).factories
  OBVIOUS
<1>9. /\ f \o added \in Seq(Int)
      /\ \A k \in DOMAIN (f \o added) :
           \/ k \in DOMAIN f /\ (f \o added)[k] = f[k]
           \/ k - Len(f) \in DOMAIN added /\ (f \o added)[k] = added[k - Len(f)]
  BY <1>6
<1>10. QED
  BY <1>2, <1>7, <1>8, <1>9 DEF FactoriesAreScripts

(* A cast that is given its context: what stood before still does.          *)
LEMMA LinkContextStep ==
  ASSUME LinkInv, LinkContext
  PROVE  LinkInv'
<1>1. PICK x : x = ContextKey(Cast.id)
  OBVIOUS
<1>2. phase = "context" /\ slot' = 1 /\ UNCHANGED <<movie, members, at, dumped>>
  BY DEF LinkContext
<1>3. /\ Len(casts) \in DOMAIN casts /\ Cast = casts[Len(casts)]
      /\ casts[Len(casts)] \in CastRecords /\ casts \in Seq(CastRecords)
  BY <1>2 DEF LinkInv, Control, Linked, CastsInv, Cast, Last
<1>4. CASE x = None
  <2>1. UNCHANGED <<casts, contexts, scripts>> /\ phase' = "members"
    BY <1>1, <1>4 DEF LinkContext
  <2>2. Linked' /\ Given'
    BY <1>2, <2>1, QuietStep
  <2>3. Control' /\ ParsingInv' /\ GivesUpForAReason'
    BY <1>2, <2>1 DEF LinkInv, Control, ParsingInv, GivesUpForAReason
  <2>4. QED
    BY <2>2, <2>3 DEF LinkInv
<1>5. ASSUME x # None
      PROVE  x \in DOMAIN movie.contexts /\ Owns(Cast.id, "Lctx", x)
  BY <1>1, <1>5, ContextKeyLeads DEF IsContext, LinkInv, Control
<1>6. CASE x # None /\ x \notin DOMAIN contexts /\ ContextThrows(x)
  <2>1. UNCHANGED <<casts, contexts, scripts>> /\ phase' = "aborted"
    BY <1>1, <1>6 DEF LinkContext
  <2>2. Linked' /\ Given'
    BY <1>2, <2>1, QuietStep
  <2>3. ContextThrows(x)' /\ x \in DOMAIN movie'.contexts
    BY <1>2, <1>5, <1>6 DEF ContextThrows, Entries
  <2>4. Control' /\ ParsingInv' /\ GivesUpForAReason'
    BY <1>2, <2>1, <2>3 DEF LinkInv, Control, ParsingInv, GivesUpForAReason
  <2>5. QED
    BY <2>2, <2>4 DEF LinkInv
<1>7. CASE x # None /\ (x \in DOMAIN contexts \/ ~ContextThrows(x))
  <2>1. /\ casts' = WithContext(Cast.section, x) /\ phase' = "members"
        /\ IF x \in DOMAIN contexts THEN UNCHANGED <<contexts, scripts>> ELSE ReadContext(x)
    BY <1>1, <1>5, <1>7 DEF LinkContext, IsContext
  <2>2. x \in Int
    BY <1>5, <1>7, MoviesAssumption DEF IsMovie, LinkInv, Control
  <2>3. /\ casts' \in Seq(CastRecords) /\ casts' # <<>> /\ DOMAIN casts' = DOMAIN casts
        /\ \A k \in DOMAIN casts :
             /\ casts'[k].id = casts[k].id /\ casts'[k].section = casts[k].section
             /\ casts'[k].lctx = IF casts[k].section = Cast.section THEN x ELSE casts[k].lctx
    <3>1. PICK section : section = Cast.section
      OBVIOUS
    <3>2. casts' = WithContext(section, x)
      BY <2>1, <3>1
    <3>3. /\ casts' \in Seq(CastRecords) /\ Len(casts') = Len(casts)
          /\ \A k \in DOMAIN casts :
               /\ casts'[k].id = casts[k].id /\ casts'[k].section = casts[k].section
               /\ casts'[k].lctx = IF casts[k].section = section THEN x ELSE casts[k].lctx
      BY <1>3, <2>2, <3>2, WithContextShape
    <3>4. QED
      BY <1>3, <3>1, <3>3
  <2>4. \A y : Entries(y)' = Entries(y)
    BY <1>2 DEF Entries
  <2>5. /\ DOMAIN contexts' = DOMAIN contexts \cup {x}
        /\ \A y \in DOMAIN contexts : contexts'[y] = contexts[y]
        /\ contexts'[x] = Entries(x)
        /\ \A y \in DOMAIN contexts : y # None /\ y \in DOMAIN movie.contexts /\ contexts[y] = Entries(y)
    <3>1. \A y \in DOMAIN contexts : y \in DOMAIN movie.contexts /\ contexts[y] = Entries(y)
      BY DEF LinkInv, Linked, ContextsInv
    <3>2. \A y \in DOMAIN movie.contexts : y # None
      BY MoviesAssumption DEF IsMovie, LinkInv, Control
    <3>3. CASE x \in DOMAIN contexts
      BY <2>1, <3>1, <3>2, <3>3
    <3>4. CASE x \notin DOMAIN contexts
      <4>1. contexts' = With(contexts, x, Entries(x))
        BY <2>1, <3>4 DEF ReadContext
      <4>2. QED
        BY <3>1, <3>2, <3>4, <4>1 DEF With
    <3>5. QED
      BY <3>3, <3>4
  <2>6. CastsInv'
    <3>1. CastsStand
      BY <1>2, <2>3 DEF CastsStand
    <3>2. LeadsTo(Cast.section, x)
      BY <1>3, <1>5, <1>7 DEF LeadsTo
    <3>3. ASSUME NEW k \in DOMAIN casts, NEW section, section = casts[k].section,
                 NEW y, y = casts'[k].lctx
          PROVE  /\ section \in DOMAIN movie.memberIDs
                 /\ y # None => y \in DOMAIN contexts' /\ LeadsTo(section, y)'
      <4>1. /\ section \in DOMAIN movie.memberIDs
            /\ casts[k].lctx # None =>
                 casts[k].lctx \in DOMAIN contexts /\ LeadsTo(section, casts[k].lctx)
        BY <3>3 DEF LinkInv, Linked, CastsInv
      <4>2. y # None => y \in DOMAIN contexts' /\ LeadsTo(section, y)
        <5>1. CASE section = Cast.section
          BY <2>3, <2>5, <3>2, <3>3, <5>1
        <5>2. CASE section # Cast.section
          BY <2>3, <2>5, <3>3, <4>1, <5>2
        <5>3. QED
          BY <5>1, <5>2
      <4>3. QED
        BY <3>1, <4>1, <4>2, LeadsToStands
    <3>4. QED
      BY <1>2, <2>3, <3>3 DEF CastsInv, LeadsTo
  <2>7. ASSUME NEW s \in DOMAIN scripts'
        PROVE  OfScript(s)' /\ scripts'[s].parsedWith = None
    <3>1. ASSUME NEW r \in DOMAIN scripts
          PROVE  OfScript(r) /\ scripts[r].parsedWith = None
      BY <1>2 DEF LinkInv, Linked, ScriptsInv, ParsingInv
    <3>2. ASSUME NEW m, NEW r, HasClaim(m, r)
          PROVE  HasClaim(m, r)'
      BY <1>2, <2>3, <3>2, ClaimsStand
    <3>3. CASE x \in DOMAIN contexts
      <4>1. s \in DOMAIN scripts /\ scripts' = scripts /\ contexts' = contexts
        BY <2>1, <2>7, <3>3
      <4>2. OfScript(s) /\ scripts[s].parsedWith = None
        BY <3>1, <4>1
      <4>3. PICK m : m = scripts[s].member
        OBVIOUS
      <4>4. m # None => HasClaim(m, s)'
        BY <3>2, <4>2, <4>3 DEF OfScript
      <4>5. QED
        BY <2>4, <4>1, <4>2, <4>3, <4>4 DEF OfScript
    <3>4. CASE x \notin DOMAIN contexts
      <4> DEFINE read == {Entries(x)[n] : n \in DOMAIN Entries(x)}
      <4>1. /\ DOMAIN scripts' = DOMAIN scripts \cup read
            /\ scripts'[s] = IF s \notin read THEN scripts[s]
                              ELSE [ScriptObject(s) EXCEPT
                                      !.names = movie.contexts[x].names,
                                      !.declared = Declared(x, s),
                                      !.factories = FactoriesOf(x, s)]
        BY <2>1, <2>7, <3>4 DEF ReadContext
      <4>2. CASE s \notin read
        <5>1. s \in DOMAIN scripts /\ scripts'[s] = scripts[s]
          BY <2>7, <4>1, <4>2
        <5>2. OfScript(s) /\ scripts[s].parsedWith = None
          BY <3>1, <5>1
        <5>3. PICK m : m = scripts[s].member
          OBVIOUS
        <5>4. m # None => HasClaim(m, s)'
          BY <3>2, <5>2, <5>3 DEF OfScript
        <5>5. \A k \in DOMAIN scripts[s].factories : scripts[s].factories[k] \in DOMAIN scripts'
          BY <4>1, <5>2 DEF OfScript
        <5>6. \E y \in DOMAIN contexts' : \E n \in DOMAIN Entries(y) : Entries(y)[n] = s
          BY <2>5, <5>2 DEF OfScript
        <5>7. QED
          BY <2>4, <5>1, <5>2, <5>3, <5>4, <5>5, <5>6 DEF OfScript
      <4>3. CASE s \in read
        <5>1. PICK o : o = ScriptObject(s)
          OBVIOUS
        <5>2. /\ o \in ScriptRecords /\ o.parsedWith = None
              /\ o.member # None => HasClaim(o.member, s)'
              /\ \A k \in DOMAIN o.factories : o.factories[k] \in DOMAIN scripts
          <6>1. CASE s \in DOMAIN scripts
            <7>1. o = scripts[s]
              BY <5>1, <6>1 DEF ScriptObject
            <7>2. OfScript(s) /\ scripts[s].parsedWith = None
              BY <3>1, <6>1
            <7>3. PICK m : m = scripts[s].member
              OBVIOUS
            <7>4. m # None => HasClaim(m, s)'
              BY <3>2, <7>2, <7>3 DEF OfScript
            <7>5. o.member = m
              BY <7>1, <7>3
            <7>6. (m # None => HasClaim(m, s)') => (o.member # None => HasClaim(o.member, s)')
              BY <7>5
            <7>7. QED
              BY <7>1, <7>2, <7>4, <7>6 DEF OfScript
          <6>2. CASE s \notin DOMAIN scripts
            <7>1. o = Unlinked
              BY <5>1, <6>2 DEF ScriptObject
            <7>2. o \in ScriptRecords /\ o.parsedWith = None /\ o.member = None /\ o.factories = <<>>
              BY <7>1 DEF Unlinked, ScriptRecords, SectionsAndNone
            <7>3. QED
              BY <7>2
          <6>3. QED
            BY <6>1, <6>2
        <5>3. PICK declared \in Seq(Int) :
                /\ declared = Declared(x, s) /\ declared # <<>>
                /\ Last(declared) = movie.contexts[x].names /\ movie.contexts[x].names \in Int
          <6>1. ScriptObject(s).declared \in Seq(Int)
            BY <5>1, <5>2 DEF ScriptRecords
          <6>2. \E n \in DOMAIN Entries(x) : Entries(x)[n] = s
            BY <4>3
          <6>3. QED
            BY <1>5, <1>7, <6>1, <6>2, DeclaredType DEF LinkInv, Control
        <5>4. PICK factories \in Seq(Int) :
                /\ factories = FactoriesOf(x, s)
                /\ \A k \in DOMAIN factories : factories[k] \in DOMAIN scripts'
          <6>1. ScriptObject(s).factories \in Seq(Int)
            BY <5>1, <5>2 DEF ScriptRecords
          <6>2. PICK factories \in Seq(Int) : factories = FactoriesOf(x, s)
            BY <1>5, <1>7, <6>1, FactoriesType DEF LinkInv, Control
          <6>3. ASSUME NEW k \in DOMAIN factories
                PROVE  factories[k] \in DOMAIN scripts'
            <7>1. \/ \E n \in DOMAIN Entries(x) : factories[k] = Entries(x)[n]
                  \/ \E j \in DOMAIN o.factories : factories[k] = o.factories[j]
              <8>1. FactoriesAreScripts(x, s)
                BY <1>5, <1>7, <6>1, FactoriesType DEF LinkInv, Control
              <8>2. k \in DOMAIN FactoriesOf(x, s) /\ FactoriesOf(x, s)[k] = factories[k]
                BY <6>2, <6>3
              <8>3. \/ \E n \in DOMAIN Entries(x) : FactoriesOf(x, s)[k] = Entries(x)[n]
                    \/ \E j \in DOMAIN ScriptObject(s).factories :
                         FactoriesOf(x, s)[k] = ScriptObject(s).factories[j]
                BY <8>1, <8>2 DEF FactoriesAreScripts
              <8>4. QED
                BY <5>1, <8>2, <8>3
            <7>2. QED
              BY <4>1, <5>2, <7>1
          <6>4. QED
            BY <6>2, <6>3
        <5>5. PICK names \in Int : names = movie.contexts[x].names
          BY <5>3
        <5>6. scripts'[s] = [o EXCEPT !.names = names, !.declared = declared, !.factories = factories]
          BY <4>1, <4>3, <5>1, <5>3, <5>4, <5>5
        <5>7. /\ scripts'[s] \in ScriptRecords
              /\ scripts'[s].names = names /\ scripts'[s].declared = declared
              /\ scripts'[s].factories = factories /\ scripts'[s].member = o.member
              /\ scripts'[s].parsedWith = None
          BY <5>2, <5>6 DEF ScriptRecords, SectionsAndNone
        <5>8. s \in Int /\ \E n \in DOMAIN Entries(x) : Entries(x)[n] = s
          BY <1>5, <1>7, <4>3, EntriesType DEF LinkInv, Control
        <5>9. x \in DOMAIN contexts'
          BY <2>5
        <5>10. QED
          BY <2>4, <5>2, <5>3, <5>4, <5>5, <5>7, <5>8, <5>9 DEF OfScript
      <4>4. QED
        BY <4>2, <4>3
    <3>5. QED
      BY <3>3, <3>4
  <2>8. \A y \in DOMAIN contexts' : \A n \in DOMAIN Entries(y) : Entries(y)[n] \in DOMAIN scripts'
    <3>1. \A y \in DOMAIN contexts : \A n \in DOMAIN Entries(y) : Entries(y)[n] \in DOMAIN scripts
      BY DEF LinkInv, Linked, ContextsInv
    <3>2. CASE x \in DOMAIN contexts
      BY <2>1, <2>5, <3>1, <3>2
    <3>3. CASE x \notin DOMAIN contexts
      <4>1. DOMAIN scripts' = DOMAIN scripts \cup {Entries(x)[n] : n \in DOMAIN Entries(x)}
        BY <2>1, <3>3 DEF ReadContext
      <4>2. QED
        BY <2>5, <3>1, <4>1
    <3>4. QED
      BY <3>2, <3>3
  <2>9. ContextsInv'
    BY <1>2, <1>5, <1>7, <2>4, <2>5, <2>8 DEF ContextsInv
  <2>10. Given'
    BY <1>2, <2>3, GivenStands DEF LinkInv
  <2>11. ScriptsInv' /\ ParsingInv'
    BY <2>1, <2>7 DEF ScriptsInv, ParsingInv
  <2>12. Control' /\ GivesUpForAReason'
    BY <1>2, <2>1, <2>3 DEF LinkInv, Control, GivesUpForAReason
  <2>13. QED
    BY <2>6, <2>9, <2>10, <2>11, <2>12 DEF LinkInv, Linked
<1>8. QED
  BY <1>4, <1>6, <1>7
-----------------------------------------------------------------------------
(* The invariant.                                                          *)
LEMMA LinkInvInit == Init => LinkInv
<1> SUFFICES ASSUME Init PROVE LinkInv
  OBVIOUS
<1>1. /\ DOMAIN casts = {} /\ DOMAIN contexts = {} /\ DOMAIN scripts = {}
      /\ DOMAIN members = {} /\ DOMAIN dumped = {}
  BY DEF Init
<1>2. casts \in Seq(CastRecords)
  BY DEF Init
<1>3. QED
  BY <1>1, <1>2 DEF Init, LinkInv, Control, Linked, Given, CastsInv, ContextsInv, ScriptsInv,
                    ParsingInv, MembersInv, DumpedInv, GivesUpForAReason

LEMMA LinkInvNext == LinkInv /\ [Next]_vars => LinkInv'
<1> SUFFICES ASSUME LinkInv, [Next]_vars PROVE LinkInv'
  OBVIOUS
<1>1. CASE SkipCast
  BY <1>1, SkipCastStep
<1>2. CASE ReadCast
  BY <1>2, ReadCastStep
<1>3. CASE LinkContext
  BY <1>3, LinkContextStep
<1>4. CASE LinkMember
  BY <1>4, LinkMemberStep
<1>5. CASE CastRead
  BY <1>5, CastReadStep
<1>6. CASE CastsRead
  BY <1>6, CastsReadStep
<1>7. CASE ParseCast
  BY <1>7, ParseCastStep
<1>8. CASE Parsed
  BY <1>8, ParsedStep
<1>9. CASE DumpCast
  BY <1>9, DumpCastStep
<1>10. CASE Dumped
  BY <1>10, DumpedStep
<1>11. CASE RestoreCast
  BY <1>11, RestoreCastStep
<1>12. CASE Restored
  BY <1>12, RestoredStep
<1>13. CASE UNCHANGED vars
  <2>1. UNCHANGED <<movie, phase, casts, contexts, scripts, members, at, slot, dumped>>
    BY <1>13 DEF vars
  <2>2. Linked' /\ Given'
    BY <2>1, QuietStep
  <2>3. ParsingInv'
    BY <2>1, ParsingStands DEF LinkInv
  <2>4. GivesUpForAReason'
    BY <2>1 DEF LinkInv, GivesUpForAReason, ContextThrows, Entries
  <2>5. Control'
    BY <2>1 DEF LinkInv, Control
  <2>6. QED
    BY <2>2, <2>3, <2>4, <2>5 DEF LinkInv
<1>14. CASE Ended
  BY <1>13, <1>14 DEF Ended
<1>15. QED
  BY <1>1, <1>2, <1>3, <1>4, <1>5, <1>6, <1>7, <1>8, <1>9, <1>10, <1>11, <1>12, <1>13, <1>14 DEF Next

(* In every state of every run of readCasts, parseScripts, dumpScripts and   *)
(* restoreScriptText the links are what the invariant says.                 *)
THEOREM LinksHold == Spec => []LinkInv
BY LinkInvInit, LinkInvNext, PTL DEF Spec

(* The phases, the casts, the links and the texts keep their types.          *)
THEOREM TypesHold == Spec => []TypeOK
<1>1. LinkInv => TypeOK
  <2> SUFFICES ASSUME LinkInv PROVE TypeOK
    OBVIOUS
  <2>1. \A k \in DOMAIN casts : casts[k].lctx \in SectionsAndNone
    <3>1. \A k \in DOMAIN casts : casts[k] \in CastRecords
      BY DEF LinkInv, Linked, CastsInv
    <3>2. QED
      BY <3>1 DEF CastRecords
  <2>2. \A s \in DOMAIN scripts : scripts[s] \in ScriptRecords
    BY DEF LinkInv, Linked, ScriptsInv, OfScript
  <2>3. \A m \in DOMAIN members : members[m].number \in Shorts
    BY DEF LinkInv, Given, MembersInv, OfMember
  <2>4. \A p \in DOMAIN dumped : IsText(dumped[p])
    BY DEF LinkInv, Given, DumpedInv, IsText
  <2>5. QED
    BY <2>1, <2>2, <2>3, <2>4 DEF LinkInv, Control, TypeOK, ScriptRecords
<1>2. QED
  BY <1>1, LinksHold, PTL

(* A member that CastMemberChunk::setScriptText was called for was given the  *)
(* text of a script that it names in a cast it is in, also where casts share *)
(* scripts, contexts, members or the CastChunk itself.                      *)
THEOREM TextsAreOwn == Spec => []NoForeignText
<1>1. LinkInv => NoForeignText
  BY DEF LinkInv, Given, MembersInv, OfMember, HasClaim, NoForeignText
<1>2. QED
  BY <1>1, LinksHold, PTL

(* No text is taken before all casts are parsed; then, if no context was     *)
(* lost, only whole ones are.                                              *)
NoText == dumped = <<>> /\ \A m \in DOMAIN members : ~IsRestored(m)
WholeTexts ==
  /\ \A m \in DOMAIN members : IsRestored(m) => IsWhole(members[m].text)
  /\ \A p \in DOMAIN dumped : IsWhole(dumped[p])
WholeInv ==
  IF phase \in {"dump", "restore", "done"} THEN ContextsAreKept => WholeTexts ELSE NoText

LEMMA WholeInvInit == Init => WholeInv
BY DEF Init, WholeInv, NoText

(* While casts are read and parsed, a member has the text of the movie.      *)
LEMMA NoTextYet ==
  ASSUME WholeInv, phase \notin {"dump", "restore", "done"}, UNCHANGED <<movie, dumped>>,
         \A m \in DOMAIN members' :
           \/ m \in DOMAIN members /\ members'[m] = members[m]
           \/ members'[m].text = movie.members[m].text
  PROVE  NoText'
BY DEF WholeInv, NoText, IsRestored

LEMMA NoTextTaken ==
  ASSUME NoText
  PROVE  WholeTexts
BY DEF NoText, WholeTexts

LEMMA WholeDumpCast ==
  ASSUME LinkInv, WholeInv, DumpCast
  PROVE  WholeInv'
<1> DEFINE cast == casts[at]
           PathOf(n) == Path(cast, scripts[ScriptsOf(cast)[n]].member)
           written == {PathOf(n) : n \in Named(cast)}
           Numbered(p) == {n \in Named(cast) : PathOf(n) = p}
<1>1. at \in DOMAIN casts
  BY DEF LinkInv, Linked, CastsInv, Control, DumpCast
<1>2. /\ dumped' = [p \in DOMAIN dumped \cup written |->
                      IF p \in written THEN FileText(ScriptsOf(cast)[Max(Numbered(p))])
                      ELSE dumped[p]]
      /\ UNCHANGED <<movie, phase, casts, contexts, scripts, members>> /\ phase = "dump"
  BY DEF DumpCast
<1>3. ASSUME ContextsAreKept, NEW p \in written
      PROVE  IsWhole(FileText(ScriptsOf(cast)[Max(Numbered(p))]))
  <2> DEFINE S == Numbered(p)
  <2>1. S # {} /\ S \subseteq Named(casts[at])
    BY <1>3
  <2> HIDE DEF S
  <2>2. ScriptsOf(casts[at])[Max(S)] \in DOMAIN scripts
    BY <1>1, <2>1, ChosenScript
  <2>3. PICK s \in DOMAIN scripts : s = ScriptsOf(casts[at])[Max(S)]
    BY <2>2
  <2>4. IsWhole(Text(s))
    BY <1>2, <1>3, <2>3, TextIsWhole DEF LinkInv, Linked, ParsingInv
  <2>5. QED
    BY <2>3, <2>4 DEF S, FileText
<1>4. ContextsAreKept' => WholeTexts'
  <2> HIDE DEF written, Numbered, cast
  <2>1. SUFFICES ASSUME ContextsAreKept PROVE WholeTexts'
    BY <1>2 DEF ContextsAreKept
  <2>2. WholeTexts
    BY <1>2, <2>1 DEF WholeInv
  <2>3. ASSUME NEW p \in DOMAIN dumped'
        PROVE  IsWhole(dumped'[p])
    <3>1. CASE p \in written
      BY <1>2, <1>3, <2>1, <3>1
    <3>2. CASE p \notin written
      BY <1>2, <2>2, <2>3, <3>2 DEF WholeTexts
    <3>3. QED
      BY <3>1, <3>2
  <2>4. QED
    BY <1>2, <2>2, <2>3 DEF WholeTexts, IsRestored
<1>5. QED
  BY <1>2, <1>4 DEF WholeInv

LEMMA WholeRestoreCast ==
  ASSUME LinkInv, WholeInv, RestoreCast
  PROVE  WholeInv'
<1> DEFINE cast == casts[at]
           Texts(m) == {n \in Named(cast) : scripts[ScriptsOf(cast)[n]].member = m}
<1>1. at \in DOMAIN casts
  BY DEF LinkInv, Linked, CastsInv, Control, RestoreCast
<1>2. /\ members' = [m \in DOMAIN members |->
                       IF Texts(m) = {} \/ ~movie.members[m].info THEN members[m]
                       ELSE [members[m] EXCEPT !.text = Text(ScriptsOf(cast)[Max(Texts(m))])]]
      /\ UNCHANGED <<movie, phase, casts, contexts, scripts, dumped>> /\ phase = "restore"
  BY DEF RestoreCast
<1>3. ASSUME ContextsAreKept, NEW m \in DOMAIN members, IsRestored(m)'
      PROVE  IsWhole(members'[m].text)
  <2> DEFINE S == Texts(m)
  <2>1. CASE S = {} \/ ~movie.members[m].info
    <3>1. members'[m] = members[m]
      BY <1>2, <2>1
    <3>2. QED
      BY <1>2, <1>3, <3>1 DEF WholeInv, WholeTexts, IsRestored
  <2>2. CASE ~(S = {} \/ ~movie.members[m].info)
    <3>1. members'[m] = [members[m] EXCEPT !.text = Text(ScriptsOf(cast)[Max(S)])]
      BY <1>2, <2>2
    <3>2. S # {} /\ S \subseteq Named(casts[at])
      BY <2>2
    <3> HIDE DEF S
    <3>3. ScriptsOf(casts[at])[Max(S)] \in DOMAIN scripts
      BY <1>1, <3>2, ChosenScript
    <3>4. PICK s \in DOMAIN scripts : s = ScriptsOf(casts[at])[Max(S)]
      BY <3>3
    <3>5. IsWhole(Text(s))
      BY <1>2, <1>3, <3>4, TextIsWhole DEF LinkInv, Linked, ParsingInv
    <3>6. members[m] = [number |-> members[m].number, text |-> members[m].text]
      BY DEF LinkInv, Given, MembersInv, OfMember
    <3>7. members'[m].text = Text(s)
      BY <3>1, <3>4, <3>6
    <3>8. QED
      BY <3>5, <3>7
  <2>3. QED
    BY <2>1, <2>2
<1>4. ContextsAreKept' => WholeTexts'
  <2>1. SUFFICES ASSUME ContextsAreKept PROVE WholeTexts'
    BY <1>2 DEF ContextsAreKept
  <2>2. DOMAIN members' = DOMAIN members
    BY <1>2
  <2>3. \A p \in DOMAIN dumped' : IsWhole(dumped'[p])
    BY <1>2, <2>1 DEF WholeInv, WholeTexts
  <2>4. QED
    BY <1>3, <2>1, <2>2, <2>3 DEF WholeTexts
<1>5. QED
  BY <1>2, <1>4 DEF WholeInv

LEMMA WholeInvNext == LinkInv /\ WholeInv /\ [Next]_vars => WholeInv'
<1> SUFFICES ASSUME LinkInv, WholeInv, [Next]_vars PROVE WholeInv'
  OBVIOUS
<1>1. ASSUME UNCHANGED <<movie, members, dumped>>, phase \notin {"dump", "restore", "done"}
      PROVE  WholeInv'
  <2>1. NoText'
    BY <1>1, NoTextYet
  <2>2. WholeTexts'
    BY <2>1 DEF NoText, WholeTexts
  <2>3. QED
    BY <2>1, <2>2 DEF WholeInv
<1>2. ASSUME UNCHANGED <<movie, members, dumped, casts, contexts>>,
             phase \in {"dump", "restore", "done"}, phase' \in {"dump", "restore", "done"}
      PROVE  WholeInv'
  BY <1>2 DEF WholeInv, WholeTexts, ContextsAreKept, IsRestored
<1>3. CASE SkipCast \/ CastRead \/ CastsRead \/ ParseCast \/ Parsed \/ LinkContext
  BY <1>1, <1>3 DEF SkipCast, CastRead, CastsRead, ParseCast, Parsed, LinkContext
<1>4. CASE ReadCast
  BY <1>1, <1>4 DEF ReadCast, Abort
<1>5. CASE LinkMember
  <2>1. CASE UNCHANGED members
    BY <1>1, <1>5, <2>1 DEF LinkMember, Abort
  <2>2. CASE ~UNCHANGED members
    <3> DEFINE m == MemberIDs[slot]
    <3>1. /\ members' = With(members, m, [number |-> MemberNumber(slot), text |-> movie.members[m].text])
          /\ UNCHANGED <<movie, phase, dumped>> /\ phase = "members"
      BY <1>5, <2>2 DEF LinkMember, Abort
    <3>2. ASSUME NEW n \in DOMAIN members'
          PROVE  \/ n \in DOMAIN members /\ members'[n] = members[n]
                 \/ members'[n].text = movie.members[n].text
      BY <3>1, <3>2 DEF With
    <3>3. NoText'
      BY <3>1, <3>2, NoTextYet
    <3>4. QED
      BY <3>1, <3>3 DEF WholeInv
  <2>3. QED
    BY <2>1, <2>2
<1>6. CASE DumpCast
  BY <1>6, WholeDumpCast
<1>7. CASE RestoreCast
  BY <1>7, WholeRestoreCast
<1>8. CASE Dumped \/ Restored
  BY <1>2, <1>8 DEF Dumped, Restored
<1>9. CASE UNCHANGED vars
  BY <1>9 DEF vars, WholeInv, WholeTexts, NoText, ContextsAreKept, IsRestored
<1>10. CASE Ended
  BY <1>9, <1>10 DEF Ended
<1>11. QED
  BY <1>3, <1>4, <1>5, <1>6, <1>7, <1>8, <1>9, <1>10 DEF Next

(* Script::scriptText is called only for scripts with names whose bytecode    *)
(* was parsed with them, and so are the factories in them, as long as every  *)
(* context that was read is still that of a cast: parseScripts goes by them, *)
(* and a cast with two owners keeps the context of the second alone.        *)
THEOREM TextsAreWhole == Spec => []TextsAreComplete
<1>1. WholeInv => TextsAreComplete
  BY DEF WholeInv, WholeTexts, NoText, IsWhole, TextsAreComplete
<1>2. Spec => []WholeInv
  BY LinksHold, WholeInvInit, WholeInvNext, PTL DEF Spec
<1>3. QED
  BY <1>1, <1>2, PTL

(* An exception out of readCasts has one of the named causes.               *)
THEOREM AbortsHaveReasons == Spec => []GivesUpForAReason
<1>1. LinkInv => GivesUpForAReason
  BY DEF LinkInv
<1>2. QED
  BY <1>1, LinksHold, PTL
-----------------------------------------------------------------------------
(***************************************************************************)
(* What more there is to say of a movie whose casts share nothing.          *)
(***************************************************************************)
SectionOf(id) == IF movie.listed THEN SectionID(id) ELSE movie.firstCast

(* Each cast has the list of members that its id leads to, and, if no other   *)
(* id leads there, the context; until the context is linked a cast has none,  *)
(* or that which it got when it was populated before.  So no context is lost. *)
OwnContext(k) ==
  \/ casts[k].lctx = ContextKey(casts[k].id)
  \/ phase = "context" /\ k = Len(casts) /\ casts[k].lctx = None
OwnCasts ==
  /\ \A k \in DOMAIN casts :
       /\ casts[k].section = SectionOf(casts[k].id)
       /\ ~movie.listed => casts[k].id = 1024
       /\ OneOwner /\ phase # "aborted" => OwnContext(k)
  /\ OneOwner => ContextsAreKept

(* A script was given the names of its context once, and the factories that  *)
(* name its number, each once.                                             *)
FactoryNumbers(x, n) == {f \in DOMAIN Entries(x) : movie.scripts[Entries(x)[f]].parent = n - 1}
FactoriesInOrder(x, n) ==
  [k \in 1 .. Cardinality(FactoryNumbers(x, n)) |-> Entries(x)[InOrder(FactoryNumbers(x, n))[k]]]
OwnScript(x, n) ==
  /\ scripts[Entries(x)[n]].declared = <<movie.contexts[x].names>>
  /\ scripts[Entries(x)[n]].factories = FactoriesInOrder(x, n)
OwnScripts == Unshared => \A x \in DOMAIN contexts : \A n \in DOMAIN Entries(x) : OwnScript(x, n)

(* Behind a slot that was passed, the script that the member names names the *)
(* member.                                                                 *)
Passed(k, i) ==
  k < Len(casts) \/ phase \notin {"context", "members"} \/ (phase = "members" /\ i < slot)
OwnSlot(k, m) ==
  /\ m \in DOMAIN members
  /\ Unshared /\ ScriptID(m) \in DOMAIN ScriptsOf(casts[k]) =>
       scripts[ScriptsOf(casts[k])[ScriptID(m)]].member = m
SlotIs(k, i, m) ==
  i \in DOMAIN movie.memberIDs[casts[k].section] /\ movie.memberIDs[casts[k].section][i] = m
OwnSlots ==
  phase # "aborted" =>
    \A k \in DOMAIN casts : \A i, m : SlotIs(k, i, m) /\ m > 0 /\ Passed(k, i) => OwnSlot(k, m)

(* A text was put back where there is an info block, and is the text that    *)
(* was asked for once the loop has passed the cast that lists the member.    *)
Due(claim) ==
  \/ phase = "done"
  \/ phase = "restore" /\ \E k \in DOMAIN casts : k < at /\ Lists(casts[k], claim[3])
OwnTexts ==
  /\ \A m \in DOMAIN members : m \in DOMAIN movie.members /\ (IsRestored(m) => movie.members[m].info)
  /\ Unshared => \A claim \in Claims : Due(claim) /\ movie.members[claim[3]].info =>
       members[claim[3]].text = Text(Entries(claim[1])[claim[2]])

(* Of the casts that the loop has passed, each script that a member named    *)
(* has its file.                                                           *)
IsFileOf(p, k, claim) == Lists(casts[k], claim[3]) /\ p = Path(casts[k], claim[3])
DumpedUpTo(b) ==
  /\ \A p : p \in DOMAIN dumped <=> \E k \in DOMAIN casts, claim \in Claims : k < b /\ IsFileOf(p, k, claim)
  /\ \A p : \A k \in DOMAIN casts, claim \in Claims :
       k < b /\ IsFileOf(p, k, claim) => dumped[p] = Text(Entries(claim[1])[claim[2]])
OwnFiles ==
  /\ phase \in {"casts", "context", "members", "parse"} => dumped = <<>>
  /\ phase = "dump" /\ Unshared /\ DistinctPaths => DumpedUpTo(at)
  /\ phase \in {"restore", "done"} /\ Unshared /\ DistinctPaths =>
       dumped = <<>> \/ DumpedUpTo(Len(casts) + 1)

OwnInv == OwnCasts /\ OwnScripts /\ OwnSlots /\ OwnTexts /\ OwnFiles
-----------------------------------------------------------------------------
(* Where nothing is shared, a link can be followed back.                    *)
LEMMA NumberIsOne ==
  ASSUME OneNumber, NEW x \in DOMAIN movie.contexts, NEW y \in DOMAIN movie.contexts,
         NEW n \in DOMAIN Entries(x), NEW l \in DOMAIN Entries(y), Entries(x)[n] = Entries(y)[l]
  PROVE  x = y /\ n = l
<1> DEFINE a == <<x, n>>
           b == <<y, l>>
<1>1. a \in Numbers /\ b \in Numbers
  BY DEF Numbers
<1>2. Entries(a[1])[a[2]] = Entries(b[1])[b[2]]
  OBVIOUS
<1>3. a = b
  BY <1>1, <1>2 DEF OneNumber
<1>4. QED
  BY <1>3

LEMMA OwnerIsOne ==
  ASSUME OneContext, NEW x, IsContext(x), NEW a, NEW b, Owns(a, "Lctx", x), Owns(b, "Lctx", x)
  PROVE  a = b
BY DEF OneContext, LiveKeys, Owns

LEMMA ContextIsOwn ==
  ASSUME movie \in Movies, OneContext, NEW owner, NEW x, IsContext(x), Owns(owner, "Lctx", x)
  PROVE  ContextKey(owner) = x
<1> DEFINE S == {k \in KeysOf(owner, "Lctx") : IsContext(movie.keys[k].section)}
<1>1. PICK j \in DOMAIN movie.keys : /\ movie.keys[j].owner = owner /\ movie.keys[j].fourCC = "Lctx"
                                     /\ movie.keys[j].section = x
  BY DEF Owns
<1>2. j \in S /\ S \subseteq Nat
  BY <1>1, MoviesAssumption DEF IsMovie, KeysOf
<1>3. Min(S) \in S
  <2> HIDE DEF S
  <2>1. QED
    BY <1>2, LeastExists
<1>4. j \in LiveKeys /\ Min(S) \in LiveKeys /\ movie.keys[Min(S)].owner = movie.keys[j].owner
  BY <1>1, <1>2, <1>3 DEF LiveKeys, KeysOf
<1>5. Min(S) = j
  BY <1>4 DEF OneContext
<1>6. ContextKey(owner) = movie.keys[Min(S)].section
  BY <1>2 DEF ContextKey, FirstKey
<1>7. QED
  BY <1>1, <1>5, <1>6

(* Ids that lead to one list of members are one, and so casts that have it.   *)
LEMMA IdIsOne ==
  ASSUME movie \in Movies, OneOwner, NEW a, NEW b, ~movie.listed => a = b,
         SectionOf(a) = SectionOf(b), SectionOf(a) \in DOMAIN movie.memberIDs
  PROVE  a = b
<1>1. CASE movie.listed
  <2>1. ASSUME NEW id, SectionOf(id) = SectionOf(a)
        PROVE  \E key \in MemberListKeys : /\ movie.keys[key].owner = id
                                           /\ movie.keys[key].section = SectionOf(a)
    <3>1. SectionOf(a) = SectionID(id)
      BY <1>1, <2>1 DEF SectionOf
    <3>2. SectionOf(a) # -1
      BY MoviesAssumption DEF IsMovie
    <3>3. /\ FirstKey(KeysOf(id, "CAS*")) # None
          /\ SectionOf(a) = FirstKey(KeysOf(id, "CAS*"))
      BY <3>1, <3>2 DEF SectionID
    <3>4. QED
      BY <3>3, FirstKeyLeads DEF MemberListKeys
  <2>2. QED
    BY <2>1 DEF OneOwner
<1>2. QED
  BY <1>1

LEMMA ListIsOwn ==
  ASSUME movie \in Movies, OneOwner, OwnCasts, CastsInv,
         NEW j \in DOMAIN casts, NEW k \in DOMAIN casts, casts[j].section = casts[k].section
  PROVE  casts[j].id = casts[k].id
BY IdIsOne DEF OwnCasts, CastsInv

LEMMA SlotIsOne ==
  ASSUME OneSlot, CastsInv, NEW m \in Nat \ {0},
         NEW j \in DOMAIN casts, NEW k \in DOMAIN casts, Lists(casts[j], m), Lists(casts[k], m)
  PROVE  casts[j].section = casts[k].section
<1> DEFINE c == casts[j].section
           d == casts[k].section
<1>1. c \in DOMAIN movie.memberIDs /\ d \in DOMAIN movie.memberIDs
  BY DEF CastsInv
<1>2. PICK i \in DOMAIN movie.memberIDs[c] : movie.memberIDs[c][i] = m
  BY DEF Lists
<1>3. PICK l \in DOMAIN movie.memberIDs[d] : movie.memberIDs[d][l] = m
  BY DEF Lists
<1> HIDE DEF c, d
<1> DEFINE a == <<c, i>>
           b == <<d, l>>
<1>4. a \in Slots /\ b \in Slots
  BY <1>1 DEF Slots
<1>5. movie.memberIDs[a[1]][a[2]] = m /\ movie.memberIDs[b[1]][b[2]] = m
  BY <1>2, <1>3
<1>6. a = b
  BY <1>4, <1>5 DEF OneSlot
<1>7. QED
  BY <1>6 DEF c, d

(* Two casts that list one member are one cast, twice at most in the list.   *)
LEMMA ListersAgree ==
  ASSUME movie \in Movies, Unshared, OwnCasts, CastsInv, NEW m \in DOMAIN movie.members,
         NEW j \in DOMAIN casts, NEW k \in DOMAIN casts, Lists(casts[j], m), Lists(casts[k], m)
  PROVE  casts[j].id = casts[k].id
<1>1. m \in Nat \ {0}
  BY MoviesAssumption DEF IsMovie
<1>2. casts[j].section = casts[k].section
  BY <1>1, SlotIsOne DEF Unshared
<1>3. QED
  BY <1>2, ListIsOwn DEF Unshared

LEMMA ClaimIsOne ==
  ASSUME movie \in Movies, Unshared, OwnCasts, CastsInv,
         NEW a \in Claims, NEW b \in Claims, a[3] = b[3]
  PROVE  a = b
<1>1. PICK j \in DOMAIN casts : Owns(casts[j].id, "Lctx", a[1]) /\ Lists(casts[j], a[3])
  BY ClaimParts
<1>2. PICK k \in DOMAIN casts : Owns(casts[k].id, "Lctx", b[1]) /\ Lists(casts[k], b[3])
  BY ClaimParts
<1>3. /\ a[1] \in DOMAIN movie.contexts /\ b[1] \in DOMAIN movie.contexts
      /\ a[3] \in DOMAIN movie.members
      /\ a[2] = ScriptID(a[3]) /\ b[2] = ScriptID(b[3])
      /\ a = <<a[1], a[2], a[3]>> /\ b = <<b[1], b[2], b[3]>>
  BY ClaimParts
<1>4. casts[j].id = casts[k].id
  BY <1>1, <1>2, <1>3, ListersAgree
<1>5. ContextKey(casts[j].id) = a[1] /\ ContextKey(casts[k].id) = b[1]
  BY <1>1, <1>2, <1>3, ContextIsOwn DEF Unshared, IsContext
<1>6. QED
  BY <1>3, <1>4, <1>5

(* A script that a member named is the one that this member, listed by this  *)
(* cast, asks for; and once all slots are passed, all that is asked is named. *)
LEMMA NamedIsAsked ==
  ASSUME LinkInv, OwnCasts, Unshared, NEW k \in DOMAIN casts, NEW n \in Named(casts[k]),
         NEW m, m = scripts[ScriptsOf(casts[k])[n]].member
  PROVE  /\ ScriptsOf(casts[k]) = Entries(casts[k].lctx)
         /\ <<casts[k].lctx, n, m>> \in Claims /\ Lists(casts[k], m)
<1> DEFINE x == casts[k].lctx
<1>0. CastsInv /\ ContextsInv /\ ScriptsInv /\ movie \in Movies
  BY DEF LinkInv, Linked, Control
<1>1. n \in DOMAIN ScriptsOf(casts[k]) /\ m # None
  BY DEF Named
<1>2. x # None
  BY <1>1 DEF ScriptsOf
<1>3. /\ x \in DOMAIN contexts
      /\ \E j \in DOMAIN casts : casts[j].section = casts[k].section /\ Owns(casts[j].id, "Lctx", x)
  BY <1>0, <1>2 DEF CastsInv, LeadsTo
<1>4. /\ ScriptsOf(casts[k]) = Entries(x) /\ x \in DOMAIN movie.contexts
      /\ \A i \in DOMAIN Entries(x) : Entries(x)[i] \in DOMAIN scripts
  BY <1>0, <1>2, <1>3 DEF ContextsInv, ScriptsOf
<1> HIDE DEF x
<1>5. PICK s \in DOMAIN scripts : s = Entries(x)[n] /\ n \in DOMAIN Entries(x) /\ scripts[s].member = m
  BY <1>1, <1>4
<1>6. HasClaim(m, s)
  BY <1>0, <1>1, <1>5 DEF ScriptsInv, OfScript
<1>7. PICK claim \in Claims : claim[3] = m /\ Entries(claim[1])[claim[2]] = s
  BY <1>6 DEF HasClaim, ClaimsOf
<1>8. /\ claim = <<claim[1], claim[2], claim[3]>>
      /\ claim[1] \in DOMAIN movie.contexts /\ claim[2] \in DOMAIN Entries(claim[1])
      /\ \E j \in DOMAIN casts : Owns(casts[j].id, "Lctx", claim[1]) /\ Lists(casts[j], claim[3])
  BY ClaimParts
<1>9. claim[1] = x /\ claim[2] = n
  BY <1>4, <1>5, <1>7, <1>8, NumberIsOne DEF Unshared
<1>10. PICK j \in DOMAIN casts : Owns(casts[j].id, "Lctx", x) /\ Lists(casts[j], m)
  BY <1>7, <1>8, <1>9
<1>11. casts[j].id = casts[k].id
  <2>1. PICK i \in DOMAIN casts : casts[i].section = casts[k].section /\ Owns(casts[i].id, "Lctx", x)
    BY <1>3
  <2>2. casts[i].id = casts[k].id
    BY <1>0, <2>1, ListIsOwn DEF Unshared
  <2>3. casts[i].id = casts[j].id
    BY <1>4, <1>10, <2>1, OwnerIsOne DEF Unshared, IsContext
  <2>4. QED
    BY <2>2, <2>3
<1>12. casts[j].section = casts[k].section
  BY <1>11 DEF OwnCasts
<1>13. Lists(casts[k], m)
  BY <1>10, <1>12 DEF Lists
<1>14. <<x, n, m>> \in Claims
  BY <1>7, <1>8, <1>9
<1>15. QED
  BY <1>4, <1>13, <1>14 DEF x

CastsAreRead == phase \in {"parse", "dump", "restore", "done"}
LEMMA AskedIsNamed ==
  ASSUME LinkInv, OwnCasts, OwnSlots, Unshared, CastsAreRead,
         NEW claim \in Claims, NEW k \in DOMAIN casts, Lists(casts[k], claim[3])
  PROVE  /\ casts[k].lctx = claim[1] /\ ScriptsOf(casts[k]) = Entries(claim[1])
         /\ claim[2] \in Named(casts[k]) /\ Entries(claim[1])[claim[2]] \in DOMAIN scripts
         /\ scripts[Entries(claim[1])[claim[2]]].member = claim[3]
         /\ claim[3] \in DOMAIN members
<1> DEFINE x == claim[1]
           m == claim[3]
<1>0. CastsInv /\ ContextsInv /\ ScriptsInv /\ movie \in Movies
  BY DEF LinkInv, Linked, Control
<1>1. /\ x \in DOMAIN movie.contexts /\ m \in DOMAIN movie.members
      /\ claim[2] = ScriptID(m) /\ claim[2] \in DOMAIN Entries(x)
      /\ \E j \in DOMAIN casts : Owns(casts[j].id, "Lctx", x) /\ Lists(casts[j], m)
  BY ClaimParts
<1> HIDE DEF x, m
<1>2. PICK j \in DOMAIN casts : Owns(casts[j].id, "Lctx", x) /\ Lists(casts[j], m)
  BY <1>1
<1>3. Lists(casts[k], m)
  BY DEF m
<1>4. casts[j].id = casts[k].id
  BY <1>0, <1>1, <1>2, <1>3, ListersAgree
<1>5. ContextKey(casts[k].id) = x
  BY <1>0, <1>1, <1>2, <1>4, ContextIsOwn DEF Unshared, IsContext
<1>6. casts[k].lctx = x
  BY <1>5 DEF OwnCasts, OwnContext, CastsAreRead, Unshared
<1>7. x \in Int /\ x # None
  BY <1>0, <1>1, MoviesAssumption DEF IsMovie
<1>8. x \in DOMAIN contexts
  BY <1>0, <1>6, <1>7 DEF CastsInv
<1>9. ScriptsOf(casts[k]) = Entries(x) /\ \A n \in DOMAIN Entries(x) : Entries(x)[n] \in DOMAIN scripts
  BY <1>0, <1>6, <1>7, <1>8 DEF ContextsInv, ScriptsOf
<1>10. PICK i : SlotIs(k, i, m)
  BY <1>3 DEF Lists, SlotIs
<1>11. m \in Nat /\ m > 0 /\ m \in Int
  BY <1>0, <1>1, MoviesAssumption DEF IsMovie
<1>12. OwnSlot(k, m)
  BY <1>10, <1>11 DEF OwnSlots, Passed, CastsAreRead
<1>13. m \in DOMAIN members /\ scripts[Entries(x)[claim[2]]].member = m
  BY <1>1, <1>9, <1>12 DEF OwnSlot
<1>14. m # None
  BY <1>11, MoviesAssumption
<1>15. claim[2] \in Named(casts[k])
  BY <1>1, <1>9, <1>13, <1>14 DEF Named
<1>16. QED
  BY <1>1, <1>6, <1>9, <1>13, <1>15 DEF x, m

(* As long as the casts stay the casts, what they share stays what it is.    *)
LEMMA ClaimsAreSame ==
  ASSUME CastsStand, DOMAIN casts' = DOMAIN casts
  PROVE  Claims' = Claims
<1>1. \A x : Entries(x)' = Entries(x)
  BY DEF CastsStand, Entries
<1>2. ASSUME NEW claim \in Claims'
      PROVE  claim \in Claims
  <2>1. PICK k \in DOMAIN casts' : (Owns(casts[k].id, "Lctx", claim[1]) /\ Lists(casts[k], claim[3]))'
    BY <1>2 DEF Claims
  <2>2. /\ claim \in ((DOMAIN movie.contexts)
                      \X (UNION {DOMAIN Entries(x) : x \in DOMAIN movie.contexts})
                      \X (DOMAIN movie.members))'
        /\ claim[2] = movie'.members[claim[3]].scriptID
        /\ claim[2] \in DOMAIN Entries(claim[1])'
    BY <1>2 DEF Claims
  <2>3. (UNION {DOMAIN Entries(x) : x \in DOMAIN movie.contexts})'
          = UNION {DOMAIN Entries(x) : x \in DOMAIN movie.contexts}
    BY <1>1 DEF CastsStand
  <2>4. /\ claim \in (DOMAIN movie.contexts)
                     \X (UNION {DOMAIN Entries(x) : x \in DOMAIN movie.contexts})
                     \X (DOMAIN movie.members)
        /\ claim[2] = movie.members[claim[3]].scriptID
        /\ claim[2] \in DOMAIN Entries(claim[1])
    BY <1>1, <2>2, <2>3 DEF CastsStand
  <2>5. k \in DOMAIN casts /\ Owns(casts[k].id, "Lctx", claim[1]) /\ Lists(casts[k], claim[3])
    BY <2>1 DEF CastsStand, Owns, Lists
  <2>6. QED
    BY <2>4, <2>5 DEF Claims
<1>3. QED
  BY <1>2, ClaimStands

LEMMA UnsharedStands ==
  ASSUME CastsStand, Unshared'
  PROVE  Unshared
<1>1. movie' = movie /\ \A x : Entries(x)' = Entries(x)
  BY DEF CastsStand, Entries
<1>2. OneOwner
  BY <1>1 DEF Unshared, OneOwner, MemberListKeys
<1>3. OneContext
  BY <1>1 DEF Unshared, OneContext, LiveKeys, IsContext
<1>4. Numbers' = Numbers
  BY <1>1 DEF Numbers
<1>5. OneNumber
  BY <1>1, <1>4 DEF Unshared, OneNumber
<1>6. Slots' = Slots
  BY <1>1 DEF Slots
<1>7. OneSlot
  BY <1>1, <1>6 DEF Unshared, OneSlot
<1>8. OneMember
  BY ClaimStands DEF Unshared, OneMember
<1>9. QED
  BY <1>2, <1>3, <1>5, <1>7, <1>8 DEF Unshared
-----------------------------------------------------------------------------
(* What steps leave as it is.                                              *)
LEMMA OwnCastsStand ==
  ASSUME OwnCasts, UNCHANGED <<movie, casts, contexts>>,
         phase' = phase \/ phase' = "aborted" \/ phase \notin {"context", "aborted"}
  PROVE  OwnCasts'
<1>1. \A id : SectionOf(id)' = SectionOf(id) /\ ContextKey(id)' = ContextKey(id)
  BY DEF SectionOf, SectionID, ContextKey, FirstKey, KeysOf, IsContext
<1>2. OneOwner' = OneOwner
  BY DEF OneOwner, MemberListKeys
<1>3. QED
  BY <1>1, <1>2 DEF OwnCasts, OwnContext, ContextsAreKept

ScriptsStand ==
  \A s \in DOMAIN scripts : /\ scripts'[s].declared = scripts[s].declared
                            /\ scripts'[s].factories = scripts[s].factories
                            /\ scripts'[s].member = scripts[s].member
LEMMA OwnScriptsStand ==
  ASSUME LinkInv, OwnScripts, CastsStand, contexts' = contexts,
         \A s \in DOMAIN scripts : /\ scripts'[s].declared = scripts[s].declared
                                   /\ scripts'[s].factories = scripts[s].factories
  PROVE  OwnScripts'
<1>1. movie' = movie /\ \A x : Entries(x)' = Entries(x)
  BY DEF CastsStand, Entries
<1>2. \A x, n : FactoriesInOrder(x, n)' = FactoriesInOrder(x, n)
  BY <1>1 DEF FactoriesInOrder, FactoryNumbers
<1>3. ASSUME Unshared', NEW x \in DOMAIN contexts, NEW n \in DOMAIN Entries(x)
      PROVE  OwnScript(x, n)'
  <2>1. OwnScript(x, n)
    BY <1>3, UnsharedStands DEF OwnScripts
  <2>2. Entries(x)[n] \in DOMAIN scripts
    BY <1>3 DEF LinkInv, Linked, ContextsInv
  <2>3. QED
    BY <1>1, <1>2, <2>1, <2>2 DEF OwnScript
<1>4. QED
  BY <1>1, <1>3 DEF OwnScripts

LEMMA OwnSlotStands ==
  ASSUME LinkInv, CastsStand, NEW k \in DOMAIN casts, NEW m, OwnSlot(k, m),
         Unshared => ScriptsOf(casts[k])' = ScriptsOf(casts[k]),
         DOMAIN members \subseteq DOMAIN members',
         \A s \in DOMAIN scripts : scripts'[s].member = scripts[s].member
  PROVE  OwnSlot(k, m)'
<1>1. \A n \in DOMAIN ScriptsOf(casts[k]) : ScriptsOf(casts[k])[n] \in DOMAIN scripts
  BY ScriptsOfType DEF LinkInv, Control, Linked
<1>2. ScriptID(m)' = ScriptID(m)
  BY DEF CastsStand, ScriptID
<1>3. Unshared' => Unshared
  BY UnsharedStands
<1>4. QED
  BY <1>1, <1>2, <1>3 DEF OwnSlot

PassedStands ==
  \A k \in DOMAIN casts : \A i, m : SlotIs(k, i, m) /\ m > 0 /\ Passed(k, i)' => Passed(k, i)
LEMMA OwnSlotsStand ==
  ASSUME LinkInv, OwnSlots, UNCHANGED <<movie, casts, contexts>>, ScriptsStand,
         DOMAIN members \subseteq DOMAIN members',
         phase # "aborted", PassedStands
  PROVE  OwnSlots'
<1>1. CastsStand
  BY DEF CastsStand
<1>2. ASSUME NEW k \in DOMAIN casts, NEW i, NEW m, SlotIs(k, i, m)', m > 0, Passed(k, i)'
      PROVE  OwnSlot(k, m)'
  <2>1. SlotIs(k, i, m)
    BY <1>2 DEF SlotIs
  <2>2. OwnSlot(k, m)
    BY <1>2, <2>1 DEF OwnSlots, PassedStands
  <2>3. ScriptsOf(casts[k])' = ScriptsOf(casts[k])
    BY DEF ScriptsOf
  <2>4. QED
    BY <1>1, <2>2, <2>3, OwnSlotStands DEF ScriptsStand
<1>3. QED
  BY <1>2 DEF OwnSlots

(* Before the first text is put back, members have the text of the movie or  *)
(* the one they had.                                                       *)
LEMMA OwnTextsStand ==
  ASSUME LinkInv', OwnTexts, movie' = movie,
         phase' \notin {"restore", "done"} \/ (phase' = "restore" /\ at' = 1),
         \A m \in DOMAIN members' :
           \/ m \in DOMAIN members /\ members'[m].text = members[m].text
           \/ m \in DOMAIN movie.members /\ members'[m].text = movie.members[m].text
  PROVE  OwnTexts'
<1>1. \A m \in DOMAIN members' :
        m \in DOMAIN movie.members /\ (IsRestored(m)' => movie.members[m].info)
  BY DEF OwnTexts, IsRestored
<1>2. \A k \in DOMAIN casts' : ~(k < 1)
  BY DEF LinkInv, Linked, CastsInv
<1>3. \A claim : ~Due(claim)'
  BY <1>2 DEF Due
<1>4. QED
  BY <1>1, <1>3 DEF OwnTexts

(* While casts are read, and nothing is.                                    *)
LEMMA IdleStep ==
  ASSUME LinkInv, LinkInv', OwnInv, UNCHANGED <<movie, casts, contexts, scripts, members, dumped>>,
         phase \in {"casts", "context", "members"},
         \/ phase' = "aborted"
         \/ PassedStands /\ (phase' = phase \/ (phase # "context" /\ phase' \in {"casts", "parse"}))
  PROVE  OwnInv'
<1>1. CastsStand /\ ScriptsStand
  BY DEF CastsStand, ScriptsStand
<1>2. OwnCasts'
  BY OwnCastsStand DEF OwnInv
<1>3. OwnScripts'
  BY <1>1, OwnScriptsStand DEF OwnInv
<1>4. OwnSlots'
  <2>1. CASE phase' = "aborted"
    BY <2>1 DEF OwnSlots
  <2>2. CASE PassedStands
    BY <1>1, <2>2, OwnSlotsStand DEF OwnInv
  <2>3. QED
    BY <2>1, <2>2
<1>5. OwnTexts'
  BY OwnTextsStand DEF OwnInv
<1>6. OwnFiles'
  BY DEF OwnFiles, OwnInv
<1>7. QED
  BY <1>2, <1>3, <1>4, <1>5, <1>6 DEF OwnInv

LEMMA OwnAbort ==
  ASSUME LinkInv, LinkInv', OwnInv, phase \in {"casts", "context", "members"}, Abort
  PROVE  OwnInv'
BY IdleStep DEF Abort

LEMMA OwnSkipCast ==
  ASSUME LinkInv, LinkInv', OwnInv, SkipCast
  PROVE  OwnInv'
<1>1. PassedStands
  BY DEF PassedStands, Passed, SkipCast
<1>2. QED
  BY <1>1, IdleStep DEF SkipCast

LEMMA OwnCastRead ==
  ASSUME LinkInv, LinkInv', OwnInv, CastRead
  PROVE  OwnInv'
<1>1. Cast = casts[Len(casts)] /\ Len(casts) \in DOMAIN casts /\ casts \in Seq(CastRecords)
  BY DEF CastRead, LinkInv, Linked, CastsInv, Control, Cast, Last
<1>2. ASSUME NEW k \in DOMAIN casts, NEW i, NEW m, SlotIs(k, i, m)
      PROVE  Passed(k, i)
  <2>1. CASE k = Len(casts)
    <3>1. movie.memberIDs[casts[k].section] \in Seq(Int)
      BY <1>2, MoviesAssumption DEF IsMovie, LinkInv, Linked, CastsInv, Control
    <3>2. i \in 1 .. Len(MemberIDs)
      BY <1>1, <1>2, <2>1, <3>1 DEF SlotIs, MemberIDs
    <3>3. slot > Len(MemberIDs) /\ slot \in Nat
      BY DEF CastRead, LinkInv, Control
    <3>4. Len(MemberIDs) \in Nat
      BY <1>1, <2>1, <3>1 DEF MemberIDs
    <3>5. i < slot
      BY <3>2, <3>3, <3>4
    <3>6. QED
      BY <3>5 DEF Passed, CastRead
  <2>2. CASE k # Len(casts)
    <3>1. k < Len(casts)
      BY <1>1, <1>2, <2>2
    <3>2. QED
      BY <3>1 DEF Passed
  <2>3. QED
    BY <2>1, <2>2
<1>3. PassedStands
  BY <1>2 DEF PassedStands
<1>4. QED
  BY <1>3, IdleStep DEF CastRead

LEMMA OwnCastsRead ==
  ASSUME LinkInv, LinkInv', OwnInv, CastsRead
  PROVE  OwnInv'
<1>1. PassedStands
  BY DEF PassedStands, Passed, CastsRead
<1>2. QED
  BY <1>1, IdleStep DEF CastsRead
-----------------------------------------------------------------------------
(* The steps that make the links.                                           *)
LEMMA EntryIsOwn ==
  ASSUME movie \in Movies, NEW k \in 1 .. Len(CastEntries)
  PROVE  /\ CastEntries[k].section = SectionOf(CastEntries[k].id)
         /\ ~movie.listed => CastEntries[k].id = 1024
<1>1. CASE movie.listed
  <2>1. DOMAIN CastEntries = DOMAIN movie.castList
    BY <1>1 DEF CastEntries
  <2>2. movie.castList \in Seq([name : DOMAIN Clean, id : Int, minMember : Int])
    BY MoviesAssumption DEF IsMovie
  <2>3. DOMAIN CastEntries = 1 .. Len(movie.castList) /\ Len(movie.castList) \in Nat
    BY <2>1, <2>2
  <2>4. Len(CastEntries) = Len(movie.castList)
    <3>1. CastEntries = [i \in 1 .. Len(movie.castList) |-> CastEntries[i]]
      BY <1>1, <2>1, <2>3 DEF CastEntries
    <3>2. QED
      BY <2>3, <3>1
  <2>5. k \in DOMAIN movie.castList
    BY <2>1, <2>3, <2>4
  <2>6. /\ CastEntries[k].id = movie.castList[k].id
        /\ CastEntries[k].section = SectionID(movie.castList[k].id)
    BY <1>1, <2>5 DEF CastEntries
  <2>7. QED
    BY <1>1, <2>6 DEF SectionOf
<1>2. CASE ~movie.listed
  <2>1. CASE movie.firstCast = None
    <3>1. Len(CastEntries) = 0
      BY <1>2, <2>1 DEF CastEntries
    <3>2. QED
      BY <3>1
  <2>2. CASE movie.firstCast # None
    <3> DEFINE entry == [name |-> IF movie.modern THEN "External" ELSE "Internal", id |-> 1024,
                         minMember |-> movie.minMember, section |-> movie.firstCast]
    <3>1. CastEntries = <<entry>>
      BY <1>2, <2>2 DEF CastEntries
    <3>2. entry.id = 1024 /\ entry.section = movie.firstCast
      OBVIOUS
    <3> HIDE DEF entry
    <3>3. CastEntries[k] = entry
      BY <3>1
    <3>4. QED
      BY <1>2, <3>2, <3>3 DEF SectionOf
  <2>3. QED
    BY <2>1, <2>2
<1>3. QED
  BY <1>1, <1>2

LEMMA OwnReadCast ==
  ASSUME LinkInv, LinkInv', OwnInv, ReadCast
  PROVE  OwnInv'
<1> DEFINE entry == CastEntries[at]
           cast == [name |-> entry.name, id |-> entry.id, minMember |-> entry.minMember,
                    section |-> entry.section, lctx |-> ContextSoFar(entry.section)]
           renamed == Renamed(entry.section, entry.name)
<1>1. at \in 1 .. Len(CastEntries) /\ movie \in Movies /\ phase = "casts"
  BY DEF ReadCast, LinkInv, Control
<1>2. CASE entry.section \notin DOMAIN movie.memberIDs
  <2>1. Abort
    BY <1>2 DEF ReadCast
  <2>2. QED
    BY <1>1, <2>1, OwnAbort
<1>3. CASE entry.section \in DOMAIN movie.memberIDs
  <2>1. /\ casts' = Append(renamed, cast) /\ phase' = "context"
        /\ UNCHANGED <<movie, contexts, scripts, members, at, slot, dumped>>
    BY <1>3 DEF ReadCast
  <2>2. cast.section = SectionOf(cast.id) /\ (~movie.listed => cast.id = 1024)
    BY <1>1, EntryIsOwn
  <2>3. /\ casts \in Seq(CastRecords) /\ Len(casts) \in Nat /\ DOMAIN casts = 1 .. Len(casts)
        /\ OwnCasts /\ CastsInv
    BY DEF LinkInv, Linked, CastsInv, OwnInv
  <2>4. /\ renamed \in Seq(CastRecords) /\ Len(renamed) = Len(casts)
         /\ \A k \in DOMAIN casts : /\ renamed[k].id = casts[k].id
                                   /\ renamed[k].section = casts[k].section
                                   /\ renamed[k].lctx = casts[k].lctx
    BY <1>1, <2>3, CastEntriesType, RenamedShape DEF ReadCast
  <2>5. \/ cast.lctx = None
         \/ \E k \in DOMAIN casts : casts[k].section = cast.section /\ casts[k].lctx = cast.lctx
    BY <2>3, ContextSoFarIs
  <2> HIDE DEF cast, renamed
  <2>6. /\ Len(casts') = Len(casts) + 1
        /\ DOMAIN casts' = 1 .. Len(casts) + 1
        /\ casts'[Len(casts) + 1] = cast
        /\ \A k \in DOMAIN casts : /\ k \in DOMAIN casts'
                                  /\ casts'[k].id = casts[k].id
                                  /\ casts'[k].section = casts[k].section
                                  /\ casts'[k].lctx = casts[k].lctx
    <3>1. \A k \in DOMAIN casts : k \in DOMAIN casts' /\ casts'[k] = renamed[k]
      BY <2>1, <2>3, <2>4
    <3>2. /\ Len(casts') = Len(casts) + 1
          /\ DOMAIN casts' = 1 .. Len(casts) + 1
          /\ casts'[Len(casts) + 1] = cast
      BY <2>1, <2>3, <2>4
    <3>3. QED
      BY <2>4, <3>1, <3>2
  <2>7. CastsStand
    BY <2>1, <2>6 DEF CastsStand
  <2>8. \A id : SectionOf(id)' = SectionOf(id) /\ ContextKey(id)' = ContextKey(id)
    BY <2>1 DEF SectionOf, SectionID, ContextKey, FirstKey, KeysOf, IsContext
  <2>9. OwnCasts'
    <3>1. OneOwner' = OneOwner
      BY <2>1 DEF OneOwner, MemberListKeys
    <3>2. ASSUME OneOwner, cast.lctx # None
          PROVE  cast.lctx = ContextKey(cast.id)
      <4>1. PICK k \in DOMAIN casts : casts[k].section = cast.section /\ casts[k].lctx = cast.lctx
        BY <2>5, <3>2
      <4>2. casts[k].id = cast.id
        <5>1. PICK a, b : a = casts[k].id /\ b = cast.id
          OBVIOUS
        <5>2. (a = 1024 /\ b = 1024) \/ movie.listed
          BY <2>2, <2>3, <5>1 DEF OwnCasts
        <5>3. SectionOf(a) = casts[k].section /\ SectionOf(b) = cast.section
          BY <2>2, <2>3, <5>1 DEF OwnCasts
        <5>4. SectionOf(a) = SectionOf(b) /\ SectionOf(a) \in DOMAIN movie.memberIDs
          BY <2>3, <4>1, <5>3 DEF CastsInv
        <5>5. a = b
          BY <1>1, <3>2, <5>2, <5>4, IdIsOne
        <5>6. QED
          BY <5>1, <5>5
      <4>3. QED
        BY <1>1, <2>3, <3>2, <4>1, <4>2 DEF OwnCasts, OwnContext
    <3>3. ASSUME NEW k \in DOMAIN casts'
          PROVE  /\ casts'[k].section = SectionOf(casts'[k].id)
                 /\ ~movie.listed => casts'[k].id = 1024
                 /\ OneOwner => \/ casts'[k].lctx = ContextKey(casts'[k].id)
                                \/ k = Len(casts') /\ casts'[k].lctx = None
      <4>1. CASE k \in DOMAIN casts
        BY <1>1, <2>3, <2>6, <4>1 DEF OwnCasts, OwnContext
      <4>2. CASE k = Len(casts) + 1
        BY <2>2, <2>6, <3>2, <4>2
      <4>3. QED
        BY <2>3, <2>6, <3>3, <4>1, <4>2
    <3>4. OneOwner => ContextsAreKept'
      BY <2>1, <2>3, <2>6 DEF OwnCasts, ContextsAreKept
    <3>5. QED
      BY <2>1, <2>8, <3>1, <3>3, <3>4 DEF OwnCasts, OwnContext
  <2>10. OwnScripts'
    BY <2>1, <2>7, OwnScriptsStand DEF OwnInv
  <2>11. ASSUME NEW k \in DOMAIN casts', NEW i, NEW m, SlotIs(k, i, m)', m > 0, Passed(k, i)'
        PROVE  OwnSlot(k, m)'
    <3>1. k \in DOMAIN casts
      BY <2>1, <2>3, <2>6, <2>11 DEF Passed
    <3>2. SlotIs(k, i, m) /\ Passed(k, i)
      BY <1>1, <2>1, <2>6, <2>11, <3>1 DEF SlotIs, Passed
    <3>3. OwnSlot(k, m)
      BY <1>1, <2>11, <3>1, <3>2 DEF OwnInv, OwnSlots
    <3>4. ScriptsOf(casts[k])' = ScriptsOf(casts[k])
      BY <2>1, <2>6, <3>1 DEF ScriptsOf
    <3>5. QED
      BY <2>1, <2>7, <3>1, <3>3, <3>4, OwnSlotStands
  <2>12. OwnSlots'
    BY <2>11 DEF OwnSlots
  <2>13. OwnTexts'
    BY <2>1, OwnTextsStand DEF OwnInv
  <2>14. OwnFiles'
    BY <1>1, <2>1 DEF OwnFiles, OwnInv
  <2>15. QED
    BY <2>9, <2>10, <2>12, <2>13, <2>14 DEF OwnInv
<1>4. QED
  BY <1>2, <1>3

(* A script with one number gets its names and its factories at once.       *)
LEMMA ReadOnce ==
  ASSUME LinkInv, Unshared, NEW x \in DOMAIN movie.contexts, x \notin DOMAIN contexts, ~ContextThrows(x),
         NEW n \in DOMAIN Entries(x), NEW s, s = Entries(x)[n]
  PROVE  Declared(x, s) = <<movie.contexts[x].names>> /\ FactoriesOf(x, s) = FactoriesInOrder(x, n)
<1>0. movie \in Movies
  BY DEF LinkInv, Control
<1>1. s \notin DOMAIN scripts
  <2>1. ASSUME s \in DOMAIN scripts
        PROVE  FALSE
    <3>1. PICK y \in DOMAIN contexts : \E l \in DOMAIN Entries(y) : Entries(y)[l] = s
      BY <2>1 DEF LinkInv, Linked, ScriptsInv, OfScript
    <3>2. y \in DOMAIN movie.contexts
      BY DEF LinkInv, Linked, ContextsInv
    <3>3. x = y
      BY <3>1, <3>2, NumberIsOne DEF Unshared
    <3>4. QED
      BY <3>3
  <2>2. QED
    BY <2>1
<1>2. ScriptObject(s).declared = <<>> /\ ScriptObject(s).factories = <<>>
  BY <1>1 DEF ScriptObject, Unlinked
<1>3. Declared(x, s) = <<movie.contexts[x].names>>
  <2>1. {l \in DOMAIN Entries(x) : Entries(x)[l] = s} = {n}
    BY NumberIsOne DEF Unshared
  <2>2. Cardinality({n}) = 1
    BY FS_Singleton
  <2>3. PICK names : names = movie.contexts[x].names
    OBVIOUS
  <2>4. Declared(x, s) = <<>> \o [k \in 1 .. 1 |-> names]
    BY <1>2, <2>1, <2>2, <2>3 DEF Declared
  <2>5. <<>> \o [k \in 1 .. 1 |-> names] = <<names>>
    OBVIOUS
  <2>6. QED
    BY <2>3, <2>4, <2>5
<1>4. FactoriesOf(x, s) = FactoriesInOrder(x, n)
  <2> DEFINE F == FactoryNumbers(x, n)
             A == {l \in DOMAIN Entries(x) :
                     LET parent == movie.scripts[Entries(x)[l]].parent
                     IN  parent # None /\ Entries(x)[parent + 1] = s}
  <2>1. ASSUME NEW l \in DOMAIN Entries(x)
        PROVE  l \in A <=> l \in F
    <3>1. PICK parent : parent = movie.scripts[Entries(x)[l]].parent
      OBVIOUS
    <3>2. n \in Int /\ parent \in Int \cup {None} /\ Entries(x)[l] \in DOMAIN movie.scripts
      <4>1. n \in Int
        BY <1>0, EntriesType
      <4>2. Entries(x)[l] \in DOMAIN movie.scripts
        BY DEF ContextThrows
      <4>3. QED
        BY <1>0, <3>1, <4>1, <4>2, MoviesAssumption DEF IsMovie
    <3>3. ASSUME parent # None
          PROVE  parent + 1 \in DOMAIN Entries(x)
      <4> DEFINE sections == movie.contexts[x].sections
      <4>1. l \in DOMAIN sections /\ sections[l] = Entries(x)[l] /\ sections[l] > -1
        BY DEF Entries
      <4>2. parent + 1 \in DOMAIN sections /\ sections[parent + 1] \in DOMAIN movie.scripts
        BY <1>0, <3>1, <3>2, <3>3, <4>1, FactoriesAssumption
      <4>3. sections[parent + 1] \in Nat
        BY <1>0, <4>2, MoviesAssumption DEF IsMovie
      <4>4. sections[parent + 1] > -1
        BY <4>3
      <4>5. QED
        BY <4>2, <4>4 DEF Entries
    <3>4. ASSUME parent # None
          PROVE  Entries(x)[parent + 1] = s <=> parent + 1 = n
      BY <3>3, <3>4, NumberIsOne DEF Unshared
    <3>5. l \in A <=> (parent # None /\ Entries(x)[parent + 1] = s)
      BY <3>1
    <3>6. l \in F <=> parent = n - 1
      BY <3>1 DEF FactoryNumbers
    <3>7. n - 1 # None
      BY <3>2, MoviesAssumption
    <3>8. QED
      BY <3>2, <3>4, <3>5, <3>6, <3>7
  <2>2. A = F
    BY <2>1 DEF FactoryNumbers
  <2>3. PICK q : q = InOrder(F)
    OBVIOUS
  <2>4. q \in [1 .. Cardinality(F) -> F] /\ Cardinality(F) \in Nat
    <3>1. F \subseteq 1 .. Len(movie.contexts[x].sections) /\ Len(movie.contexts[x].sections) \in Nat
      BY <1>0, EntriesType DEF FactoryNumbers
    <3> HIDE DEF F
    <3>2. F \subseteq 0 .. Len(movie.contexts[x].sections)
      BY <3>1
    <3>3. IsInOrder(InOrder(F), F) /\ Cardinality(F) \in Nat
      BY <3>1, <3>2, InOrderExists
    <3>4. QED
      BY <2>3, <3>3 DEF IsInOrder
  <2>5. FactoriesOf(x, s) = <<>> \o [k \in DOMAIN q |-> Entries(x)[q[k]]]
    BY <1>2, <2>2, <2>3 DEF FactoriesOf
  <2>6. FactoriesInOrder(x, n) = [k \in 1 .. Cardinality(F) |-> Entries(x)[q[k]]]
    BY <2>3 DEF FactoriesInOrder
  <2>7. \A k \in 1 .. Cardinality(F) : Entries(x)[q[k]] \in Int
    BY <1>0, <2>4, EntriesType DEF FactoryNumbers
  <2> HIDE DEF F
  <2>8. PICK made : made = [k \in 1 .. Cardinality(F) |-> Entries(x)[q[k]]]
    OBVIOUS
  <2>9. made \in Seq(Int)
    BY <2>4, <2>7, <2>8
  <2>10. <<>> \o made = made
    BY <2>9
  <2>11. DOMAIN q = 1 .. Cardinality(F)
    BY <2>4
  <2>12. QED
    BY <2>5, <2>6, <2>8, <2>10, <2>11
<1>5. QED
  BY <1>3, <1>4

LEMMA OwnLinkContext ==
  ASSUME LinkInv, LinkInv', OwnInv, LinkContext
  PROVE  OwnInv'
<1> DEFINE x == ContextKey(Cast.id)
           last == Len(casts)
<1>0. /\ phase = "context" /\ slot' = 1 /\ UNCHANGED <<movie, members, at, dumped>>
      /\ movie \in Movies /\ CastsInv /\ ContextsInv /\ ScriptsInv /\ OwnCasts
  BY DEF LinkContext, LinkInv, Linked, Control, OwnInv
<1>1. /\ casts \in Seq(CastRecords) /\ last \in Nat /\ DOMAIN casts = 1 .. last /\ last \in DOMAIN casts
      /\ Cast = casts[last]
  BY DEF LinkContext, LinkInv, Linked, CastsInv, Control, Cast, Last
<1>2. ASSUME NEW k \in DOMAIN casts, NEW i, SlotIs(k, i, movie.memberIDs[casts[k].section][i])
      PROVE  i \in Nat /\ i >= 1
  <2>1. movie.memberIDs[casts[k].section] \in Seq(Int)
    BY <1>0, MoviesAssumption DEF IsMovie, CastsInv
  <2>2. QED
    BY <1>2, <2>1 DEF SlotIs
<1>3. CASE phase' = "aborted" /\ UNCHANGED <<casts, contexts, scripts>>
  BY <1>0, <1>3, IdleStep
<1> HIDE DEF x
<1>4. CASE /\ phase' = "members"
           /\ casts' \in Seq(CastRecords) /\ Len(casts') = last /\ DOMAIN casts' = DOMAIN casts
           /\ \A k \in DOMAIN casts :
                /\ casts'[k].id = casts[k].id /\ casts'[k].section = casts[k].section
                /\ casts'[k].lctx = IF x # None /\ casts[k].section = casts[last].section THEN x
                                    ELSE casts[k].lctx
           /\ \/ UNCHANGED <<contexts, scripts>>
              \/ IsContext(x) /\ x \notin DOMAIN contexts /\ ~ContextThrows(x) /\ ReadContext(x)
  <2>1. CastsStand
    BY <1>0, <1>4 DEF CastsStand
  <2>2. ASSUME OneOwner, NEW k \in DOMAIN casts
        PROVE  /\ casts'[k].lctx = ContextKey(casts[k].id)
               /\ k # last => casts'[k].lctx = casts[k].lctx
    <3>1. casts[k].section = casts[last].section => casts[k].id = casts[last].id
      BY <1>0, <1>1, <2>2, ListIsOwn
    <3>2. casts[k].section = casts[last].section => ContextKey(casts[k].id) = x
      BY <1>1, <3>1 DEF x
    <3>3. OwnContext(k)
      BY <1>0, <2>2 DEF OwnCasts
    <3>4. k # last => casts[k].lctx = ContextKey(casts[k].id)
      BY <3>3 DEF OwnContext
    <3>5. CASE x = None
      BY <1>1, <1>4, <3>2, <3>3, <3>4, <3>5 DEF OwnContext
    <3>6. CASE x # None
      BY <1>1, <1>4, <3>2, <3>4, <3>6
    <3>7. QED
      BY <3>5, <3>6
  <2>11. OwnCasts'
    <3>1. \A id : SectionOf(id)' = SectionOf(id) /\ ContextKey(id)' = ContextKey(id)
      BY <1>0 DEF SectionOf, SectionID, ContextKey, FirstKey, KeysOf, IsContext
    <3>2. OneOwner' = OneOwner
      BY <1>0 DEF OneOwner, MemberListKeys
    <3>3. ASSUME NEW k \in DOMAIN casts
          PROVE  /\ casts'[k].section = SectionOf(casts'[k].id)
                 /\ ~movie.listed => casts'[k].id = 1024
                 /\ OneOwner => casts'[k].lctx = ContextKey(casts'[k].id)
      BY <1>0, <1>4, <2>2, <3>3 DEF OwnCasts
    <3>4. ASSUME OneOwner, NEW y \in DOMAIN contexts'
          PROVE  \E k \in DOMAIN casts : casts'[k].lctx = y
      <4>1. CASE y \in DOMAIN contexts
        <5>1. PICK k \in DOMAIN casts : casts[k].lctx = y
          BY <1>0, <3>4, <4>1 DEF OwnCasts, ContextsAreKept
        <5>2. y # None
          BY <1>0, <4>1, MoviesAssumption DEF ContextsInv, IsMovie
        <5>3. casts[k].lctx = ContextKey(casts[k].id)
          BY <1>0, <3>4, <5>1, <5>2 DEF OwnCasts, OwnContext
        <5>4. QED
          BY <2>2, <3>4, <5>1, <5>3
      <4>2. CASE y \notin DOMAIN contexts
        <5>1. y = x
          BY <1>4, <3>4, <4>2 DEF ReadContext, With
        <5>2. QED
          BY <1>1, <2>2, <3>4, <5>1 DEF x
      <4>3. QED
        BY <4>1, <4>2
    <3>5. OneOwner => ContextsAreKept'
      BY <1>4, <3>4 DEF ContextsAreKept
    <3>6. QED
      BY <1>0, <1>4, <3>1, <3>2, <3>3, <3>5 DEF OwnCasts, OwnContext
  <2>3. \A s \in DOMAIN scripts : scripts'[s].member = scripts[s].member
    <3>1. CASE ReadContext(x)
      <4>1. ASSUME NEW s \in DOMAIN scripts
            PROVE  scripts'[s].member = scripts[s].member
        <5> DEFINE read == {Entries(x)[n] : n \in DOMAIN Entries(x)}
        <5>1. PICK names, declared, factories :
                names = movie.contexts[x].names /\ declared = Declared(x, s)
                /\ factories = FactoriesOf(x, s)
          OBVIOUS
        <5>2. scripts'[s] = IF s \notin read THEN scripts[s]
                            ELSE [scripts[s] EXCEPT !.names = names, !.declared = declared,
                                                    !.factories = factories]
          BY <3>1, <5>1 DEF ReadContext, ScriptObject
        <5>3. scripts[s] \in ScriptRecords
          BY <1>0 DEF ScriptsInv, OfScript
        <5> HIDE DEF read
        <5>4. QED
          BY <5>2, <5>3 DEF ScriptRecords
      <4>2. QED
        BY <4>1
    <3>2. QED
      BY <1>4, <3>1
  <2>4. \A y \in DOMAIN contexts : y \in DOMAIN contexts' /\ contexts'[y] = contexts[y]
    BY <1>4 DEF ReadContext, With
  <2>5. OwnScripts'
    <3>1. CASE UNCHANGED <<contexts, scripts>>
      BY <2>1, <3>1, OwnScriptsStand DEF OwnInv
    <3>2. CASE IsContext(x) /\ x \notin DOMAIN contexts /\ ~ContextThrows(x) /\ ReadContext(x)
      <4> DEFINE read == {Entries(x)[n] : n \in DOMAIN Entries(x)}
      <4>1. \A y, n : Entries(y)' = Entries(y) /\ FactoriesInOrder(y, n)' = FactoriesInOrder(y, n)
        BY <1>0 DEF Entries, FactoriesInOrder, FactoryNumbers
      <4>2. DOMAIN contexts' = DOMAIN contexts \cup {x} /\ x \in DOMAIN movie.contexts
        BY <3>2 DEF ReadContext, With, IsContext
      <4>3. ASSUME Unshared', NEW y \in DOMAIN contexts', NEW n \in DOMAIN Entries(y)
            PROVE  OwnScript(y, n)'
        <5>1. Unshared
          BY <2>1, <4>3, UnsharedStands
        <5>2. PICK s : s = Entries(y)[n]
          OBVIOUS
        <5>3. CASE y = x
          <6>1. Declared(x, s) = <<movie.contexts[x].names>> /\ FactoriesOf(x, s) = FactoriesInOrder(x, n)
            BY <3>2, <4>2, <4>3, <5>1, <5>2, <5>3, ReadOnce
          <6>2. s \in read
            BY <4>3, <5>2, <5>3
          <6>3. PICK o, names, declared, factories :
                  /\ o = ScriptObject(s) /\ names = movie.contexts[x].names
                  /\ declared = Declared(x, s) /\ factories = FactoriesOf(x, s)
            OBVIOUS
          <6>4. scripts'[s] = [o EXCEPT !.names = names, !.declared = declared, !.factories = factories]
            BY <3>2, <6>2, <6>3 DEF ReadContext
          <6>5. o \in ScriptRecords
            <7>1. CASE s \in DOMAIN scripts
              BY <1>0, <6>3, <7>1 DEF ScriptObject, ScriptsInv, OfScript
            <7>2. CASE s \notin DOMAIN scripts
              BY <6>3, <7>2 DEF ScriptObject, Unlinked, ScriptRecords, SectionsAndNone
            <7>3. QED
              BY <7>1, <7>2
          <6>6. scripts'[s].declared = declared /\ scripts'[s].factories = factories
            BY <6>4, <6>5 DEF ScriptRecords
          <6>7. QED
            BY <1>0, <4>1, <5>2, <5>3, <6>1, <6>3, <6>6 DEF OwnScript
        <5>4. CASE y # x
          <6>1. y \in DOMAIN contexts
            BY <4>2, <4>3, <5>4
          <6>2. y \in DOMAIN movie.contexts /\ s \in DOMAIN scripts
            BY <1>0, <4>3, <5>2, <6>1 DEF ContextsInv
          <6>3. s \notin read
            BY <4>2, <4>3, <5>1, <5>2, <5>4, <6>2, NumberIsOne DEF Unshared
          <6>4. scripts'[s] = scripts[s]
            BY <3>2, <6>2, <6>3 DEF ReadContext
          <6>5. OwnScript(y, n)
            BY <4>3, <5>1, <6>1 DEF OwnInv, OwnScripts
          <6>6. QED
            BY <1>0, <4>1, <5>2, <6>4, <6>5 DEF OwnScript
        <5>5. QED
          BY <5>3, <5>4
      <4>4. QED
        BY <4>1, <4>3 DEF OwnScripts
    <3>3. QED
      BY <1>4, <3>1, <3>2
  <2>6. ASSUME NEW k \in DOMAIN casts', NEW i, NEW m, SlotIs(k, i, m)', m > 0, Passed(k, i)'
        PROVE  OwnSlot(k, m)'
    <3>1. k \in DOMAIN casts /\ SlotIs(k, i, m)
      BY <1>0, <1>4, <2>6 DEF SlotIs
    <3>2. i \in Nat /\ i >= 1
      BY <1>2, <3>1 DEF SlotIs
    <3>3. k < last
      <4>1. k < Len(casts') \/ i < slot'
        BY <1>4, <2>6 DEF Passed
      <4>2. QED
        BY <1>0, <1>4, <3>2, <4>1
    <3>4. OwnSlot(k, m)
      BY <1>0, <2>6, <3>1, <3>3 DEF OwnInv, OwnSlots, Passed
    <3>5. OneOwner => casts'[k].lctx = casts[k].lctx
      BY <1>1, <2>2, <3>1, <3>3
    <3>6. Unshared => ScriptsOf(casts[k])' = ScriptsOf(casts[k])
      <4>1. casts[k].lctx # None => casts[k].lctx \in DOMAIN contexts
        BY <1>0, <3>1 DEF CastsInv
      <4>2. QED
        BY <2>4, <3>5, <4>1 DEF ScriptsOf, Unshared
    <3>7. QED
      BY <1>0, <2>1, <2>3, <3>1, <3>4, <3>6, OwnSlotStands
  <2>7. OwnSlots'
    BY <2>6 DEF OwnSlots
  <2>8. OwnTexts'
    BY <1>0, <1>4, OwnTextsStand DEF OwnInv
  <2>9. OwnFiles'
    BY <1>0, <1>4 DEF OwnFiles, OwnInv
  <2>10. QED
    BY <2>5, <2>7, <2>8, <2>9, <2>11 DEF OwnInv
<1>5. CASE x = None
  <2>1. UNCHANGED <<casts, contexts, scripts>> /\ phase' = "members"
    BY <1>5 DEF LinkContext, x
  <2>2. QED
    BY <1>1, <1>4, <1>5, <2>1
<1>6. CASE x # None /\ (~IsContext(x) \/ (x \notin DOMAIN contexts /\ ContextThrows(x)))
  <2>1. UNCHANGED <<casts, contexts, scripts>> /\ phase' = "aborted"
    BY <1>6 DEF LinkContext, x
  <2>2. QED
    BY <1>3, <2>1
<1>7. CASE x # None /\ ~(~IsContext(x) \/ (x \notin DOMAIN contexts /\ ContextThrows(x)))
  <2>1. /\ casts' = WithContext(casts[last].section, x) /\ phase' = "members"
        /\ IF x \in DOMAIN contexts THEN UNCHANGED <<contexts, scripts>> ELSE ReadContext(x)
    BY <1>1, <1>7 DEF LinkContext, x
  <2>2. x \in Int
    BY <1>0, <1>7, MoviesAssumption DEF IsMovie, IsContext
  <2>3. PICK section : section = casts[last].section
    OBVIOUS
  <2>4. casts' = WithContext(section, x)
    BY <2>1, <2>3
  <2>5. /\ casts' \in Seq(CastRecords) /\ Len(casts') = last
        /\ \A k \in DOMAIN casts :
             /\ casts'[k].id = casts[k].id /\ casts'[k].section = casts[k].section
             /\ casts'[k].lctx = IF casts[k].section = section THEN x ELSE casts[k].lctx
    BY <1>1, <2>2, <2>4, WithContextShape
  <2>6. DOMAIN casts' = DOMAIN casts
    BY <1>1, <2>5
  <2>7. \/ UNCHANGED <<contexts, scripts>>
        \/ IsContext(x) /\ x \notin DOMAIN contexts /\ ~ContextThrows(x) /\ ReadContext(x)
    BY <1>7, <2>1
  <2>8. QED
    BY <1>4, <1>7, <2>1, <2>3, <2>5, <2>6, <2>7
<1>8. QED
  BY <1>5, <1>6, <1>7

(* A member that a cast lists claims the script that it names there.        *)
LEMMA LinkedClaim ==
  ASSUME LinkInv, NEW k \in DOMAIN casts, NEW m \in DOMAIN movie.members, Lists(casts[k], m),
         ScriptID(m) \in DOMAIN ScriptsOf(casts[k])
  PROVE  /\ casts[k].lctx \in DOMAIN movie.contexts
         /\ ScriptsOf(casts[k]) = Entries(casts[k].lctx)
         /\ <<casts[k].lctx, ScriptID(m), m>> \in Claims
<1>1. casts[k].lctx # None
  BY DEF ScriptsOf
<1>2. /\ casts[k].lctx \in DOMAIN contexts
      /\ \E j \in DOMAIN casts : /\ casts[j].section = casts[k].section
                                /\ Owns(casts[j].id, "Lctx", casts[k].lctx)
  BY <1>1 DEF LinkInv, Linked, CastsInv, LeadsTo
<1>3. casts[k].lctx \in DOMAIN movie.contexts /\ ScriptsOf(casts[k]) = Entries(casts[k].lctx)
  BY <1>1, <1>2 DEF LinkInv, Linked, ContextsInv, ScriptsOf
<1>4. PICK j \in DOMAIN casts : /\ casts[j].section = casts[k].section
                                /\ Owns(casts[j].id, "Lctx", casts[k].lctx)
  BY <1>2
<1>5. Lists(casts[j], m)
  BY <1>4 DEF Lists
<1>6. <<casts[k].lctx, ScriptID(m), m>> \in Claims
  BY <1>3, <1>4, <1>5, ClaimIsMade
<1>7. QED
  BY <1>3, <1>6

(* Two members that name one script are one.                                *)
LEMMA NamersAgree ==
  ASSUME LinkInv, Unshared, NEW j \in DOMAIN casts, NEW k \in DOMAIN casts,
         NEW l \in DOMAIN movie.members, NEW m \in DOMAIN movie.members,
         Lists(casts[j], l), Lists(casts[k], m),
         ScriptID(l) \in DOMAIN ScriptsOf(casts[j]), ScriptID(m) \in DOMAIN ScriptsOf(casts[k]),
         ScriptsOf(casts[j])[ScriptID(l)] = ScriptsOf(casts[k])[ScriptID(m)]
  PROVE  l = m
<1> DEFINE a == <<casts[j].lctx, ScriptID(l), l>>
           b == <<casts[k].lctx, ScriptID(m), m>>
<1>1. /\ casts[j].lctx \in DOMAIN movie.contexts /\ ScriptsOf(casts[j]) = Entries(casts[j].lctx)
      /\ a \in Claims
  BY LinkedClaim
<1>2. /\ casts[k].lctx \in DOMAIN movie.contexts /\ ScriptsOf(casts[k]) = Entries(casts[k].lctx)
      /\ b \in Claims
  BY LinkedClaim
<1>3. casts[j].lctx = casts[k].lctx /\ ScriptID(l) = ScriptID(m)
  BY <1>1, <1>2, NumberIsOne DEF Unshared
<1>4. a[1] = b[1] /\ a[2] = b[2]
  BY <1>3
<1>5. a = b
  BY <1>1, <1>2, <1>4 DEF Unshared, OneMember
<1>6. QED
  BY <1>5

LEMMA OwnLinkMember ==
  ASSUME LinkInv, LinkInv', OwnInv, LinkMember
  PROVE  OwnInv'
<1> DEFINE m == MemberIDs[slot]
           linked == ScriptID(m) \in DOMAIN ScriptsOf(Cast)
           last == Len(casts)
<1>0. /\ phase = "members" /\ slot <= Len(MemberIDs) /\ slot \in Nat \ {0} /\ movie \in Movies
      /\ casts \in Seq(CastRecords) /\ last \in Nat /\ DOMAIN casts = 1 .. last /\ last \in DOMAIN casts
      /\ Cast = casts[last] /\ casts[last].section \in DOMAIN movie.memberIDs
  BY DEF LinkMember, LinkInv, Linked, CastsInv, Control, Cast, Last
<1>1. SlotIs(last, slot, m) /\ Lists(casts[last], m) /\ m \in Int
  <2>1. movie.memberIDs[casts[last].section] \in Seq(Int)
    BY <1>0, MoviesAssumption DEF IsMovie
  <2>2. MemberIDs = movie.memberIDs[casts[last].section]
    BY <1>0 DEF MemberIDs
  <2>3. slot \in DOMAIN movie.memberIDs[casts[last].section]
    BY <1>0, <2>1, <2>2
  <2>4. QED
    BY <2>1, <2>2, <2>3 DEF SlotIs, Lists
<1> HIDE DEF m
<1>2. ASSUME slot' = slot + 1, UNCHANGED <<movie, phase, casts>>,
             NEW k \in DOMAIN casts, NEW i, NEW l, SlotIs(k, i, l), Passed(k, i)'
      PROVE  Passed(k, i) \/ (k = last /\ i = slot /\ l = m)
  <2>1. i \in Nat
    <3>1. movie.memberIDs[casts[k].section] \in Seq(Int)
      BY <1>0, MoviesAssumption DEF IsMovie, LinkInv, Linked, CastsInv
    <3>2. QED
      BY <1>2, <3>1 DEF SlotIs
  <2>2. k < last \/ i < slot + 1
    BY <1>0, <1>2 DEF Passed
  <2>3. k < last \/ i < slot \/ i = slot
    BY <1>0, <2>1, <2>2
  <2>4. CASE k < last \/ i < slot
    BY <1>0, <2>4 DEF Passed
  <2>5. CASE ~(k < last) /\ i = slot
    <3>1. k = last
      BY <1>0, <2>5
    <3>2. QED
      BY <1>1, <1>2, <2>5, <3>1 DEF SlotIs
  <2>6. QED
    BY <2>3, <2>4, <2>5
<1>3. CASE m <= 0
  <2>1. slot' = slot + 1 /\ UNCHANGED <<movie, phase, casts, contexts, scripts, members, at, dumped>>
    BY <1>3 DEF LinkMember, m
  <2>2. PassedStands
    BY <1>1, <1>2, <1>3, <2>1 DEF PassedStands
  <2>3. QED
    BY <1>0, <2>1, <2>2, IdleStep
<1>4. CASE m > 0 /\ m \notin DOMAIN movie.members
  <2>1. Abort
    BY <1>1, <1>4 DEF LinkMember, m
  <2>2. QED
    BY <1>0, <2>1, OwnAbort
<1>5. CASE m > 0 /\ m \in DOMAIN movie.members
  <2>1. /\ members' = With(members, m, [number |-> MemberNumber(slot), text |-> movie.members[m].text])
        /\ scripts' = IF linked THEN [scripts EXCEPT ![ScriptsOf(Cast)[ScriptID(m)]].member = m]
                      ELSE scripts
        /\ slot' = slot + 1 /\ UNCHANGED <<movie, phase, casts, contexts, at, dumped>>
    BY <1>1, <1>5 DEF LinkMember, m
  <2>2. PICK r : r = ScriptsOf(Cast)[ScriptID(m)]
    OBVIOUS
  <2>3. DOMAIN members' = DOMAIN members \cup {m} /\ CastsStand
    BY <2>1 DEF With, CastsStand
  <2>4. ASSUME NEW s \in DOMAIN scripts
        PROVE  /\ scripts'[s].declared = scripts[s].declared
               /\ scripts'[s].factories = scripts[s].factories
               /\ scripts'[s].member = IF linked /\ s = r THEN m ELSE scripts[s].member
    <3>1. scripts[s] \in ScriptRecords
      BY <2>4 DEF LinkInv, Linked, ScriptsInv, OfScript
    <3>2. scripts'[s] = IF linked /\ s = r THEN [scripts[s] EXCEPT !.member = m] ELSE scripts[s]
      BY <2>1, <2>2, <2>4
    <3>3. QED
      BY <3>1, <3>2 DEF ScriptRecords
  <2>5. OwnCasts'
    BY <2>1, OwnCastsStand DEF OwnInv
  <2>6. OwnScripts'
    BY <2>1, <2>3, <2>4, OwnScriptsStand DEF OwnInv
  <2>7. ASSUME NEW k \in DOMAIN casts, NEW i, NEW l, SlotIs(k, i, l), l > 0, Passed(k, i)'
        PROVE  OwnSlot(k, l)'
    <3>1. ScriptsOf(casts[k])' = ScriptsOf(casts[k]) /\ ScriptID(l)' = ScriptID(l)
      BY <2>1 DEF ScriptsOf, ScriptID
    <3>2. \A n \in DOMAIN ScriptsOf(casts[k]) : ScriptsOf(casts[k])[n] \in DOMAIN scripts
      BY <1>0, <2>7, ScriptsOfType DEF LinkInv, Linked
    <3>3. CASE k = last /\ l = m
      <4>1. ScriptID(l) \in DOMAIN ScriptsOf(casts[k]) =>
              /\ linked /\ ScriptsOf(casts[k])[ScriptID(l)] = r /\ r \in DOMAIN scripts
        BY <1>0, <2>2, <3>2, <3>3
      <4>2. ScriptID(l) \in DOMAIN ScriptsOf(casts[k]) => scripts'[r].member = l
        BY <2>4, <3>3, <4>1
      <4>3. QED
        BY <2>3, <3>1, <3>3, <4>1, <4>2 DEF OwnSlot
    <3>4. CASE Passed(k, i)
      <4>1. OwnSlot(k, l)
        BY <1>0, <2>7, <3>4 DEF OwnInv, OwnSlots
      <4>2. l \in DOMAIN members /\ l \in DOMAIN movie.members /\ l \in DOMAIN members'
        BY <2>3, <4>1 DEF OwnSlot, OwnInv, OwnTexts
      <4>3. ASSUME Unshared', ScriptID(l) \in DOMAIN ScriptsOf(casts[k])
            PROVE  scripts'[ScriptsOf(casts[k])[ScriptID(l)]].member = l
        <5>1. Unshared
          BY <2>3, <4>3, UnsharedStands
        <5>2. PICK s \in DOMAIN scripts : s = ScriptsOf(casts[k])[ScriptID(l)]
          BY <3>2, <4>3
        <5>3. scripts[s].member = l
          BY <4>1, <4>3, <5>1, <5>2 DEF OwnSlot
        <5>4. Lists(casts[k], l)
          BY <2>7 DEF SlotIs, Lists
        <5>5. linked /\ s = r => l = m
          BY <1>0, <1>1, <1>5, <2>2, <2>7, <4>2, <4>3, <5>1, <5>2, <5>4, NamersAgree
        <5>6. QED
          BY <2>4, <5>2, <5>3, <5>5
      <4>4. QED
        BY <3>1, <4>2, <4>3 DEF OwnSlot
    <3>5. QED
      BY <1>2, <2>1, <2>7, <3>3, <3>4
  <2>8. OwnSlots'
    <3>1. \A k, i, l : SlotIs(k, i, l)' <=> SlotIs(k, i, l)
      BY <2>1 DEF SlotIs
    <3>2. QED
      BY <2>1, <2>7, <3>1 DEF OwnSlots
  <2>9. OwnTexts'
    <3>1. ASSUME NEW l \in DOMAIN members'
          PROVE  \/ l \in DOMAIN members /\ members'[l].text = members[l].text
                 \/ l \in DOMAIN movie.members /\ members'[l].text = movie.members[l].text
      <4>1. CASE l = m
        BY <1>5, <2>1, <4>1 DEF With
      <4>2. CASE l # m
        BY <2>1, <2>3, <3>1, <4>2 DEF With
      <4>3. QED
        BY <4>1, <4>2
    <3>2. phase' \notin {"restore", "done"} /\ movie' = movie
      BY <1>0, <2>1
    <3>3. QED
      BY <3>1, <3>2, OwnTextsStand DEF OwnInv
  <2>10. OwnFiles'
    BY <1>0, <2>1 DEF OwnFiles, OwnInv
  <2>11. QED
    BY <2>5, <2>6, <2>8, <2>9, <2>10 DEF OwnInv
<1>6. QED
  BY <1>1, <1>3, <1>4, <1>5
-----------------------------------------------------------------------------
(* The steps after the casts are read: the links stand.                     *)
LateStep ==
  /\ CastsAreRead /\ CastsAreRead'
  /\ UNCHANGED <<movie, casts, contexts>> /\ ScriptsStand
  /\ DOMAIN members' = DOMAIN members
  /\ \A m \in DOMAIN members : members'[m].number = members[m].number
LEMMA LinksStand ==
  ASSUME LinkInv, OwnInv, LateStep
  PROVE  /\ OwnCasts' /\ OwnScripts' /\ OwnSlots' /\ Claims' = Claims
         /\ Unshared' => Unshared
         /\ \A x : Entries(x)' = Entries(x)
<1>1. CastsStand
  BY DEF CastsStand, LateStep
<1>2. OwnCasts'
  BY OwnCastsStand DEF OwnInv, LateStep, CastsAreRead
<1>3. OwnScripts'
  BY <1>1, OwnScriptsStand DEF OwnInv, LateStep, ScriptsStand
<1>4. PassedStands
  BY DEF PassedStands, Passed, LateStep, CastsAreRead
<1>5. OwnSlots'
  BY <1>4, OwnSlotsStand DEF OwnInv, LateStep, CastsAreRead
<1>6. Claims' = Claims
  BY <1>1, ClaimsAreSame DEF LateStep
<1>7. QED
  BY <1>1, <1>2, <1>3, <1>5, <1>6, UnsharedStands DEF Entries, LateStep

LEMMA MemberIsRead ==
  ASSUME LinkInv, OwnInv, Unshared, CastsAreRead, NEW claim \in Claims
  PROVE  claim[3] \in DOMAIN members
<1>1. PICK k \in DOMAIN casts : Lists(casts[k], claim[3])
  BY ClaimParts
<1>2. QED
  BY <1>1, AskedIsNamed DEF OwnInv

LEMMA FilesStand ==
  ASSUME LinkInv, OwnInv, LateStep, Unshared
  PROVE  /\ \A p : \A k \in DOMAIN casts, claim \in Claims : IsFileOf(p, k, claim)' <=> IsFileOf(p, k, claim)
         /\ DistinctPaths' => DistinctPaths
<1>1. \A claim \in Claims : claim[3] \in DOMAIN members
  BY MemberIsRead DEF LateStep
<1>2. \A k, m : m \in DOMAIN members => Path(casts[k], m)' = Path(casts[k], m)
  BY DEF Path, LateStep
<1>3. \A k, m : Lists(casts[k], m)' <=> Lists(casts[k], m)
  BY DEF Lists, LateStep
<1>4. Claims' = Claims
  BY LinksStand
<1>5. Claimed' = Claimed /\ \A m \in Claimed : m \in DOMAIN members
  BY <1>1, <1>4 DEF Claimed
<1>6. ASSUME NEW m \in Claimed
      PROVE  PathsOf(m)' = PathsOf(m)
  BY <1>2, <1>3, <1>5 DEF PathsOf, LateStep
<1>7. DistinctPaths' => DistinctPaths
  BY <1>5, <1>6 DEF DistinctPaths
<1>8. QED
  BY <1>1, <1>2, <1>3, <1>7 DEF IsFileOf

LEMMA DumpedStands ==
  ASSUME LinkInv, OwnInv, LateStep, Unshared, UNCHANGED <<scripts, dumped>>,
         NEW b, DumpedUpTo(b)
  PROVE  DumpedUpTo(b)'
<1>1. \A s : Text(s)' = Text(s)
  BY DEF Text, OwnText
<1>2. Claims' = Claims /\ \A x : Entries(x)' = Entries(x)
  BY LinksStand
<1>3. \A p : \A k \in DOMAIN casts, claim \in Claims : IsFileOf(p, k, claim)' <=> IsFileOf(p, k, claim)
  BY FilesStand
<1>4. DOMAIN casts' = DOMAIN casts /\ dumped' = dumped
  BY DEF LateStep
<1>5. \A p : p \in DOMAIN dumped' <=>
         \E k \in DOMAIN casts', claim \in Claims' : k < b /\ IsFileOf(p, k, claim)'
  BY <1>2, <1>3, <1>4 DEF DumpedUpTo
<1>6. \A p : \A k \in DOMAIN casts', claim \in Claims' :
         k < b /\ IsFileOf(p, k, claim)' => dumped'[p] = Text(Entries(claim[1])[claim[2]])'
  BY <1>1, <1>2, <1>3, <1>4 DEF DumpedUpTo
<1>7. QED
  BY <1>5, <1>6 DEF DumpedUpTo

(* Once the loop is through, all files are there.                           *)
LEMMA DumpedThrough ==
  ASSUME LinkInv, at > Len(casts), DumpedUpTo(at)
  PROVE  DumpedUpTo(Len(casts) + 1)
<1>1. Len(casts) \in Nat /\ DOMAIN casts = 1 .. Len(casts) /\ at \in Nat
  BY DEF LinkInv, Linked, CastsInv, Control
<1>2. \A k \in DOMAIN casts : k < at /\ k < Len(casts) + 1
  BY <1>1
<1>3. QED
  BY <1>2 DEF DumpedUpTo

LEMMA PathTells ==
  ASSUME LinkInv, OwnCasts, Unshared, DistinctPaths, NEW p,
         NEW j \in DOMAIN casts, NEW k \in DOMAIN casts, NEW a \in Claims, NEW b \in Claims,
         IsFileOf(p, j, a), IsFileOf(p, k, b)
  PROVE  a = b
<1>1. p \in PathsOf(a[3]) /\ p \in PathsOf(b[3])
  BY DEF IsFileOf, PathsOf
<1>2. a[3] \in Claimed /\ b[3] \in Claimed
  BY DEF Claimed
<1>3. a[3] = b[3]
  BY <1>1, <1>2 DEF DistinctPaths
<1>4. QED
  BY <1>3, ClaimIsOne DEF LinkInv, Linked, Control

LEMMA OwnParseCast ==
  ASSUME LinkInv, LinkInv', OwnInv, ParseCast
  PROVE  OwnInv'
<1>1. phase = "parse" /\ UNCHANGED <<movie, phase, casts, contexts, members, slot, dumped>>
  BY DEF ParseCast
<1>2. ASSUME NEW s \in DOMAIN scripts
      PROVE  /\ scripts'[s].declared = scripts[s].declared
             /\ scripts'[s].factories = scripts[s].factories
             /\ scripts'[s].member = scripts[s].member
  <2>1. scripts'[s] = scripts[s] \/ scripts'[s] = [scripts[s] EXCEPT !.parsedWith = scripts[s].names]
    BY <1>2 DEF ParseCast
  <2>2. scripts[s] \in ScriptRecords
    BY <1>2 DEF LinkInv, Linked, ScriptsInv, OfScript
  <2>3. QED
    BY <2>1, <2>2 DEF ScriptRecords
<1>3. LateStep
  BY <1>1, <1>2 DEF LateStep, ScriptsStand, CastsAreRead
<1>4. OwnTexts'
  BY <1>1, OwnTextsStand DEF OwnInv
<1>5. OwnFiles'
  BY <1>1 DEF OwnInv, OwnFiles
<1>6. QED
  BY <1>3, <1>4, <1>5, LinksStand DEF OwnInv

(* A late step that leaves the scripts and the members alone.               *)
LEMMA QuietLate ==
  ASSUME CastsAreRead, CastsAreRead', UNCHANGED <<movie, casts, contexts, scripts, members>>
  PROVE  LateStep
BY DEF LateStep, ScriptsStand

LEMMA OwnParsed ==
  ASSUME LinkInv, LinkInv', OwnInv, Parsed
  PROVE  OwnInv'
<1>1. /\ phase = "parse" /\ phase' \in {"dump", "restore"} /\ at' = 1
      /\ UNCHANGED <<movie, casts, contexts, scripts, members, slot, dumped>>
  BY DEF Parsed
<1>2. LateStep
  BY <1>1, QuietLate DEF CastsAreRead
<1>3. OwnTexts'
  BY <1>1, OwnTextsStand DEF OwnInv
<1>4. dumped' = <<>> /\ \A k \in DOMAIN casts' : ~(k < 1)
  BY <1>1 DEF OwnInv, OwnFiles, LinkInv, Linked, CastsInv
<1>5. DumpedUpTo(1)'
  BY <1>4 DEF DumpedUpTo
<1>6. OwnFiles'
  BY <1>1, <1>4, <1>5 DEF OwnFiles
<1>7. QED
  BY <1>2, <1>3, <1>6, LinksStand DEF OwnInv

(* What is written for a cast.                                              *)
LEMMA CastIsDumped ==
  ASSUME LinkInv, OwnInv, Unshared, DistinctPaths, DumpCast, NEW b, b = at
  PROVE  /\ \A p : p \in DOMAIN dumped' <=>
              p \in DOMAIN dumped \/ \E claim \in Claims : IsFileOf(p, b, claim)
         /\ \A p : \A claim \in Claims :
              IsFileOf(p, b, claim) => dumped'[p] = Text(Entries(claim[1])[claim[2]])
         /\ \A p \in DOMAIN dumped :
              dumped'[p] = dumped[p] \/ \E claim \in Claims : IsFileOf(p, b, claim)
<1> DEFINE cast == casts[b]
           PathOf(n) == Path(cast, scripts[ScriptsOf(cast)[n]].member)
           written == {PathOf(n) : n \in Named(cast)}
           At(p) == {n \in Named(cast) : PathOf(n) = p}
<1>0. /\ dumped' = [p \in DOMAIN dumped \cup written |->
                      IF p \in written THEN Text(ScriptsOf(cast)[Max(At(p))]) ELSE dumped[p]]
      /\ b \in DOMAIN casts /\ CastsAreRead
  BY DEF DumpCast, FileText, LinkInv, Linked, CastsInv, Control, CastsAreRead
<1>1. ASSUME NEW n \in Named(cast)
      PROVE  \E claim \in Claims : /\ IsFileOf(PathOf(n), b, claim) /\ claim[2] = n
                                   /\ Entries(claim[1]) = ScriptsOf(cast)
  <2>1. PICK m : m = scripts[ScriptsOf(cast)[n]].member
    OBVIOUS
  <2>2. /\ ScriptsOf(cast) = Entries(cast.lctx)
        /\ <<cast.lctx, n, m>> \in Claims /\ Lists(cast, m)
    BY <1>0, <1>1, <2>1, NamedIsAsked DEF OwnInv
  <2>3. PICK claim \in Claims : claim = <<cast.lctx, n, m>>
    BY <2>2
  <2>4. claim[1] = cast.lctx /\ claim[2] = n /\ claim[3] = m
    BY <2>3
  <2>5. IsFileOf(PathOf(n), b, claim)
    BY <2>1, <2>2, <2>4 DEF IsFileOf
  <2>6. QED
    BY <2>2, <2>4, <2>5
<1>2. ASSUME NEW p, NEW claim \in Claims, IsFileOf(p, b, claim)
      PROVE  /\ claim[2] \in Named(cast) /\ PathOf(claim[2]) = p
             /\ ScriptsOf(cast) = Entries(claim[1])
  <2>1. Lists(cast, claim[3]) /\ p = Path(cast, claim[3])
    BY <1>2 DEF IsFileOf
  <2>2. /\ ScriptsOf(cast) = Entries(claim[1]) /\ claim[2] \in Named(cast)
        /\ scripts[Entries(claim[1])[claim[2]]].member = claim[3]
    BY <1>0, <2>1, AskedIsNamed DEF OwnInv
  <2>3. QED
    BY <2>1, <2>2
<1>3. \A p : p \in written <=> \E claim \in Claims : IsFileOf(p, b, claim)
  BY <1>1, <1>2
<1>4. ASSUME NEW p, NEW claim \in Claims, IsFileOf(p, b, claim)
      PROVE  At(p) = {claim[2]} /\ claim[2] \in Int
  <2>1. ASSUME NEW n \in At(p)
        PROVE  n = claim[2]
    <3>1. PICK other \in Claims : IsFileOf(p, b, other) /\ other[2] = n
      BY <1>1, <2>1
    <3>2. other = claim
      BY <1>0, <1>4, <3>1, PathTells DEF OwnInv
    <3>3. QED
      BY <3>1, <3>2
  <2>2. claim[2] \in At(p)
    BY <1>2, <1>4
  <2>3. claim[1] \in DOMAIN movie.contexts /\ claim[2] \in DOMAIN Entries(claim[1])
    BY ClaimParts
  <2>4. claim[2] \in Int
    BY <2>3, EntriesType DEF LinkInv, Control
  <2>5. QED
    BY <2>1, <2>2, <2>4
<1> HIDE DEF PathOf, written, At
<1>5. ASSUME NEW p, NEW claim \in Claims, IsFileOf(p, b, claim)
      PROVE  dumped'[p] = Text(Entries(claim[1])[claim[2]])
  <2>1. PICK n \in Int : n = claim[2]
    BY <1>4, <1>5
  <2>2. Max({n}) = n
    BY DEF Max
  <2>3. p \in written
    BY <1>3, <1>5
  <2>4. dumped'[p] = Text(ScriptsOf(cast)[Max(At(p))])
    BY <1>0, <2>3
  <2>5. At(p) = {n} /\ ScriptsOf(cast) = Entries(claim[1])
    BY <1>2, <1>4, <1>5, <2>1
  <2>6. QED
    BY <2>1, <2>2, <2>4, <2>5
<1>6. \A p : p \in DOMAIN dumped' <=> p \in DOMAIN dumped \/ p \in written
  BY <1>0
<1>7. \A p \in DOMAIN dumped : p \notin written => dumped'[p] = dumped[p]
  BY <1>0
<1>8. QED
  BY <1>3, <1>5, <1>6, <1>7

LEMMA OwnDumpCast ==
  ASSUME LinkInv, LinkInv', OwnInv, DumpCast
  PROVE  OwnInv'
<1>1. /\ phase = "dump" /\ at <= Len(casts) /\ at' = at + 1
      /\ UNCHANGED <<movie, phase, casts, contexts, scripts, members, slot>>
  BY DEF DumpCast
<1>2. LateStep
  BY <1>1, QuietLate DEF CastsAreRead
<1>3. OwnTexts'
  BY <1>1, OwnTextsStand DEF OwnInv
<1>4. ASSUME Unshared', DistinctPaths'
      PROVE  DumpedUpTo(at)'
  <2>1. Unshared /\ Claims' = Claims /\ \A x : Entries(x)' = Entries(x)
    BY <1>2, <1>4, LinksStand
  <2>2. /\ \A p : \A k \in DOMAIN casts, claim \in Claims : IsFileOf(p, k, claim)' <=> IsFileOf(p, k, claim)
        /\ DistinctPaths
    BY <1>2, <1>4, <2>1, FilesStand
  <2>3. PICK b : b = at
    OBVIOUS
  <2>4. DumpedUpTo(b)
    BY <1>1, <2>1, <2>2, <2>3 DEF OwnInv, OwnFiles
  <2>5. /\ \A p : p \in DOMAIN dumped' <=>
              p \in DOMAIN dumped \/ \E claim \in Claims : IsFileOf(p, b, claim)
        /\ \A p : \A claim \in Claims :
              IsFileOf(p, b, claim) => dumped'[p] = Text(Entries(claim[1])[claim[2]])
        /\ \A p \in DOMAIN dumped :
              dumped'[p] = dumped[p] \/ \E claim \in Claims : IsFileOf(p, b, claim)
    BY <2>1, <2>2, <2>3, CastIsDumped
  <2>6. /\ b \in DOMAIN casts /\ at' = b + 1 /\ DOMAIN casts' = DOMAIN casts
        /\ \A k \in DOMAIN casts : k < b + 1 <=> (k < b \/ k = b)
    BY <1>1, <2>3 DEF LinkInv, Linked, CastsInv, Control
  <2>7. \A s : Text(s)' = Text(s)
    BY <1>1 DEF Text, OwnText
  <2>8. \A p : p \in DOMAIN dumped' <=>
           \E k \in DOMAIN casts, claim \in Claims : k < b + 1 /\ IsFileOf(p, k, claim)
    BY <2>4, <2>5, <2>6 DEF DumpedUpTo
  <2>9. ASSUME NEW p, NEW k \in DOMAIN casts, NEW claim \in Claims, k < b + 1, IsFileOf(p, k, claim)
        PROVE  dumped'[p] = Text(Entries(claim[1])[claim[2]])
    <3>1. CASE \E other \in Claims : IsFileOf(p, b, other)
      <4>1. PICK other \in Claims : IsFileOf(p, b, other)
        BY <3>1
      <4>2. other = claim
        BY <2>1, <2>2, <2>6, <2>9, <4>1, PathTells DEF OwnInv
      <4>3. QED
        BY <2>5, <4>1, <4>2
    <3>2. CASE ~\E other \in Claims : IsFileOf(p, b, other)
      <4>1. k < b
        BY <2>6, <2>9, <3>2
      <4>2. p \in DOMAIN dumped /\ dumped[p] = Text(Entries(claim[1])[claim[2]])
        BY <2>4, <2>9, <4>1 DEF DumpedUpTo
      <4>3. QED
        BY <2>5, <3>2, <4>2
    <3>3. QED
      BY <3>1, <3>2
  <2>10. \A p : p \in DOMAIN dumped' <=>
           \E k \in DOMAIN casts', claim \in Claims' : k < at' /\ IsFileOf(p, k, claim)'
    BY <2>1, <2>2, <2>6, <2>8
  <2>11. \A p : \A k \in DOMAIN casts', claim \in Claims' :
           k < at' /\ IsFileOf(p, k, claim)' => dumped'[p] = Text(Entries(claim[1])[claim[2]])'
    BY <2>1, <2>2, <2>6, <2>7, <2>9
  <2>12. QED
    BY <2>10, <2>11 DEF DumpedUpTo
<1>5. OwnFiles'
  BY <1>1, <1>4 DEF OwnFiles
<1>6. QED
  BY <1>2, <1>3, <1>5, LinksStand DEF OwnInv

LEMMA OwnDumped ==
  ASSUME LinkInv, LinkInv', OwnInv, Dumped
  PROVE  OwnInv'
<1>1. /\ phase = "dump" /\ phase' = "restore" /\ at > Len(casts) /\ at' = 1
      /\ UNCHANGED <<movie, casts, contexts, scripts, members, slot, dumped>>
  BY DEF Dumped
<1>2. LateStep
  BY <1>1, QuietLate DEF CastsAreRead
<1>3. OwnTexts'
  BY <1>1, OwnTextsStand DEF OwnInv
<1>4. ASSUME Unshared', DistinctPaths'
      PROVE  DumpedUpTo(Len(casts) + 1)'
  <2>1. Unshared
    BY <1>2, <1>4, LinksStand
  <2>2. DistinctPaths
    BY <1>2, <1>4, <2>1, FilesStand
  <2>3. DumpedUpTo(Len(casts) + 1)
    BY <1>1, <2>1, <2>2, DumpedThrough DEF OwnInv, OwnFiles
  <2>4. PICK b : b = Len(casts) + 1
    OBVIOUS
  <2>5. DumpedUpTo(b)'
    BY <1>1, <1>2, <2>1, <2>3, <2>4, DumpedStands
  <2>6. b = Len(casts') + 1
    BY <1>1, <2>4
  <2>7. QED
    BY <2>5, <2>6 DEF DumpedUpTo
<1>5. OwnFiles'
  BY <1>1, <1>4 DEF OwnFiles
<1>6. QED
  BY <1>2, <1>3, <1>5, LinksStand DEF OwnInv

(* What is put back for a cast: to the members that ask for a script.       *)
LEMMA CastIsRestored ==
  ASSUME LinkInv, OwnInv, Unshared, RestoreCast, NEW b, b = at, NEW claim \in Claims
  PROVE  IF Lists(casts[b], claim[3]) /\ movie.members[claim[3]].info
         THEN members'[claim[3]].text = Text(Entries(claim[1])[claim[2]])
         ELSE members'[claim[3]] = members[claim[3]]
<1> DEFINE cast == casts[b]
           m == claim[3]
           Texts == {n \in Named(cast) : scripts[ScriptsOf(cast)[n]].member = m}
<1>0. phase = "restore" /\ b \in DOMAIN casts /\ CastsAreRead
  BY DEF RestoreCast, LinkInv, Linked, CastsInv, Control, CastsAreRead
<1>1. m \in DOMAIN members
  BY <1>0, MemberIsRead
<1>2. members'[m] = IF Texts = {} \/ ~movie.members[m].info THEN members[m]
                    ELSE [members[m] EXCEPT !.text = Text(ScriptsOf(cast)[Max(Texts)])]
  BY <1>1 DEF RestoreCast
<1>3. ASSUME NEW n \in Texts
      PROVE  n = claim[2] /\ Lists(cast, m)
  <2>1. <<cast.lctx, n, m>> \in Claims /\ Lists(cast, m)
    BY <1>0, <1>3, NamedIsAsked DEF OwnInv
  <2>2. PICK other \in Claims : other = <<cast.lctx, n, m>>
    BY <2>1
  <2>3. other = claim
    BY <2>2, ClaimIsOne DEF OwnInv, LinkInv, Linked, Control
  <2>4. QED
    BY <2>1, <2>2, <2>3
<1>4. ASSUME Lists(cast, m)
      PROVE  Texts = {claim[2]} /\ ScriptsOf(cast) = Entries(claim[1])
  BY <1>0, <1>3, <1>4, AskedIsNamed DEF OwnInv
<1>5. CASE Lists(cast, m) /\ movie.members[m].info
  <2>1. claim[1] \in DOMAIN movie.contexts /\ claim[2] \in DOMAIN Entries(claim[1])
    BY ClaimParts
  <2>2. PICK n \in Int : n = claim[2]
    BY <2>1, EntriesType DEF LinkInv, Control
  <2>3. Max({n}) = n
    BY DEF Max
  <2>4. PICK text : text = Text(Entries(claim[1])[claim[2]])
    OBVIOUS
  <2> HIDE DEF Texts
  <2>5. members'[m] = [members[m] EXCEPT !.text = text]
    BY <1>2, <1>4, <1>5, <2>2, <2>3, <2>4
  <2>6. members[m] = [number |-> members[m].number, text |-> members[m].text]
    BY <1>1 DEF LinkInv, Given, MembersInv, OfMember
  <2>7. PICK old, number, was : old = members[m] /\ old = [number |-> number, text |-> was]
    BY <2>6
  <2>8. members'[m].text = text
    BY <2>5, <2>7
  <2>9. QED
    BY <1>5, <2>4, <2>8
<1>6. CASE ~(Lists(cast, m) /\ movie.members[m].info)
  BY <1>2, <1>3, <1>6
<1>7. QED
  BY <1>5, <1>6

LEMMA OwnRestoreCast ==
  ASSUME LinkInv, LinkInv', OwnInv, RestoreCast
  PROVE  OwnInv'
<1>1. /\ phase = "restore" /\ at <= Len(casts) /\ at' = at + 1
      /\ UNCHANGED <<movie, phase, casts, contexts, scripts, slot, dumped>>
      /\ DOMAIN members' = DOMAIN members
  BY DEF RestoreCast
<1>2. ASSUME NEW m \in DOMAIN members
      PROVE  /\ members'[m].number = members[m].number
             /\ members'[m] = members[m] \/ movie.members[m].info
  <2>1. PICK text : \/ members'[m] = members[m]
                    \/ movie.members[m].info /\ members'[m] = [members[m] EXCEPT !.text = text]
    BY <1>2 DEF RestoreCast
  <2>2. members[m] = [number |-> members[m].number, text |-> members[m].text]
    BY <1>2 DEF LinkInv, Given, MembersInv, OfMember
  <2>3. PICK old, number, was : old = members[m] /\ old = [number |-> number, text |-> was]
    BY <2>2
  <2>4. QED
    BY <2>1, <2>3
<1>3. LateStep
  BY <1>1, <1>2 DEF LateStep, ScriptsStand, CastsAreRead
<1>4. /\ Claims' = Claims /\ (Unshared' => Unshared)
      /\ \A x : Entries(x)' = Entries(x)
      /\ \A s : Text(s)' = Text(s)
  BY <1>1, <1>3, LinksStand DEF Text, OwnText
<1>5. OwnTexts'
  <2>1. ASSUME NEW m \in DOMAIN members'
        PROVE  m \in DOMAIN movie.members /\ (IsRestored(m)' => movie.members[m].info)
    BY <1>1, <1>2, <2>1 DEF OwnInv, OwnTexts, IsRestored
  <2>2. ASSUME Unshared', NEW claim \in Claims, Due(claim)', movie.members[claim[3]].info
        PROVE  members'[claim[3]].text = Text(Entries(claim[1])[claim[2]])
    <3>1. PICK b : b = at
      OBVIOUS
    <3>2. CASE Lists(casts[b], claim[3])
      BY <1>4, <2>2, <3>1, <3>2, CastIsRestored
    <3>3. CASE ~Lists(casts[b], claim[3])
      <4>1. PICK k \in DOMAIN casts : k < b + 1 /\ Lists(casts[k], claim[3])
        BY <1>1, <2>2, <3>1 DEF Due, Lists
      <4>2. k < b
        BY <3>1, <3>3, <4>1 DEF LinkInv, Linked, CastsInv, Control
      <4>3. Due(claim)
        BY <1>1, <3>1, <4>1, <4>2 DEF Due
      <4>4. members[claim[3]].text = Text(Entries(claim[1])[claim[2]])
        BY <1>4, <2>2, <4>3 DEF OwnInv, OwnTexts
      <4>5. members'[claim[3]] = members[claim[3]]
        BY <1>4, <2>2, <3>1, <3>3, CastIsRestored
      <4>6. QED
        BY <4>4, <4>5
    <3>4. QED
      BY <3>2, <3>3
  <2>3. ASSUME Unshared', NEW claim \in Claims', Due(claim)', movie'.members[claim[3]].info
        PROVE  members'[claim[3]].text = Text(Entries(claim[1])[claim[2]])'
    <3>1. claim \in Claims /\ movie.members[claim[3]].info
      BY <1>1, <1>4, <2>3
    <3>2. PICK s : s = Entries(claim[1])[claim[2]]
      OBVIOUS
    <3>3. members'[claim[3]].text = Text(s)
      BY <2>2, <2>3, <3>1, <3>2
    <3>4. Text(s)' = Text(s) /\ s = Entries(claim[1])[claim[2]]'
      BY <1>4, <3>2
    <3>5. QED
      BY <3>3, <3>4
  <2>4. QED
    BY <1>1, <2>1, <2>3 DEF OwnTexts
<1>6. ASSUME Unshared', DistinctPaths', dumped # <<>>
      PROVE  DumpedUpTo(Len(casts) + 1)'
  <2>1. Unshared /\ DistinctPaths
    BY <1>3, <1>4, <1>6, FilesStand
  <2>2. PICK b : b = Len(casts) + 1
    OBVIOUS
  <2>3. DumpedUpTo(b)
    BY <1>1, <1>6, <2>1, <2>2 DEF OwnInv, OwnFiles
  <2>4. DumpedUpTo(b)'
    BY <1>1, <1>3, <2>1, <2>3, DumpedStands
  <2>5. b = Len(casts') + 1
    BY <1>1, <2>2
  <2>6. QED
    BY <2>4, <2>5 DEF DumpedUpTo
<1>7. OwnFiles'
  BY <1>1, <1>6 DEF OwnFiles
<1>8. QED
  BY <1>3, <1>5, <1>7, LinksStand DEF OwnInv

(* Steps that leave all as it is but, in the end, the phase.                 *)
LEMMA LateIdleStep ==
  ASSUME LinkInv, LinkInv', OwnInv, CastsAreRead,
         UNCHANGED <<movie, casts, contexts, scripts, members, at, slot, dumped>>,
         phase' = phase \/ (phase = "restore" /\ at > Len(casts) /\ phase' = "done")
  PROVE  OwnInv'
<1>1. LateStep
  BY QuietLate DEF CastsAreRead
<1>2. /\ Claims' = Claims /\ (Unshared' => Unshared)
      /\ \A x : Entries(x)' = Entries(x)
      /\ \A s : Text(s)' = Text(s)
  BY <1>1, LinksStand DEF Text, OwnText
<1>3. ASSUME NEW claim \in Claims, Due(claim)'
      PROVE  Due(claim)
  <2>1. CASE phase' = phase
    BY <1>3, <2>1 DEF Due, Lists
  <2>2. CASE phase = "restore" /\ at > Len(casts) /\ phase' = "done"
    <3>1. PICK k \in DOMAIN casts : Lists(casts[k], claim[3])
      BY ClaimParts
    <3>2. k < at
      BY <2>2 DEF LinkInv, Linked, CastsInv, Control
    <3>3. QED
      BY <2>2, <3>1, <3>2 DEF Due
  <2>3. QED
    BY <2>1, <2>2
<1>4. OwnTexts'
  <2>1. ASSUME Unshared', NEW claim \in Claims', Due(claim)', movie'.members[claim[3]].info
        PROVE  members'[claim[3]].text = Text(Entries(claim[1])[claim[2]])'
    <3>1. PICK s : s = Entries(claim[1])[claim[2]]
      OBVIOUS
    <3>2. members[claim[3]].text = Text(s)
      BY <1>2, <1>3, <2>1, <3>1 DEF OwnInv, OwnTexts
    <3>3. Text(s)' = Text(s) /\ s = Entries(claim[1])[claim[2]]'
      BY <1>2, <3>1
    <3>4. QED
      BY <3>2, <3>3
  <2>2. QED
    BY <2>1 DEF OwnTexts, OwnInv, IsRestored
<1>5. PICK b, c : b = at /\ c = Len(casts) + 1
  OBVIOUS
<1>6. ASSUME Unshared', DistinctPaths'
      PROVE  /\ Unshared /\ DistinctPaths
             /\ DumpedUpTo(b) => DumpedUpTo(b)'
             /\ DumpedUpTo(c) => DumpedUpTo(c)'
  BY <1>1, <1>2, <1>6, FilesStand, DumpedStands
<1>7. at' = b /\ Len(casts') + 1 = c
  BY <1>5
<1>8. DumpedUpTo(b)' => DumpedUpTo(at)'
  BY <1>7 DEF DumpedUpTo
<1>9. DumpedUpTo(c)' => DumpedUpTo(Len(casts) + 1)'
  BY <1>7 DEF DumpedUpTo
<1>10. OwnFiles'
  BY <1>5, <1>6, <1>8, <1>9 DEF OwnFiles, OwnInv, CastsAreRead
<1>11. QED
  BY <1>1, <1>4, <1>10, LinksStand DEF OwnInv

LEMMA OwnQuiet ==
  ASSUME LinkInv, LinkInv', OwnInv, UNCHANGED vars
  PROVE  OwnInv'
<1>0. UNCHANGED <<movie, phase, casts, contexts, scripts, members, at, slot, dumped>>
  BY DEF vars
<1>1. CASE CastsAreRead
  BY <1>0, <1>1, LateIdleStep
<1>2. CASE phase \in {"casts", "context", "members"}
  <2>1. PassedStands
    BY <1>0 DEF PassedStands, Passed
  <2>2. QED
    BY <1>0, <1>2, <2>1, IdleStep
<1>3. CASE phase = "aborted"
  <2>1. CastsStand
    BY <1>0 DEF CastsStand
  <2>2. OwnCasts' /\ OwnScripts' /\ OwnTexts'
    BY <1>0, <1>3, <2>1, OwnCastsStand, OwnScriptsStand, OwnTextsStand DEF OwnInv
  <2>3. OwnSlots' /\ OwnFiles'
    BY <1>0, <1>3 DEF OwnSlots, OwnFiles
  <2>4. QED
    BY <2>2, <2>3 DEF OwnInv
<1>4. QED
  BY <1>1, <1>2, <1>3 DEF CastsAreRead, LinkInv, Control

LEMMA OwnInvInit == Init => OwnInv
<1> SUFFICES ASSUME Init PROVE OwnInv
  OBVIOUS
<1>1. /\ DOMAIN casts = {} /\ DOMAIN contexts = {} /\ DOMAIN members = {} /\ dumped = <<>>
      /\ phase = "casts"
  BY DEF Init
<1>2. OwnTexts
  BY <1>1 DEF OwnTexts, Due
<1>3. QED
  BY <1>1, <1>2 DEF OwnInv, OwnCasts, ContextsAreKept, OwnScripts, OwnSlots, OwnFiles

LEMMA OwnInvNext == LinkInv /\ LinkInv' /\ OwnInv /\ [Next]_vars => OwnInv'
<1> SUFFICES ASSUME LinkInv, LinkInv', OwnInv, [Next]_vars PROVE OwnInv'
  OBVIOUS
<1>1. CASE SkipCast
  BY <1>1, OwnSkipCast
<1>2. CASE ReadCast
  BY <1>2, OwnReadCast
<1>3. CASE LinkContext
  BY <1>3, OwnLinkContext
<1>4. CASE LinkMember
  BY <1>4, OwnLinkMember
<1>5. CASE CastRead
  BY <1>5, OwnCastRead
<1>6. CASE CastsRead
  BY <1>6, OwnCastsRead
<1>7. CASE ParseCast
  BY <1>7, OwnParseCast
<1>8. CASE Parsed
  BY <1>8, OwnParsed
<1>9. CASE DumpCast
  BY <1>9, OwnDumpCast
<1>10. CASE Dumped
  BY <1>10, OwnDumped
<1>11. CASE RestoreCast
  BY <1>11, OwnRestoreCast
<1>12. CASE Restored
  BY <1>12, LateIdleStep DEF Restored, CastsAreRead
<1>13. CASE UNCHANGED vars
  BY <1>13, OwnQuiet
<1>14. CASE Ended
  BY <1>13, <1>14 DEF Ended
<1>15. QED
  BY <1>1, <1>2, <1>3, <1>4, <1>5, <1>6, <1>7, <1>8, <1>9, <1>10, <1>11, <1>12, <1>13, <1>14 DEF Next

(* Where casts share nothing, each script has the names and the factories of  *)
(* its own context and the one member that asked for it, each text and file   *)
(* is the one that was asked for.                                           *)
THEOREM LinksAreOwn == Spec => [](LinkInv /\ OwnInv)
<1>1. Init => LinkInv /\ OwnInv
  BY LinkInvInit, OwnInvInit
<1>2. (LinkInv /\ OwnInv) /\ [Next]_vars => (LinkInv /\ OwnInv)'
  BY LinkInvNext, OwnInvNext
<1>3. QED
  BY <1>1, <1>2, PTL DEF Spec

(* Numbers in order are all of the numbers.                                 *)
LEMMA InOrderReaches ==
  ASSUME NEW b \in Nat, NEW S, S \subseteq 0 .. b, NEW e \in S
  PROVE  \E k \in 1 .. Cardinality(S) : InOrder(S)[k] = e
<1> DEFINE c == Cardinality(S)
           q == InOrder(S)
<1>1. IsInOrder(q, S) /\ c \in Nat
  BY InOrderExists
<1>2. IsFiniteSet(S)
  <2>1. IsFiniteSet(0 .. b)
    BY FS_Interval
  <2>2. QED
    BY <2>1, FS_Subset
<1> HIDE DEF c, q
<1>3. /\ q \in [1 .. c -> S] /\ DOMAIN q = 1 .. c
      /\ \A i, j \in 1 .. c : i < j => q[i] < q[j]
  BY <1>1 DEF IsInOrder, c
<1>4. ASSUME NEW i \in 1 .. c, NEW j \in 1 .. c, q[i] = q[j]
      PROVE  i = j
  <2>1. q[i] \in Int /\ q[j] \in Int
    <3>1. \A y \in S : y \in Int
      OBVIOUS
    <3>2. q[i] \in S /\ q[j] \in S
      BY <1>3
    <3>3. QED
      BY <3>1, <3>2
  <2>2. ~(i < j) /\ ~(j < i)
    BY <1>3, <1>4, <2>1
  <2>3. QED
    BY <1>1, <2>2
<1>5. q \in Injection(1 .. c, S)
  BY <1>3, <1>4 DEF Injection, IsInjective
<1>6. Cardinality(1 .. c) = c
  BY <1>1, FS_Interval
<1>7. q \in Surjection(1 .. c, S)
  BY <1>2, <1>5, <1>6, FS_Injection DEF c
<1>8. QED
  BY <1>7 DEF Surjection, c, q

(* In the end a script's text has the names of its context, and its factories. *)
LEMMA TextIsExpected ==
  ASSUME LinkInv, OwnInv, Unshared, phase = "done", NEW claim \in Claims
  PROVE  IsExpected(Text(Entries(claim[1])[claim[2]]), claim[1], claim[2])
<1> DEFINE x == claim[1]
           n == claim[2]
           F == FactoryNumbers(x, n)
           c == Cardinality(F)
<1>0. movie \in Movies /\ x \in DOMAIN movie.contexts /\ n \in DOMAIN Entries(x)
  BY ClaimParts DEF LinkInv, Control
<1>1. x \in DOMAIN contexts
  <2>1. PICK k \in DOMAIN casts : Lists(casts[k], claim[3])
    BY ClaimParts
  <2>2. casts[k].lctx = x
    BY <2>1, AskedIsNamed DEF OwnInv, CastsAreRead
  <2>3. x # None
    BY <1>0, MoviesAssumption DEF IsMovie
  <2>4. QED
    BY <2>2, <2>3 DEF LinkInv, Linked, CastsInv
<1> HIDE DEF x, n
<1>2. ASSUME NEW f \in DOMAIN Entries(x)
      PROVE  OwnText(Entries(x)[f]) = ExpectedBody(x, Entries(x)[f])
  <2>1. PICK s : s = Entries(x)[f]
    OBVIOUS
  <2>2. s \in DOMAIN scripts
    BY <1>1, <1>2, <2>1 DEF LinkInv, Linked, ContextsInv
  <2>3. PICK names : names = movie.contexts[x].names
    OBVIOUS
  <2>4. scripts[s].declared = <<names>>
    BY <1>1, <1>2, <2>1, <2>3 DEF OwnInv, OwnScripts, OwnScript
  <2>5. scripts[s].parsedWith = Last(scripts[s].declared)
    <3>1. ContextsAreKept
      BY DEF OwnInv, OwnCasts, Unshared
    <3>2. QED
      BY <2>2, <3>1 DEF LinkInv, Linked, ScriptsInv, OfScript, ParsingInv
  <2>6. scripts[s].parsedWith = names
    BY <2>4, <2>5 DEF Last
  <2>7. QED
    BY <2>1, <2>3, <2>4, <2>6 DEF OwnText, ExpectedBody
<1>3. PICK text : text = Text(Entries(x)[n])
  OBVIOUS
<1>4. PICK q : q = InOrder(F)
  OBVIOUS
<1>5. PICK b \in Nat : F \subseteq 0 .. b
  <2>1. DOMAIN Entries(x) \subseteq 1 .. Len(movie.contexts[x].sections)
        /\ Len(movie.contexts[x].sections) \in Nat
    BY <1>0, EntriesType DEF x
  <2>2. F \subseteq 0 .. Len(movie.contexts[x].sections)
    BY <2>1 DEF FactoryNumbers
  <2>3. QED
    BY <2>1, <2>2
<1>6. q \in [1 .. c -> F] /\ c \in Nat
  BY <1>4, <1>5, InOrderExists DEF IsInOrder
<1>7. \A f \in F : \E k \in 1 .. c : q[k] = f
  BY <1>4, <1>5, InOrderReaches
<1>8. F \subseteq DOMAIN Entries(x)
  BY DEF FactoryNumbers
<1>9. F = {f \in DOMAIN Entries(x) : movie.scripts[Entries(x)[f]].parent = n - 1}
  BY DEF FactoryNumbers
<1>10. scripts[Entries(x)[n]].factories = [k \in 1 .. c |-> Entries(x)[q[k]]]
  BY <1>0, <1>1, <1>4 DEF OwnInv, OwnScripts, OwnScript, FactoriesInOrder, x, n
<1> HIDE DEF F, c
<1>11. text.body = ExpectedBody(x, Entries(x)[n])
  <2>1. text.body = OwnText(Entries(x)[n])
    BY <1>3 DEF Text
  <2>2. QED
    BY <1>0, <1>2, <2>1 DEF x, n
<1>12. PICK given : given = scripts[Entries(x)[n]].factories
  OBVIOUS
<1>13. text.factories = [k \in DOMAIN given |-> OwnText(given[k])]
  BY <1>3, <1>12 DEF Text
<1>14. DOMAIN given = 1 .. c /\ \A k \in 1 .. c : given[k] = Entries(x)[q[k]]
  BY <1>10, <1>12
<1>15. /\ DOMAIN text.factories = 1 .. c
       /\ \A k \in 1 .. c : text.factories[k] = ExpectedBody(x, Entries(x)[q[k]])
  BY <1>2, <1>6, <1>8, <1>13, <1>14
<1>16. Len(text.factories) = c
  <2>1. PICK S : S = {text.factories[k] : k \in 1 .. c}
    OBVIOUS
  <2>2. text.factories = [k \in 1 .. c |-> text.factories[k]]
    BY <1>13, <1>14
  <2>3. text.factories \in [1 .. c -> S]
    BY <2>1, <2>2
  <2>4. QED
    BY <1>6, <2>3
<1>17. \A f \in F : \E k \in DOMAIN text.factories : text.factories[k] = ExpectedBody(x, Entries(x)[f])
  BY <1>7, <1>15
<1>18. IsExpected(text, x, n)
  BY <1>9, <1>11, <1>16, <1>17 DEF IsExpected, c
<1>19. QED
  BY <1>3, <1>18 DEF x, n

(* A movie whose casts share nothing gets all its scripts back: each member   *)
(* that names a script has that script's whole text when restoreScriptText   *)
(* has ended, any other member, and one without an info block, the text that *)
(* it had.                                                                 *)
THEOREM TextsArrive == Spec => []TextReachesItsMember
<1>1. LinkInv /\ OwnInv => TextReachesItsMember
  <2> SUFFICES ASSUME LinkInv, OwnInv, phase = "done", Unshared, NEW m \in DOMAIN members
               PROVE  IF ClaimsOf(m) = {} \/ ~movie.members[m].info
                      THEN members[m].text = movie.members[m].text
                      ELSE \A claim \in ClaimsOf(m) : IsExpected(members[m].text, claim[1], claim[2])
    BY DEF TextReachesItsMember
  <2>1. CASE ClaimsOf(m) = {}
    <3>1. \A s : ~HasClaim(m, s)
      BY <2>1 DEF HasClaim
    <3>2. ~IsRestored(m)
      BY <3>1 DEF LinkInv, Given, MembersInv, OfMember
    <3>3. QED
      BY <2>1, <3>2 DEF IsRestored
  <2>2. CASE ~movie.members[m].info
    BY <2>2 DEF OwnInv, OwnTexts, IsRestored
  <2>3. CASE ClaimsOf(m) # {} /\ movie.members[m].info
    <3>1. ASSUME NEW claim \in ClaimsOf(m)
          PROVE  IsExpected(members[m].text, claim[1], claim[2])
      <4>1. claim \in Claims /\ claim[3] = m
        BY <3>1 DEF ClaimsOf
      <4>2. members[m].text = Text(Entries(claim[1])[claim[2]])
        BY <2>3, <4>1 DEF OwnInv, OwnTexts, Due
      <4>3. QED
        BY <4>1, <4>2, TextIsExpected
    <3>2. QED
      BY <2>3, <3>1
  <2>4. QED
    BY <2>1, <2>2, <2>3
<1>2. QED
  BY <1>1, LinksAreOwn, PTL

(* Where also no two scripts are written to one path, dumpScripts writes a    *)
(* file for each script with a member, and restoreScriptText gives the member *)
(* what is in it.                                                          *)
THEOREM DumpsAgree == Spec => []DumpAgreesWithRestored
<1>1. LinkInv /\ OwnInv => DumpAgreesWithRestored
  <2> SUFFICES ASSUME LinkInv, OwnInv, phase = "done", dumped # <<>>, Unshared, DistinctPaths
               PROVE  /\ DOMAIN dumped = UNION {PathsOf(m) : m \in Claimed}
                      /\ \A m \in Claimed : movie.members[m].info =>
                           \A p \in PathsOf(m) : dumped[p] = members[m].text
    BY DEF DumpAgreesWithRestored
  <2>1. DumpedUpTo(Len(casts) + 1)
    BY DEF OwnInv, OwnFiles
  <2>2. \A k \in DOMAIN casts : k < Len(casts) + 1
    BY DEF LinkInv, Linked, CastsInv
  <2>3. ASSUME NEW p
        PROVE  p \in DOMAIN dumped <=> \E m \in Claimed : p \in PathsOf(m)
    <3>1. p \in DOMAIN dumped <=> \E k \in DOMAIN casts, claim \in Claims : IsFileOf(p, k, claim)
      BY <2>1, <2>2 DEF DumpedUpTo
    <3>2. QED
      BY <3>1 DEF IsFileOf, Claimed, PathsOf
  <2>4. ASSUME NEW m \in Claimed, movie.members[m].info, NEW p \in PathsOf(m)
        PROVE  dumped[p] = members[m].text
    <3>1. PICK claim \in Claims : claim[3] = m
      BY <2>4 DEF Claimed
    <3>2. PICK k \in DOMAIN casts : Lists(casts[k], m) /\ p = Path(casts[k], m)
      BY <2>4 DEF PathsOf
    <3>3. IsFileOf(p, k, claim)
      BY <3>1, <3>2 DEF IsFileOf
    <3>4. dumped[p] = Text(Entries(claim[1])[claim[2]])
      BY <2>1, <2>2, <3>3 DEF DumpedUpTo
    <3>5. members[m].text = Text(Entries(claim[1])[claim[2]])
      BY <2>4, <3>1 DEF OwnInv, OwnTexts, Due
    <3>6. QED
      BY <3>4, <3>5
  <2>5. QED
    BY <2>3, <2>4
<1>2. QED
  BY <1>1, LinksAreOwn, PTL
=============================================================================
