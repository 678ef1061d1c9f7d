----------------------------- MODULE CastLinking -----------------------------
(***************************************************************************)
(* How a script finds its cast member: readCasts, parseScripts,            *)
(* dumpScripts and restoreScriptText of src/src/director/dirfile.cpp,       *)
(* CastChunk::populate, ScriptContext::read and Script::setContext.         *)
(*                                                                         *)
(* The key table leads from a cast to its list of members and to its        *)
(* script context, the context from a script number to a script, a member  *)
(* names its script by that number, a factory names its parent script.      *)
(* Objects are shared and made once, when they are first asked for, so a    *)
(* link that is made through one cast is seen, and can be replaced, through *)
(* another.  Casts are shared as well: entries of the list that lead to one  *)
(* CAS* section lead to one CastChunk, which is populated once for each.     *)
(*                                                                         *)
(* A text is what it is generated from: a script, the names it was given,   *)
(* the names its bytecode was parsed with, and its factories.              *)
(***************************************************************************)
EXTENDS Integers, Sequences, FiniteSets, SequencesExt, FiniteSetsExt

CONSTANTS
  Movies,     (* Key table, cast list and linked chunks of each movie.       *)
  Clean,      (* What cleanFileName makes of a name.                        *)
  None        (* No section.                                                *)

(* Chunks are found by number, number 0 is the container itself, and the     *)
(* first cast in the file is a cast that there is.                          *)
IsMovie(movie) ==
  /\ movie.castList \in Seq([name : DOMAIN Clean, id : Int, minMember : Int])
  /\ DOMAIN movie.keys \subseteq Nat
  /\ \A k \in DOMAIN movie.keys : movie.keys[k].section \in Int
  /\ movie.minMember \in Int
  /\ movie.firstCast = None \/ movie.firstCast \in DOMAIN movie.memberIDs
  /\ \A x \in DOMAIN movie.contexts :
       /\ x \in Int
       /\ movie.contexts[x].sections \in Seq(Int) /\ movie.contexts[x].names \in Int
  /\ DOMAIN movie.scripts \subseteq Nat
  /\ \A s \in DOMAIN movie.scripts : movie.scripts[s].parent \in Int \cup {None}
  /\ DOMAIN movie.members \subseteq Nat \ {0}
  /\ DOMAIN movie.memberIDs \subseteq Nat \ {0}
  /\ \A c \in DOMAIN movie.memberIDs : movie.memberIDs[c] \in Seq(Int)
ASSUME MoviesAssumption ==
  /\ None \notin Int
  /\ {"Internal", "External"} \subseteq DOMAIN Clean
  /\ \A movie \in Movies : IsMovie(movie)

(* A factory's parent is in its context and no factory; ScriptContext::read *)
(* follows it without a check.                                             *)
ASSUME FactoriesAssumption ==
  \A movie \in Movies : \A x \in DOMAIN movie.contexts :
    LET sections == movie.contexts[x].sections
    IN  \A i \in DOMAIN sections :
          sections[i] > -1 /\ sections[i] \in DOMAIN movie.scripts =>
            LET parent == movie.scripts[sections[i]].parent
            IN  parent # None =>
                  /\ parent + 1 \in DOMAIN sections
                  /\ sections[parent + 1] \in DOMAIN movie.scripts
                  /\ movie.scripts[sections[parent + 1]].parent = None

VARIABLES
  movie,
  phase,      (* "casts", "context", "members", "parse", "dump", "restore",  *)
              (* "done" or "aborted".                                       *)
  casts,      (* Casts populated so far, in order: what for, and the name    *)
              (* and the context that the CastChunk has by now.             *)
  contexts,   (* ScriptContext::scripts by section: section by number.       *)
  scripts,    (* Script objects by section.                                 *)
  members,    (* Cast member objects by section.                            *)
  at,         (* Where the loop over the casts is.                          *)
  slot,       (* Where the loop over the slots of a cast is.                *)
  dumped      (* Script files: text by path.                                *)

vars == <<movie, phase, casts, contexts, scripts, members, at, slot, dumped>>

With(f, key, value) == [k \in DOMAIN f \cup {key} |-> IF k = key THEN value ELSE f[k]]

Abort ==
  /\ phase' = "aborted"
  /\ UNCHANGED <<movie, casts, contexts, scripts, members, at, slot, dumped>>
-----------------------------------------------------------------------------
(***************************************************************************)
(* Reading the casts.                                                      *)
(***************************************************************************)

(* The keys that an owner has for chunks of this type, and the first of some. *)
KeysOf(owner, fourCC) ==
  {k \in DOMAIN movie.keys : movie.keys[k].owner = owner /\ movie.keys[k].fourCC = fourCC}
FirstKey(keys) == IF keys = {} THEN None ELSE movie.keys[Min(keys)].section

(* The section that the first key of the entry gives; -1 without a key.     *)
SectionID(id) ==
  LET key == FirstKey(KeysOf(id, "CAS*")) IN IF key = None THEN -1 ELSE key

(* Casts are listed from version 500 on; without a list there is the first *)
(* cast in the file, with a fixed id.                                      *)
CastEntries ==
  IF movie.listed
  THEN [k \in DOMAIN movie.castList |->
          [name |-> movie.castList[k].name, id |-> movie.castList[k].id,
           minMember |-> movie.castList[k].minMember,
           section |-> SectionID(movie.castList[k].id)]]
  ELSE IF movie.firstCast = None THEN <<>>
  ELSE <<[name |-> IF movie.modern THEN "External" ELSE "Internal", id |-> 1024,
          minMember |-> movie.minMember, section |-> movie.firstCast]>>

SkipCast ==
  /\ phase = "casts"
  /\ at <= Len(CastEntries)
  /\ CastEntries[at].section <= 0
  /\ at' = at + 1
  /\ UNCHANGED <<movie, phase, casts, contexts, scripts, members, slot, dumped>>

(* What populate changes in the CastChunk of a section, for all that have it. *)
Sharing(section) == {k \in DOMAIN casts : casts[k].section = section}
Renamed(section, name) ==
  [k \in DOMAIN casts |-> IF k \in Sharing(section) THEN [casts[k] EXCEPT !.name = name]
                         ELSE casts[k]]
WithContext(section, x) ==
  [k \in DOMAIN casts |-> IF k \in Sharing(section) THEN [casts[k] EXCEPT !.lctx = x]
                         ELSE casts[k]]
ContextSoFar(section) ==
  IF Sharing(section) = {} THEN None ELSE casts[CHOOSE k \in Sharing(section) : TRUE].lctx

ReadCast ==
  /\ phase = "casts"
  /\ at <= Len(CastEntries)
  /\ CastEntries[at].section > 0
  /\ LET entry == CastEntries[at]
     IN  IF entry.section \notin DOMAIN movie.memberIDs THEN Abort
         ELSE /\ casts' = Append(Renamed(entry.section, entry.name),
                                 [name |-> entry.name, id |-> entry.id,
                                  minMember |-> entry.minMember, section |-> entry.section,
                                  lctx |-> ContextSoFar(entry.section)])
              /\ phase' = "context"
              /\ UNCHANGED <<movie, contexts, scripts, members, at, slot, dumped>>

Cast == Last(casts)
IsContext(section) == section \in DOMAIN movie.contexts
-----------------------------------------------------------------------------
(***************************************************************************)
(* A script context: its scripts are given their names, its factories are   *)
(* given to their parents.                                                 *)
(***************************************************************************)
Entries(x) ==
  LET sections == movie.contexts[x].sections
  IN  [n \in {i \in DOMAIN sections : sections[i] > -1} |-> sections[n]]

ContextThrows(x) ==
  \/ movie.contexts[x].names \notin movie.names
  \/ \E n \in DOMAIN Entries(x) : Entries(x)[n] \notin DOMAIN movie.scripts

Unlinked == [declared |-> <<>>, names |-> None, parsedWith |-> None,
             factories |-> <<>>, member |-> None]
ScriptObject(s) == IF s \in DOMAIN scripts THEN scripts[s] ELSE Unlinked

(* Once for every number the script has in the context, as setContext.      *)
Declared(x, s) ==
  ScriptObject(s).declared
    \o [k \in 1 .. Cardinality({n \in DOMAIN Entries(x) : Entries(x)[n] = s}) |->
          movie.contexts[x].names]

(* A set of numbers as an increasing sequence.                              *)
InOrder(numbers) ==
  CHOOSE q \in [1 .. Cardinality(numbers) -> numbers] : \A i, j \in DOMAIN q : i < j => q[i] < q[j]

FactoriesOf(x, s) ==
  LET factories == InOrder({n \in DOMAIN Entries(x) :
                              LET parent == movie.scripts[Entries(x)[n]].parent
                              IN  parent # None /\ Entries(x)[parent + 1] = s})
  IN  ScriptObject(s).factories \o [k \in DOMAIN factories |-> Entries(x)[factories[k]]]

ReadContext(x) ==
  LET read == {Entries(x)[n] : n \in DOMAIN Entries(x)}
  IN  /\ contexts' = With(contexts, x, Entries(x))
      /\ scripts' = [s \in DOMAIN scripts \cup read |->
                       IF s \notin read THEN scripts[s]
                       ELSE [ScriptObject(s) EXCEPT
                               !.names = movie.contexts[x].names,
                               !.declared = Declared(x, s),
                               !.factories = FactoriesOf(x, s)]]

FirstKeyEver(owner) == FirstKey(KeysOf(owner, "Lctx"))   (* trusts the key *)
ContextKey(owner) ==
  FirstKey({k \in KeysOf(owner, "Lctx") : IsContext(movie.keys[k].section)})

LinkContext ==
  /\ phase = "context"
  /\ LET x == ContextKey(Cast.id)
     IN  IF x = None
         THEN UNCHANGED <<casts, contexts, scripts>> /\ phase' = "members"
         ELSE IF ~IsContext(x) \/ (x \notin DOMAIN contexts /\ ContextThrows(x))
         THEN UNCHANGED <<casts, contexts, scripts>> /\ phase' = "aborted"
         ELSE /\ casts' = WithContext(Cast.section, x)
              /\ IF x \in DOMAIN contexts THEN UNCHANGED <<contexts, scripts>>
                 ELSE ReadContext(x)
              /\ phase' = "members"
  /\ slot' = 1
  /\ UNCHANGED <<movie, members, at, dumped>>
-----------------------------------------------------------------------------
(***************************************************************************)
(* A slot of the cast: the member gets its number, and the script that it  *)
(* names gets the member.                                                  *)
(***************************************************************************)
MemberIDs == movie.memberIDs[Cast.section]
ScriptsOfAny(cast) ==   (* keeps the context of the cast before *)
  LET linked == {k \in DOMAIN casts : casts[k].lctx # None}
  IN  IF linked = {} THEN <<>> ELSE contexts[casts[Min(linked)].lctx]
ScriptsOf(cast) == IF cast.lctx = None THEN <<>> ELSE contexts[cast.lctx]

ScriptIndex(m) == movie.members[m].scriptID + 1   (* counts from 0 *)
ScriptID(m) == movie.members[m].scriptID

UnboundedNumber(k) == k - 1 + Cast.minMember
MemberNumber(k) == (k - 1 + Cast.minMember) % 65536

LinkMember ==
  /\ phase = "members"
  /\ slot <= Len(MemberIDs)
  /\ LET m      == MemberIDs[slot]
         linked == ScriptID(m) \in DOMAIN ScriptsOf(Cast)
     IN  IF m <= 0
         THEN /\ slot' = slot + 1
              /\ UNCHANGED <<movie, phase, casts, contexts, scripts, members, at, dumped>>
         ELSE IF m \notin DOMAIN movie.members THEN Abort
         ELSE /\ members' = With(members, m,
                              [number |-> MemberNumber(slot), text |-> movie.members[m].text])
              /\ scripts' = IF linked
                            THEN [scripts EXCEPT ![ScriptsOf(Cast)[ScriptID(m)]].member = m]
                            ELSE scripts
              /\ slot' = slot + 1
              /\ UNCHANGED <<movie, phase, casts, contexts, at, dumped>>

CastRead ==
  /\ phase = "members"
  /\ slot > Len(MemberIDs)
  /\ phase' = "casts"
  /\ at' = at + 1
  /\ UNCHANGED <<movie, casts, contexts, scripts, members, slot, dumped>>

CastsReadAndRestored ==   (* goes straight to restoring *)
  /\ phase = "casts"
  /\ at > Len(CastEntries)
  /\ phase' = "restore"
  /\ at' = 1
  /\ UNCHANGED <<movie, casts, contexts, scripts, members, slot, dumped>>

CastsRead ==
  /\ phase = "casts"
  /\ at > Len(CastEntries)
  /\ phase' = "parse"
  /\ at' = 1
  /\ UNCHANGED <<movie, casts, contexts, scripts, members, slot, dumped>>
-----------------------------------------------------------------------------
(***************************************************************************)
(* Parsing, dumping and restoring, each a loop over the casts.              *)
(***************************************************************************)
ParseCast ==
  /\ phase = "parse"
  /\ at <= Len(casts)
  /\ LET parsed == {ScriptsOf(casts[at])[n] : n \in DOMAIN ScriptsOf(casts[at])}
     IN  scripts' = [s \in DOMAIN scripts |->
                       IF s \in parsed THEN [scripts[s] EXCEPT !.parsedWith = scripts[s].names]
                       ELSE scripts[s]]
  /\ at' = at + 1
  /\ UNCHANGED <<movie, phase, casts, contexts, members, slot, dumped>>

(* Dumping is an option of the command line.                                *)
Parsed ==
  /\ phase = "parse"
  /\ at > Len(casts)
  /\ phase' \in {"dump", "restore"}
  /\ at' = 1
  /\ UNCHANGED <<movie, casts, contexts, scripts, members, slot, dumped>>

OwnText(s) == [script |-> s, declared |-> scripts[s].declared,
               parsedWith |-> scripts[s].parsedWith]
Text(s) ==
  [body |-> OwnText(s),
   factories |-> [k \in DOMAIN scripts[s].factories |-> OwnText(scripts[s].factories[k])]]
FileTextAlone(s) == [body |-> OwnText(s), factories |-> <<>>]   (* without factories *)
FileText(s) == Text(s)

Path(cast, m) ==
  <<Clean[cast.name], movie.members[m].kind, members[m].number, Clean[movie.members[m].name]>>

(* The scripts of a cast that a member has named, in the order of numbers.  *)
Named(cast) == {n \in DOMAIN ScriptsOf(cast) : scripts[ScriptsOf(cast)[n]].member # None}

DumpCast ==
  /\ phase = "dump"
  /\ at <= Len(casts)
  /\ LET cast == casts[at]
         PathOf(n) == Path(cast, scripts[ScriptsOf(cast)[n]].member)
         written == {PathOf(n) : n \in Named(cast)}
     IN  dumped' = [p \in DOMAIN dumped \cup written |->
                      IF p \in written
                      THEN FileText(ScriptsOf(cast)[Max({n \in Named(cast) : PathOf(n) = p})])
                      ELSE dumped[p]]
  /\ at' = at + 1
  /\ UNCHANGED <<movie, phase, casts, contexts, scripts, members, slot>>

Dumped ==
  /\ phase = "dump"
  /\ at > Len(casts)
  /\ phase' = "restore"
  /\ at' = 1
  /\ UNCHANGED <<movie, casts, contexts, scripts, members, slot, dumped>>

RestoreCast ==
  /\ phase = "restore"
  /\ at <= Len(casts)
  /\ LET cast == casts[at]
         Texts(m) == {n \in Named(cast) : scripts[ScriptsOf(cast)[n]].member = m}
     IN  members' = [m \in DOMAIN members |->
                       IF Texts(m) = {} \/ ~movie.members[m].info THEN members[m]
                       ELSE [members[m] EXCEPT !.text = Text(ScriptsOf(cast)[Max(Texts(m))])]]
  /\ at' = at + 1
  /\ UNCHANGED <<movie, phase, casts, contexts, scripts, slot, dumped>>

Restored ==
  /\ phase = "restore"
  /\ at > Len(casts)
  /\ phase' = "done"
  /\ UNCHANGED <<movie, casts, contexts, scripts, members, at, slot, dumped>>

Ended == phase \in {"done", "aborted"} /\ UNCHANGED vars

Init ==
  /\ movie \in Movies
  /\ phase = "casts"
  /\ casts = <<>>
  /\ contexts = <<>> /\ scripts = <<>> /\ members = <<>> /\ dumped = <<>>
  /\ at = 1 /\ slot = 1

Next ==
  \/ SkipCast \/ ReadCast \/ LinkContext \/ LinkMember \/ CastRead \/ CastsRead
  \/ ParseCast \/ Parsed \/ DumpCast \/ Dumped \/ RestoreCast \/ Restored
  \/ Ended

Spec == Init /\ [][Next]_vars
-----------------------------------------------------------------------------
(***************************************************************************)
(* Properties.                                                             *)
(***************************************************************************)
SectionsAndNone == Int \cup {None}
Shorts == {n \in Nat : n < 65536}
Body == [script : Int, declared : Seq(Int), parsedWith : SectionsAndNone]
IsText(text) ==
  /\ text.body \in Body
  /\ \A k \in DOMAIN text.factories : text.factories[k] \in Body

TypeOK ==
  /\ phase \in {"casts", "context", "members", "parse", "dump", "restore", "done", "aborted"}
  /\ at \in Nat \ {0} /\ slot \in Nat \ {0}
  /\ \A k \in DOMAIN casts : casts[k].lctx \in SectionsAndNone
  /\ \A s \in DOMAIN scripts :
       /\ scripts[s].declared \in Seq(Int) /\ scripts[s].factories \in Seq(Int)
       /\ scripts[s].names \in SectionsAndNone /\ scripts[s].parsedWith \in SectionsAndNone
       /\ scripts[s].member \in SectionsAndNone
  /\ \A m \in DOMAIN members : members[m].number \in Shorts
  /\ \A p \in DOMAIN dumped : IsText(dumped[p])

Owns(owner, fourCC, section) ==
  \E k \in DOMAIN movie.keys :
    movie.keys[k].owner = owner /\ movie.keys[k].fourCC = fourCC /\ movie.keys[k].section = section

Lists(cast, m) ==
  \E i \in DOMAIN movie.memberIDs[cast.section] : movie.memberIDs[cast.section][i] = m

(* Member m names script number n of a context of its cast.                 *)
Claims ==
  {claim \in (DOMAIN movie.contexts) \X (UNION {DOMAIN Entries(x) : x \in DOMAIN movie.contexts})
               \X (DOMAIN movie.members) :
     LET x == claim[1]  n == claim[2]  m == claim[3]
     IN  /\ n = movie.members[m].scriptID
         /\ n \in DOMAIN Entries(x)
         /\ \E k \in DOMAIN casts :
              Owns(casts[k].id, "Lctx", x) /\ Lists(casts[k], m)}
ClaimsOf(m) == {claim \in Claims : claim[3] = m}

IsRestored(m) == members[m].text # movie.members[m].text

(* Whatever tables a movie has, even ones that share scripts, contexts or   *)
(* members, a member is only ever given the text of a script that it names *)
(* in a cast it is in: the link from script to member, which every cast may *)
(* replace, never leads to a member that did not ask for the script.        *)
NoForeignText ==
  \A m \in DOMAIN members : IsRestored(m) =>
    \E claim \in ClaimsOf(m) : Entries(claim[1])[claim[2]] = members[m].text.body.script

Complete(body) == body.parsedWith # None /\ body.parsedWith = Last(body.declared)

(* No context that was read was replaced in its cast by that of another     *)
(* owner of the same list of members: parseScripts would never come to it.  *)
ContextsAreKept == \A x \in DOMAIN contexts : \E k \in DOMAIN casts : casts[k].lctx = x

(* No text is taken from a script, or from a factory inside it, before the *)
(* script has its names and its bytecode is parsed with those names         *)
(* (scriptText follows the pointer to the syntax tree without a check),     *)
(* whatever scripts, members and contexts casts share, as long as no context *)
(* is lost to a second owner of its cast.                                  *)
TextsAreComplete ==
  LET Good(text) == /\ Complete(text.body)
                    /\ \A k \in DOMAIN text.factories : Complete(text.factories[k])
  IN  ContextsAreKept =>
        /\ \A m \in DOMAIN members : IsRestored(m) => Good(members[m].text)
        /\ \A p \in DOMAIN dumped : Good(dumped[p])

(* The program gives up on a movie only for something that the movie needs  *)
(* and that is not there: a list of members, a member, a script or names.   *)
(* A key left behind for a script context that was deleted does no harm     *)
(* (populate passes over it).                                              *)
GivesUpForAReason ==
  phase = "aborted" =>
    \/ \E k \in DOMAIN movie.keys :
         /\ movie.keys[k].fourCC = "CAS*"
         /\ movie.keys[k].section > 0 /\ movie.keys[k].section \notin DOMAIN movie.memberIDs
    \/ \E c \in DOMAIN movie.memberIDs : \E i \in DOMAIN movie.memberIDs[c] :
         movie.memberIDs[c][i] > 0 /\ movie.memberIDs[c][i] \notin DOMAIN movie.members
    \/ \E x \in DOMAIN movie.contexts : ContextThrows(x)

(* Nothing is shared between casts: every list of members has one owner,     *)
(* every owner one live context, every script one number, every member one   *)
(* slot, every script one member.                                          *)
Slots == UNION {{c} \X DOMAIN movie.memberIDs[c] : c \in DOMAIN movie.memberIDs}
Numbers == UNION {{x} \X DOMAIN Entries(x) : x \in DOMAIN movie.contexts}
MemberListKeys == {k \in DOMAIN movie.keys : movie.keys[k].fourCC = "CAS*"}
LiveKeys == {k \in DOMAIN movie.keys : movie.keys[k].fourCC = "Lctx" /\ IsContext(movie.keys[k].section)}

OneOwner ==
  \A j, k \in MemberListKeys :
    movie.keys[j].section = movie.keys[k].section => movie.keys[j].owner = movie.keys[k].owner
OneContext ==
  \A j, k \in LiveKeys : \/ movie.keys[j].owner = movie.keys[k].owner
                         \/ movie.keys[j].section = movie.keys[k].section
                         => j = k
OneNumber == \A a, b \in Numbers : Entries(a[1])[a[2]] = Entries(b[1])[b[2]] => a = b
OneSlot ==
  \A a, b \in Slots : movie.memberIDs[a[1]][a[2]] = movie.memberIDs[b[1]][b[2]]
                      => a = b \/ movie.memberIDs[a[1]][a[2]] <= 0
OneMember == \A a, b \in Claims : a[1] = b[1] /\ a[2] = b[2] => a = b
Unshared == OneOwner /\ OneContext /\ OneNumber /\ OneSlot /\ OneMember

ExpectedBody(x, s) ==
  [script |-> s, declared |-> <<movie.contexts[x].names>>, parsedWith |-> movie.contexts[x].names]

(* The whole text of script number n: its own and that of the factories     *)
(* whose parent number is n - 1, each factory once.                        *)
IsExpected(text, x, n) ==
  LET factories == {f \in DOMAIN Entries(x) : movie.scripts[Entries(x)[f]].parent = n - 1}
  IN  /\ text.body = ExpectedBody(x, Entries(x)[n])
      /\ Len(text.factories) = Cardinality(factories)
      /\ \A f \in factories : \E k \in DOMAIN text.factories :
           text.factories[k] = ExpectedBody(x, Entries(x)[f])

(* Restoring is complete and exact: in a movie whose casts share nothing,   *)
(* every member that names a script gets its whole text, with the names of  *)
(* its own cast and its factories, once each; every other member, and a     *)
(* member without an info block, keeps the text it had.                    *)
TextReachesItsMember ==
  phase = "done" /\ Unshared =>
    \A m \in DOMAIN members :
      IF ClaimsOf(m) = {} \/ ~movie.members[m].info
      THEN members[m].text = movie.members[m].text
      ELSE \A claim \in ClaimsOf(m) : IsExpected(members[m].text, claim[1], claim[2])

(* The files that the script of a member is written to.                     *)
PathsOf(m) == {Path(casts[k], m) : k \in {j \in DOMAIN casts : Lists(casts[j], m)}}
Claimed == {claim[3] : claim \in Claims}
DistinctPaths == \A a, b \in Claimed : a # b => PathsOf(a) \cap PathsOf(b) = {}

(* The files of a dump hold the very text that is put back into the movie,  *)
(* one file for each script with a member, unless two of them get the same *)
(* name (cleaned cast name, type, member number and cleaned member name).   *)
DumpAgreesWithRestored ==
  phase = "done" /\ dumped # <<>> /\ Unshared /\ DistinctPaths =>
    /\ DOMAIN dumped = UNION {PathsOf(m) : m \in Claimed}
    /\ \A m \in Claimed : movie.members[m].info =>
         \A p \in PathsOf(m) : dumped[p] = members[m].text
=============================================================================
