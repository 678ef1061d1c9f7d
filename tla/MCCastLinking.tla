---------------------------- MODULE MCCastLinking ----------------------------
(***************************************************************************)
(* Movies with two casts: gaps in contexts and slots, factories, stale keys *)
(* and sections that are missing, shared scripts, members, contexts and      *)
(* casts, by two owners and by one that is listed twice.                    *)
(***************************************************************************)
EXTENDS CastLinking

Key(owner, fourCC, section) == [owner |-> owner, fourCC |-> fourCC, section |-> section]
CastKeys == <<Key(1, "CAS*", 10), Key(2, "CAS*", 20)>>
ContextKeys == <<Key(1, "Lctx", 11), Key(2, "Lctx", 21)>>

Listing(second) == <<[name |-> "a:b", id |-> 1, minMember |-> 1],
                     [name |-> "a?b", id |-> second, minMember |-> 2]>>

Movie(listed, keys, sections1, sections2, factory, ids, info, slots1, slots2) ==
  [listed    |-> listed, modern |-> TRUE, castList |-> Listing(2),
   firstCast |-> 10, minMember |-> 65535, keys |-> keys, names |-> {12, 22},
   contexts  |-> [x \in {11, 21} |->
                    IF x = 11 THEN [sections |-> sections1, names |-> 12]
                              ELSE [sections |-> sections2, names |-> 22]],
   scripts   |-> [s \in 31 .. 34 |->
                    [parent |-> IF factory /\ s \in {32, 34} THEN 0 ELSE None]],
   memberIDs |-> [c \in {10, 20} |-> IF c = 10 THEN slots1 ELSE slots2],
   members   |-> [m \in 41 .. 43 |->
                    [scriptID |-> ids[m - 40], info |-> m # 42 \/ info, text |-> None,
                     kind |-> "MovieScript", name |-> "main"]]]

IDs == {<<1, 2, 1>>, <<2, 1, 2>>, <<3, 1, 1>>, <<0, 1, 2>>, <<1, 1, 1>>, <<2, 3, 1>>}

(* Contexts: with gaps, with a script twice or missing, sharing a script.   *)
Scripting ==
  {Movie(TRUE, CastKeys \o ContextKeys, one, two, factory, ids, TRUE, <<41, 42>>, <<43>>) :
     one \in {<<31, 32>>, <<31, -1, 32>>, <<31, 32, 31>>, <<31, 99>>},
     two \in {<<33>>, <<33, 34>>, <<31>>}, factory \in BOOLEAN, ids \in IDs}

(* Keys and casts: stale keys, several contexts, a shared context or member. *)
Keying ==
  {Movie(listed, keys, <<31, 32>>, <<33, 34>>, TRUE, ids, info, one, two) :
     listed \in BOOLEAN, ids \in IDs, info \in BOOLEAN,
     keys \in {CastKeys \o ContextKeys,
               <<Key(1, "Lctx", 99), Key(2, "CAS*", 20)>> \o ContextKeys \o CastKeys,
               <<Key(1024, "Lctx", 21)>> \o CastKeys,
               <<Key(2, "CAS*", 20)>> \o ContextKeys,
               <<Key(1, "CAS*", 10), Key(2, "CAS*", 10)>> \o ContextKeys,
               CastKeys \o <<Key(1, "Lctx", 11), Key(1, "Lctx", 21), Key(2, "Lctx", 11)>>,
               <<Key(1, "CAS*", 99)>> \o CastKeys,
               <<Key(1, "CAS*", 0), Key(2, "CAS*", 20)>> \o ContextKeys,
               <<Key(1, "CAS*", 10), Key(2, "CAS*", 10), Key(1, "Lctx", 11)>>},
     one \in {<<41, 42>>, <<0, 42, 41>>, <<41, 98>>}, two \in {<<43>>, <<42, 43>>}}

(* Two owners of one list of members, each with a context; a factory that     *)
(* only the first lists; the same cast twice.                               *)
Sharers ==
  {Movie(TRUE, keys \o ContextKeys, one, two, factory, ids, TRUE, <<41, 42>>, <<43>>) :
     keys \in {<<Key(1, "CAS*", 10), Key(2, "CAS*", 10)>>, <<Key(1, "CAS*", 10)>>},
     one \in {<<31, 32>>, <<31, 32, 33>>}, two \in {<<31>>, <<31, 33>>}, factory \in BOOLEAN,
     ids \in IDs}
Relisted == {[m EXCEPT !.castList = Listing(1)] : m \in Sharers}

MCMovies == Scripting \cup Keying \cup Sharers \cup Relisted
MCClean == [name \in {"a:b", "a?b", "main", "Internal", "External"} |->
              IF name \in {"a:b", "a?b"} THEN "a_b" ELSE name]
=============================================================================
