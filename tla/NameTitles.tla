----------------------------- MODULE NameTitles ------------------------------
(***************************************************************************)
(* What the registry of identifiers promises, whichever of registration,   *)
(* renaming, buying, switching and the end of a lease changes it: everyone *)
(* who has joined answers to one name and holds it; a name is held by one  *)
(* person; it passes from one to another only by being free in between;    *)
(* and no step touches the names of two people.                            *)
(***************************************************************************)
CONSTANTS
  People,
  Names,
  NoName     \* held by nobody; not joined yet

VARIABLES
  name,      \* what each person answers to
  held       \* who holds each name, as the name in use or for later

titleVars == <<name, held>>

Answers(p) == name[p] = NoName \/ held[name[p]] = p

TitlesInit ==
  /\ name \in [People -> Names \cup {NoName}] /\ held \in [Names -> People \cup {NoName}]
  /\ \A p \in People : Answers(p)

\* A person takes free names, gives some away, and answers to one he holds
\* afterwards.
Exchange(p) ==
  /\ \A v \in Names : held'[v] # held[v] => {held[v], held'[v]} = {p, NoName}
  /\ \E v \in Names : name' = [name EXCEPT ![p] = v] /\ held'[v] = p

TitlesNext ==
  /\ held' \in [Names -> People \cup {NoName}]
  /\ \E p \in People : Exchange(p)

TitlesSpec == TitlesInit /\ [][TitlesNext]_titleVars
=============================================================================
