----------------------------- MODULE TreeReader -----------------------------
(***************************************************************************)
(* The functions of infra-1.0/TreeReader: the input files as one chain     *)
(* with friends, their Configurations as one, and an object connected to   *)
(* every branch that is wanted.  A file list is represented by one file:   *)
(*   tree     the name of its tree                                         *)
(*   stored   its branches, "dotted" when stored as "name."                *)
(*   config   branch: type and id of each branch; index: the name of the   *)
(*            matching of each matched pair of branches                    *)
(*   entries  the number of events                                         *)
(***************************************************************************)
EXTENDS Integers, SequencesExt

(***************************************************************************)
(* MakeChain                                                               *)
(***************************************************************************)
\* The name with the first number that is not among the names.
LookupAlias(names, name) ==
  CHOOSE a \in {<<name, n>> : n \in 0 .. Len(names)} :
    /\ a \notin ToSet(names)
    /\ \A n \in 0 .. a[2] - 1 : <<name, n>> \in ToSet(names)

Aliases(files) ==
  FoldLeft(LAMBDA names, f : Append(names, LookupAlias(names, f.tree)), <<>>, files)

\* The first file is the chain, the others are its friends under their aliases.
MakeChain(files) ==
  [main    |-> files[1],
   friends |-> [i \in 1 .. Len(files) - 1 |->
                  [alias |-> Aliases(files)[i + 1], file |-> files[i + 1]]]]

\* TChain::GetFriend: the first friend of this alias.
GetFriend(chain, alias) ==
  LET named == {i \in DOMAIN chain.friends : chain.friends[i].alias = alias}
  IN chain.friends[Min(named)].file

(***************************************************************************)
(* GetConfigurationFromFileList                                            *)
(***************************************************************************)
\* Two branches of one name or id make Merge throw.  The matchings of the
\* other configuration are not merged.
Merge(config, other) ==
  LET ids(c) == {c.branch[b].id : b \in DOMAIN c.branch}
  IN [ok     |-> /\ DOMAIN config.branch \cap DOMAIN other.branch = {}
                 /\ ids(config) \cap ids(other) = {},
      config |-> [config EXCEPT !.branch =
                    [b \in DOMAIN @ \cup DOMAIN other.branch |->
                       IF b \in DOMAIN @ THEN @[b] ELSE other.branch[b]]]]

GetConfigurationFromFileList(files) ==
  FoldLeft(LAMBDA all, f :
             LET merged == Merge(all.config, f.config)
             IN [merged EXCEPT !.ok = @ /\ all.ok],
           [ok |-> TRUE, config |-> files[1].config], Tail(files))

(***************************************************************************)
(* GetPointersToBranches                                                   *)
(***************************************************************************)
\* The chain is searched first, then its friends by alias.
CheckBranchExistence(chain, name) ==
  LET all == <<chain.main>> \o
             [i \in DOMAIN chain.friends |-> GetFriend(chain, chain.friends[i].alias)]
      having == {i \in DOMAIN all : name \in DOMAIN all[i].stored}
  IN IF having = {} THEN "absent" ELSE all[Min(having)].stored[name]

Connected(chain, name) ==
  CheckBranchExistence(chain, name) \in {"plain", "dotted"}

MatchingNames(config) == {config.index[p] : p \in DOMAIN config.index}

\* No names mean all branches.
Wanted(config, names) == IF names = {} THEN DOMAIN config.branch ELSE names

\* Nothing throws: every branch is in the Configuration and in a file, so is
\* every matching, whoever needs it, and no two have the same name.
PointersOk(chain, config, names) ==
  LET wanted == Wanted(config, names)
  IN /\ wanted \subseteq DOMAIN config.branch
     /\ \A b \in wanted :
          config.branch[b].type # "kGeneric" => Connected(chain, b)
     /\ wanted \cap MatchingNames(config) = {}
     /\ IsInjective(config.index)
     /\ \A n \in MatchingNames(config) : Connected(chain, n)

\* The switch over the types leaves out kGeneric: its pointer stays null.
GetPointersToBranches(config, names) ==
  [n \in Wanted(config, names) \cup MatchingNames(config) |->
     IF n \in MatchingNames(config) THEN "Matching"
     ELSE IF config.branch[n].type = "kGeneric" THEN "nullptr"
     ELSE config.branch[n].type]
=============================================================================
