---------------------------- MODULE ProvisionLun ----------------------------
(***************************************************************************)
(* examples/block-storage/provision-lun.sh: a LUN, an igroup with this     *)
(* host's initiator, and the LUN map, each read first and created only if  *)
(* it is missing.  The hosts of a cluster share the igroup (--igroup) and  *)
(* may run it at a time, over whatever an earlier run that stopped half    *)
(* way left behind.  The LUNs are not mapped to another igroup.            *)
(***************************************************************************)
EXTENDS Naturals, FiniteSets

CONSTANTS
    None,
    Luns,           \* LUN paths of the SVM
    Initiators,     \* IQNs of the hosts
    Runs,           \* runs of the script
    LunAdversary,   \* which of LunMoves the environment has
    LunBudget       \* how many of them it makes

\* An HTTP error of a call, a POST without an answer, a script that is
\* interrupted, an administrator who removes an object.
LunMoves == {"rejected", "lost", "interrupted", "remove"}

Requests == [lun : Luns, initiator : Initiators, check : BOOLEAN]

ASSUME ProvisionAssumption ==
    /\ None \notin Requests \cup {"ok", "checked", "failed"}
    /\ LunAdversary \subseteq LunMoves
    /\ LunBudget \in Nat

VARIABLES
    luns,           \* the LUNs that exist
    igroup,         \* 0, or which igroup of the name exists: its uuid
    members,        \* its initiators
    maps,           \* the LUNs mapped to it
    made,           \* how often an igroup of the name was created
    lunBudget,
    script          \* [Runs -> ScriptState]

san == <<luns, igroup, members, maps, made>>
lunVars == <<san, lunBudget, script>>

LunPCs == {"idle", "lun_get", "igroup_get", "lun", "igroup", "map_get", "map", "final", "done"}

\* have_lun, ig_uuid, member and mapped are what the script read.  The rest is not
\* in it: the POSTs it sent, what it met with, and whether all it was asked for
\* was in place when it began.
ScriptState ==
    [pc : LunPCs, request : Requests \cup {None}, have_lun : BOOLEAN, ig_uuid : Nat,
     member : BOOLEAN, mapped : BOOLEAN, status : {None, "ok", "checked", "failed"},
     posts : SUBSET {"lun", "igroup", "initiator", "map"},
     troubles : SUBSET {"overlap", "fault", "removal"}, whole : BOOLEAN]

NewScript ==
    [pc |-> "idle", request |-> None, have_lun |-> FALSE, ig_uuid |-> 0,
     member |-> FALSE, mapped |-> FALSE, status |-> None, posts |-> {},
     troubles |-> {}, whole |-> FALSE]

\* Any state of the SVM that ONTAP allows.
LunInit ==
    /\ luns \in SUBSET Luns
    /\ igroup \in {0, 1} /\ made = igroup
    /\ members \in SUBSET IF igroup = 0 THEN {} ELSE Initiators
    /\ maps \in SUBSET IF igroup = 0 THEN {} ELSE luns
    /\ lunBudget = LunBudget
    /\ script = [r \in Runs |-> NewScript]

Request(r) == script[r].request

Provisioned(q) ==
    /\ q.lun \in luns
    /\ igroup # 0 /\ q.initiator \in members
    /\ q.lun \in maps

Running(r) == script[r].pc \notin {"idle", "done"}

At(r, pc) == script[r].pc = pc

SpendLun(move) ==
    /\ move \in LunAdversary
    /\ lunBudget > 0
    /\ lunBudget' = lunBudget - 1

(***************************************************************************)
(* The script                                                              *)
(***************************************************************************)

\* Two runs at a time trouble each other.
Begin(r, q) ==
    /\ At(r, "idle")
    /\ LET others == {x \in Runs : Running(x)}
       IN  script' = [x \in Runs |->
             IF x = r
             THEN [script[r] EXCEPT !.pc = "lun_get", !.request = q, !.whole = Provisioned(q),
                                    !.troubles = IF others = {} THEN {} ELSE {"overlap"}]
             ELSE IF x \in others
             THEN [script[x] EXCEPT !.troubles = @ \cup {"overlap"}]
             ELSE script[x]]
    /\ UNCHANGED <<san, lunBudget>>

\* die(): exit 1 without undoing anything.
Died(s, r, troubles) ==
    [s EXCEPT ![r].pc = "done", ![r].status = "failed", ![r].troubles = @ \cup troubles]

\* ontap_ok dies on anything but 2xx, and so on a call without an answer.
CallFails(r, s) ==
    /\ \E move \in {"rejected", "lost"} : SpendLun(move)
    /\ script' = Died(s, r, {"fault"})
    /\ UNCHANGED san

Read(r, pc, script2) ==
    /\ At(r, pc)
    /\ \/ script' = script2 /\ UNCHANGED <<san, lunBudget>>
       \/ CallFails(r, script)

ReadLun(r) ==
    Read(r, "lun_get", [script EXCEPT ![r].pc = "igroup_get",
                                      ![r].have_lun = Request(r).lun \in luns])

\* Mutant: the initiators of the igroup are not looked at.
MutReadIgroup(r) ==
    LET q == Request(r)
    IN  Read(r, "igroup_get",
             [script EXCEPT ![r].pc = IF q.check THEN "done" ELSE "lun",
                            ![r].status = IF q.check THEN "checked" ELSE None,
                            ![r].ig_uuid = igroup,
                            ![r].member = FALSE])

\* --check stops here.
ReadIgroup(r) ==
    LET q == Request(r)
    IN  Read(r, "igroup_get",
             [script EXCEPT ![r].pc = IF q.check THEN "done" ELSE "lun",
                            ![r].status = IF q.check THEN "checked" ELSE None,
                            ![r].ig_uuid = igroup,
                            ![r].member = q.initiator \in members])

Skip(r, pc) ==
    /\ script' = [script EXCEPT ![r].pc = pc]
    /\ UNCHANGED <<san, lunBudget>>

\* A POST that ONTAP may carry out (Done), refuses unless possible, or whose
\* answer does not arrive, be it carried out or not.
Post(r, what, pc, possible, Done) ==
    LET sent == [script EXCEPT ![r].posts = @ \cup {what}]
    IN  \/ possible /\ Done /\ script' = [sent EXCEPT ![r].pc = pc] /\ UNCHANGED lunBudget
        \/ ~possible /\ script' = Died(sent, r, {}) /\ UNCHANGED <<san, lunBudget>>
        \/ possible /\ Done /\ SpendLun("lost") /\ script' = Died(sent, r, {"fault"})
        \/ CallFails(r, sent)

CreateLun(r) ==
    LET q == Request(r)
    IN  /\ At(r, "lun")
        /\ \/ script[r].have_lun /\ Skip(r, "igroup")
           \/ /\ ~script[r].have_lun
              /\ Post(r, "lun", "igroup", q.lun \notin luns,
                      luns' = luns \cup {q.lun} /\ UNCHANGED <<igroup, members, maps, made>>)

CreateIgroup(r) ==
    /\ At(r, "igroup") /\ script[r].ig_uuid = 0
    /\ Post(r, "igroup", "map_get", igroup = 0,
            /\ made' = made + 1 /\ igroup' = made + 1
            /\ members' = {Request(r).initiator}
            /\ UNCHANGED <<luns, maps>>)

\* Mutant: an igroup that exists is taken to hold the initiator.
MutAddInitiator(r) ==
    /\ At(r, "igroup") /\ script[r].ig_uuid # 0
    /\ Skip(r, "map_get")

\* The igroup is addressed by the uuid that was read.
AddInitiator(r) ==
    LET q == Request(r)
    IN  /\ At(r, "igroup") /\ script[r].ig_uuid # 0
        /\ \/ script[r].member /\ Skip(r, "map_get")
           \/ /\ ~script[r].member
              /\ Post(r, "initiator", "map_get",
                      igroup = script[r].ig_uuid /\ q.initiator \notin members,
                      /\ members' = members \cup {q.initiator}
                      /\ UNCHANGED <<luns, igroup, maps, made>>)

\* Mutant: the map is never found.
MutReadMap(r) ==
    Read(r, "map_get", [script EXCEPT ![r].pc = "map", ![r].mapped = FALSE])

ReadMap(r) ==
    Read(r, "map_get", [script EXCEPT ![r].pc = "map",
                                      ![r].mapped = Request(r).lun \in maps])

CreateMap(r) ==
    LET q == Request(r)
    IN  /\ At(r, "map")
        /\ \/ script[r].mapped /\ Skip(r, "final")
           \/ /\ ~script[r].mapped
              /\ Post(r, "map", "final", q.lun \in luns \ maps /\ igroup # 0,
                      maps' = maps \cup {q.lun} /\ UNCHANGED <<luns, igroup, members, made>>)

\* The last GET prints whatever it finds, an empty list too.
ReadFinal(r) ==
    Read(r, "final", [script EXCEPT ![r].pc = "done", ![r].status = "ok"])

(***************************************************************************)
(* The environment                                                         *)
(***************************************************************************)

Interrupted(r) ==
    /\ Running(r) /\ SpendLun("interrupted")
    /\ script' = Died(script, r, {"fault"})
    /\ UNCHANGED san

\* README.md's teardown: maps first, then what is not mapped.
Unmapped(l) == maps' = maps \ {l} /\ UNCHANGED <<luns, igroup, members, made>>

IgroupRemoved ==
    /\ igroup # 0 /\ maps = {}
    /\ igroup' = 0 /\ members' = {}
    /\ UNCHANGED <<luns, maps, made>>

LunRemoved(l) == luns' = luns \ {l} /\ UNCHANGED <<igroup, members, maps, made>>

Removal ==
    /\ SpendLun("remove")
    /\ \/ \E l \in maps : Unmapped(l)
       \/ IgroupRemoved
       \/ \E l \in luns \ maps : LunRemoved(l)
    /\ script' = [x \in Runs |->
          IF Running(x) THEN [script[x] EXCEPT !.troubles = @ \cup {"removal"}] ELSE script[x]]

ScriptStep(r) ==
    \/ \E q \in Requests : Begin(r, q)
    \/ ReadLun(r)
    \/ ReadIgroup(r)
    \/ CreateLun(r)
    \/ CreateIgroup(r)
    \/ AddInitiator(r)
    \/ ReadMap(r)
    \/ CreateMap(r)
    \/ ReadFinal(r)
    \/ Interrupted(r)

LunNext == (\E r \in Runs : ScriptStep(r)) \/ Removal

LunSpec == LunInit /\ [][LunNext]_lunVars

(***************************************************************************)
(* Properties                                                              *)
(***************************************************************************)

\* A run that ends with its result printed leaves the host with its LUN, whatever
\* other hosts ran at the same time and whatever answers were lost before, as
\* long as nobody removed anything meanwhile.  (With removals it does not: what
\* was read is not read again, and the last GET is not looked at.)
OkMeansProvisioned ==
    [][\A r \in Runs :
          Running(r) /\ script'[r].status = "ok" /\ "removal" \notin script'[r].troubles
        => Provisioned(Request(r))']_lunVars

\* "Idempotent": a run that finds everything in place sends no POST at all, even
\* while other hosts add themselves to the same igroup.
SecondRunPostsNothing ==
    \A r \in Runs : script[r].whole /\ "removal" \notin script[r].troubles => script[r].posts = {}

\* No state is a dead end: from anything ONTAP allows, and so from whatever runs
\* that failed, overlapped or were interrupted left behind, a run nobody disturbs
\* does not fail.
CalmRunSucceeds ==
    \A r \in Runs : script[r].status = "failed" => script[r].troubles # {}
=============================================================================
