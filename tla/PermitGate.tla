----------------------------- MODULE PermitGate -----------------------------
(***************************************************************************)
(* The deny gate of the dealer (mc3api/purchase_hook.py PermitTable,       *)
(* tools/hook_purchase.py): the DENY trampoline reads the enforce flag and *)
(* then the chosen vehicle's permit byte from the mailbox, while the       *)
(* client and the tool, two other processes, write table and flag there    *)
(* in separate writes.  Nobody locks anything, and a writer may fail       *)
(* between two writes.                                                     *)
(*                                                                         *)
(* A vehicle is its catalog index, and its name goes by that index too.  A *)
(* configuration is what a writer asks the gate to do; configs is the      *)
(* history of those asked for.                                             *)
(***************************************************************************)
EXTENDS Naturals, SequencesExt

CONSTANTS
    Vehicles,     \* indices of the permit table in use
    MaxConfigs    \* bound: configurations asked for, the first one included

ASSUME VehiclesAssumption == Vehicles \subseteq Nat
ASSUME ConfigsAssumption == MaxConfigs \in Nat \ {0}

VARIABLES
    \* game memory
    denySite,           \* what the call site DENY_SITE jumps to
    code,               \* is the trampoline's code at DENY_TRAMP?
    enforce, permit,    \* the flag; the vehicles whose permit byte is 1
    pending,            \* the game's purchase-pending flag
    \* game
    purchase, vehicle,  \* where the trampoline is; the chosen vehicle
    oktobuy,            \* what UISet was last told
    \* writers
    job,                \* what each writer is doing
    left,               \* bytes its table write has not yet reached
    \* history
    configs,            \* the configurations asked for
    settled,            \* memory holds this one of them, or later ones
    torn,               \* may memory hold a mixture nobody asked for?
    since, doubt        \* settled when the purchase began; torn since then?

memory == <<denySite, code, enforce, permit>>
shop == <<pending, purchase, vehicle, oktobuy, since, doubt>>
writers == <<job, left>>
gateHistory == <<configs, settled, torn>>
gateVars == <<memory, shop, writers, gateHistory>>
-----------------------------------------------------------------------------
Writers == {"client", "tool"}
Config == [enforce : BOOLEAN, allowed : SUBSET Vehicles]
Lets(config, v) == config.enforce => v \in config.allowed
Other(w) == CHOOSE u \in Writers : u # w

JobNames == {"idle", "apply", "allow_all", "install_deny", "restore_deny",
          "install_detect", "enforce", "permit_allow_all", "permit_deny_all",
          "permit_set"}
Idle == [name |-> "idle", steps |-> <<>>, number |-> 1, alone |-> TRUE]
IsIdle(w) == job[w].steps = <<>>

GateTypeOK ==
    /\ denySite \in {"UISet", "trampoline"}
    /\ code \in BOOLEAN /\ enforce \in BOOLEAN /\ permit \in SUBSET Vehicles
    /\ pending \in BOOLEAN
    /\ purchase \in {"out", "flag", "byte"}
    /\ vehicle \in Vehicles
    /\ oktobuy \in {"none", "yes", "no"}
    /\ \A w \in Writers :
          /\ job[w].name \in JobNames
          /\ job[w].steps \in Seq({"flag", "table", "code", "site"})
          /\ job[w].number \in 1..Len(configs)
          /\ job[w].alone \in BOOLEAN
    /\ left \in [Writers -> SUBSET Vehicles]
    /\ configs \in Seq(Config) /\ Len(configs) \in 1..MaxConfigs
    /\ settled \in 1..Len(configs) /\ since \in 1..settled
    /\ torn \in BOOLEAN /\ doubt \in BOOLEAN

GateInit ==
    /\ denySite = "UISet" /\ code = FALSE /\ enforce = FALSE /\ permit = {}
    /\ pending = FALSE /\ purchase = "out" /\ oktobuy = "none"
    /\ vehicle \in Vehicles
    /\ job = [w \in Writers |-> Idle] /\ left = [w \in Writers |-> {}]
    /\ configs = <<[enforce |-> FALSE, allowed |-> {}]>>
    /\ settled = 1 /\ torn = FALSE /\ since = 1 /\ doubt = FALSE
-----------------------------------------------------------------------------
(* Writers.  A job is a sequence of writes towards one configuration.      *)

Begin(w, name, steps, bytes, config) ==
    /\ IsIdle(w)
    /\ Len(configs) < MaxConfigs
    /\ configs' = Append(configs, config)
    /\ job' = [u \in Writers |->
                 IF u = w THEN [name |-> name, steps |-> steps,
                                number |-> Len(configs'),
                                alone |-> IsIdle(Other(w))]
                          ELSE [job[u] EXCEPT !.alone = FALSE]]
    /\ left' = [left EXCEPT ![w] = bytes]
    /\ torn' = (torn \/ ~IsIdle(Other(w)))
    /\ doubt' = (doubt \/ torn')
    /\ UNCHANGED <<memory, pending, purchase, vehicle, oktobuy, settled, since>>

\* A job that wrote everything, with nobody beside it, leaves what it asked
\* for in memory; so does one that wrote a part of a memory in order.
Advance(w) ==
    LET done == Tail(job[w].steps) = <<>>
        whole == job[w].name \in {"apply", "allow_all", "install_deny",
                                  "install_detect"}
        good == done /\ job[w].alone /\ (whole \/ ~torn)
    IN
    /\ job' = IF done THEN [job EXCEPT ![w] = Idle]
                      ELSE [job EXCEPT ![w].steps = Tail(@)]
    /\ settled' = IF good THEN job[w].number ELSE settled
    /\ torn' = (torn /\ ~good)
    /\ UNCHANGED <<shop, configs>>

\* One byte of the table, in whatever order the copy goes.
WriteByte(w) ==
    \E v \in left[w] :
       /\ job[w].steps # <<>> /\ Head(job[w].steps) = "table"
       /\ permit' = IF v \in configs[job[w].number].allowed
                    THEN permit \cup {v} ELSE permit \ {v}
       /\ left' = [left EXCEPT ![w] = @ \ {v}]
       /\ IF left'[w] = {} THEN Advance(w)
                           ELSE UNCHANGED <<shop, job, gateHistory>>
       /\ UNCHANGED <<denySite, code, enforce>>

WriteFlag(w) ==
    /\ job[w].steps # <<>> /\ Head(job[w].steps) = "flag"
    /\ enforce' = configs[job[w].number].enforce
    /\ Advance(w)
    /\ UNCHANGED <<denySite, code, permit, left>>

WriteCode ==
    /\ job["tool"].steps # <<>> /\ Head(job["tool"].steps) = "code"
    /\ code' = TRUE
    /\ Advance("tool")
    /\ UNCHANGED <<denySite, enforce, permit, left>>

DENY_ORIG == "UISet"

WriteSite ==
    /\ job["tool"].steps # <<>> /\ Head(job["tool"].steps) = "site"
    /\ denySite' = IF job["tool"].name = "install_deny" THEN "trampoline"
                                                    ELSE DENY_ORIG
    /\ Advance("tool")
    /\ UNCHANGED <<code, enforce, permit, left>>

\* A write raises, or the process ends.
Fail(w) ==
    /\ ~IsIdle(w)
    /\ job' = [job EXCEPT ![w] = Idle]
    /\ left' = [left EXCEPT ![w] = {}]
    /\ torn' = TRUE
    /\ doubt' = TRUE
    /\ UNCHANGED <<memory, pending, purchase, vehicle, oktobuy, configs, settled,
                   since>>
-----------------------------------------------------------------------------
(* PermitTable, in the client.                                             *)

ApplySteps_FlagFirst == <<"flag", "table">>  \* mutant: arms before the table
ApplySteps == <<"table", "flag">>

ApplyBytes(allowed) == Vehicles

\* parse_vehicle_array reads the catalog up to its first invalid entry; there
\* is none to read while no profile is loaded.
Cataloged(invalid) == {v \in Vehicles : 0..v \cap invalid = {}}

\* set_vehicle_permits: names the catalog read does not know are left out.
\* The hook need not be there.
Apply(names, invalid, on) ==
    LET allowed == names \cap Cataloged(invalid) IN
    Begin("client", "apply", ApplySteps, ApplyBytes(allowed),
          [enforce |-> on, allowed |-> allowed])

AllowAll == Begin("client", "allow_all", <<"table", "flag">>, Vehicles,
                  [enforce |-> FALSE, allowed |-> Vehicles])

(* hook_purchase.py.                                                       *)

Vanilla == [enforce |-> FALSE, allowed |-> Vehicles]
Asked == Last(configs)

InstallSteps_SiteFirst ==                    \* mutant: patches, then prepares
    <<"site", "flag", "table", "code">>
InstallSteps == <<"flag", "table", "code", "site">>

InstallDeny ==
    /\ denySite = "UISet"
    /\ Begin("tool", "install_deny", InstallSteps, Vehicles, Vanilla)

RestoreDeny ==
    /\ denySite = "trampoline"
    /\ Begin("tool", "restore_deny", <<"site">>, {}, Asked)

\* _zero_mailbox_regions: installing the other hook resets this one.
ZeroMailbox ==
    Begin("tool", "install_detect", <<"flag", "table">>, Vehicles, Vanilla)

Enforce(on) ==
    Begin("tool", "enforce", <<"flag">>, {}, [Asked EXCEPT !.enforce = on])

PermitAllowAll ==
    Begin("tool", "permit_allow_all", <<"table">>, Vehicles,
          [Asked EXCEPT !.allowed = Vehicles])

PermitDenyAll ==
    Begin("tool", "permit_deny_all", <<"table">>, Vehicles,
          [Asked EXCEPT !.allowed = {}])

PermitSet(v, on) ==
    Begin("tool", "permit_set", <<"table">>, {v},
          [Asked EXCEPT !.allowed = IF on THEN @ \cup {v} ELSE @ \ {v}])
-----------------------------------------------------------------------------
(* The game: the player confirms a purchase, the site is called.           *)

Confirm(v) ==
    /\ purchase = "out"
    /\ vehicle' = v
    /\ pending' = TRUE
    /\ since' = settled
    /\ doubt' = torn
    /\ IF denySite = "UISet" THEN oktobuy' = "yes" /\ UNCHANGED purchase
                             ELSE purchase' = "flag" /\ UNCHANGED oktobuy
    /\ UNCHANGED <<memory, writers, gateHistory>>

Forward ==
    /\ \/ purchase = "flag" /\ ~enforce
       \/ purchase = "byte" /\ vehicle \in permit
    /\ oktobuy' = "yes"
    /\ purchase' = "out"
    /\ UNCHANGED <<memory, pending, vehicle, since, doubt, writers, gateHistory>>

ReadFlag ==
    /\ purchase = "flag"
    /\ enforce
    /\ purchase' = "byte"
    /\ UNCHANGED <<memory, pending, vehicle, oktobuy, since, doubt, writers,
                   gateHistory>>

Deny ==
    /\ purchase = "byte"
    /\ vehicle \notin permit
    /\ oktobuy' = "no"
    /\ pending' = FALSE
    /\ purchase' = "out"
    /\ UNCHANGED <<memory, vehicle, since, doubt, writers, gateHistory>>
-----------------------------------------------------------------------------
Client == AllowAll \/ \E names, invalid \in SUBSET Vehicles, on \in BOOLEAN :
                         Apply(names, invalid, on)
GateTool ==
    \/ InstallDeny \/ RestoreDeny \/ ZeroMailbox
    \/ PermitAllowAll \/ PermitDenyAll
    \/ \E on \in BOOLEAN : Enforce(on) \/ \E v \in Vehicles : PermitSet(v, on)
Write == \/ WriteCode \/ WriteSite
         \/ \E w \in Writers : WriteByte(w) \/ WriteFlag(w) \/ Fail(w)
Shop == Forward \/ ReadFlag \/ Deny \/ \E v \in Vehicles : Confirm(v)

GateNext == Client \/ GateTool \/ Write \/ Shop

GateSpec == GateInit /\ [][GateNext]_gateVars
-----------------------------------------------------------------------------
\* The configurations a purchase may have seen a part of.
Window == since..Len(configs)

MayForward == \E n \in Window : Lets(configs[n], vehicle)
MayDeny == \E n \in Window, m \in Window :
              /\ n <= m
              /\ configs[n].enforce
              /\ vehicle \notin configs[m].allowed

(* Whatever was written, mixed or left unfinished meanwhile, a purchase the *)
(* trampoline lets through is one that a configuration asked for at the     *)
(* time lets through ("the permit set always reflects exactly               *)
(* allowed_indices"); and one it denies is denied only if the gate was      *)
(* asked to enforce and, then or later, not to allow the vehicle: arming    *)
(* the gate never enforces the table of before, as apply() writes the flag  *)
(* last.  "Vanilla-identical": an installation nobody interferes with       *)
(* patches the site when the trampoline is there and would forward every    *)
(* purchase.                                                               *)
PatchesSite == denySite = "UISet" /\ denySite' = "trampoline"
PurchasesFollowConfigs ==
    [][/\ Forward => MayForward
       /\ Deny /\ ~doubt => MayDeny
       /\ PatchesSite /\ job["tool"].alone => code /\ ~enforce /\ permit = Vehicles]_gateVars
=============================================================================
