------------------------------ MODULE Profile ------------------------------
(***************************************************************************)
(* The deck's profile: the directories of the Ulanzi application that      *)
(* Ensure removes and creates, at the start and again at every reconnect,  *)
(* the action ids that are read from them to address the keys with, and the *)
(* application, which loads a profile when it starts and tells the ids of  *)
(* the keys it shows.                                                      *)
(*                                                                         *)
(* Every page of a profile gives every key an action id of its own, so a   *)
(* profile and a page name the ids.  The process may end between any two   *)
(* steps, and in the middle of a removal; a write or a removal may fail,   *)
(* which the code ignores, except for the profile's own directory.  The    *)
(* application is external.                                                *)
(***************************************************************************)
EXTENDS Naturals, FiniteSets

CONSTANTS
    ActionKeys,   \* keys with an action
    NPages,       \* pages of a profile (4)
    MaxProfiles,  \* bound: profiles ever created
    MaxFaults     \* bound: failed writes and removals, and crashes

ASSUME ProfileAssumption ==
    NPages \in Nat \ {0} /\ MaxProfiles \in Nat /\ MaxFaults \in Nat

Pages == 1 .. NPages
None == <<>>

VARIABLES
    disk,        \* by directory: [named, pages, first, hurt]
    setting,     \* whether setting.json names our profile
    step,        \* the process: "down", a step of Ensure, "reading", "waiting"
    starting,    \* whether this Ensure is the one at the start
    listed,      \* RemoveOldProfiles: directories still to look at
    dir,         \* m.profileDir
    page,        \* the page to write next
    keyActions,  \* the client's action id per key
    link,        \* the client's connection to the application
    app,         \* whether the application runs
    loaded,      \* the profile and page it shows, None for another
    told,        \* history: the id the application told the client of a key
    stuck,       \* history: profiles whose removal failed in this Ensure
    created, faults   \* counters for the bounds

ensureVars == <<starting, listed, dir, page, stuck>>
appVars == <<app, loaded>>
keyVars == <<keyActions, told>>
counters == <<created, faults>>
profileVars == <<disk, setting, step, ensureVars, link, appVars, keyVars, counters>>

Nobody == [k \in ActionKeys |-> None]

ProfileInit ==
    /\ disk = [p \in {} |-> None]
    /\ setting = FALSE
    /\ step = "down" /\ starting = TRUE
    /\ listed = {} /\ dir = 0 /\ page = 1 /\ stuck = {}
    /\ keyActions = Nobody /\ told = Nobody
    /\ link = FALSE
    /\ app = FALSE /\ loaded = None
    /\ created = 0 /\ faults = 0

Named == {p \in DOMAIN disk : disk[p].named}
Fault == faults < MaxFaults /\ faults' = faults + 1

----------------------------------------------------------------------------
(* Ensure: RemoveOldProfiles, then CreateProfile. *)

EnsureBegins ==
    /\ step' = "remove"
    /\ listed' = DOMAIN disk
    /\ stuck' = {}
    /\ dir' = 0

\* main: a Connect that fails does not keep the process from going on.
Start ==
    /\ step = "down"
    /\ link' \in {FALSE, app}
    /\ starting' = TRUE
    /\ EnsureBegins
    /\ UNCHANGED <<disk, setting, page, appVars, keyVars, counters>>

\* messagePump after ReadPump has returned.
Reconnect ==
    /\ step = "waiting"
    /\ app
    /\ link' = TRUE
    /\ starting' = FALSE
    /\ EnsureBegins
    /\ UNCHANGED <<disk, setting, page, appVars, keyVars, counters>>

FirstOnly(p) == listed' = {}                             \* mutant
\* One directory is looked at after the other, to the last.
LookedAt(p) == listed' = listed \ {p}

\* Directories that do not say they are ours are left alone, those of a
\* CreateProfile that never came to its manifest too.
Removed(p) ==
    IF disk[p].named
    THEN disk' = [q \in DOMAIN disk \ {p} |-> disk[q]]
    ELSE disk' = disk

RemoveOld(p) ==
    /\ step = "remove" /\ p \in listed
    /\ IF disk[p].named THEN LookedAt(p) ELSE listed' = listed \ {p}
    /\ Removed(p)
    /\ UNCHANGED <<setting, step, starting, dir, page, stuck, link, appVars, keyVars, counters>>

\* What is left of a directory half removed.
Half(d, named, pages) ==
    [d EXCEPT !.named = named, !.pages = d.pages \cap pages, !.hurt = TRUE]

\* os.RemoveAll gives up half way; the error is ignored.
RemoveFails(p, pages) ==
    /\ step = "remove" /\ p \in listed /\ disk[p].named
    /\ Fault
    /\ LookedAt(p)
    /\ disk' = [disk EXCEPT ![p] = Half(disk[p], TRUE, pages)]
    /\ stuck' = stuck \cup {p}
    /\ UNCHANGED <<setting, step, starting, dir, page, link, appVars, keyVars, created>>

\* The name comes last in the order of the removal, or does not.
CrashInRemove(p, named, pages) ==
    /\ step = "remove" /\ p \in listed /\ disk[p].named
    /\ Fault
    /\ disk' = [disk EXCEPT ![p] = Half(disk[p], named, pages)]
    /\ step' = "down" /\ link' = FALSE
    /\ keyActions' = Nobody /\ told' = Nobody
    /\ listed' = {} /\ dir' = 0
    /\ UNCHANGED <<setting, starting, page, stuck, appVars, created>>

\* The new directory; without it Ensure returns no profile.
MakeDir ==
    /\ step = "remove" /\ listed = {}
    /\ \/ /\ created < MaxProfiles
          /\ created' = created + 1
          /\ dir' = created'
          /\ \E first \in Pages :
                disk' = [p \in DOMAIN disk \cup {dir'} |->
                            IF p = dir' THEN [named |-> FALSE, pages |-> {}, first |-> first,
                                              hurt |-> FALSE]
                            ELSE disk[p]]
          /\ page' = 1
          /\ step' = "create"
          /\ UNCHANGED faults
       \/ /\ Fault
          /\ step' = "reading"
          /\ UNCHANGED <<disk, dir, page, created>>
    /\ UNCHANGED <<setting, starting, listed, stuck, link, appVars, keyVars>>

\* A page's manifest; a write that fails is ignored.
WritePage ==
    /\ step = "create" /\ page <= NPages
    /\ \/ disk' = [disk EXCEPT ![dir].pages = @ \cup {page}] /\ UNCHANGED faults
       \/ Fault /\ disk' = [disk EXCEPT ![dir].hurt = TRUE]
    /\ page' = page + 1
    /\ UNCHANGED <<setting, step, starting, listed, dir, stuck, link, appVars, keyVars, created>>

ManifestFirst == page >= 1                               \* mutant
PagesWritten == page > NPages

\* The profile's manifest, which gives it its name and page 1 as the current
\* one; then setting.json, at the start only.
WriteManifest ==
    /\ step = "create" /\ PagesWritten
    /\ \/ disk' = [disk EXCEPT ![dir].named = TRUE] /\ UNCHANGED faults
       \/ Fault /\ disk' = [disk EXCEPT ![dir].hurt = TRUE]
    /\ step' = IF starting THEN "activate" ELSE "seed"
    /\ UNCHANGED <<setting, ensureVars, link, appVars, keyVars, created>>

ActivateProfile ==
    /\ step = "activate"
    /\ \/ setting' = TRUE /\ UNCHANGED faults
       \/ Fault /\ UNCHANGED setting
    /\ step' = "seed"
    /\ UNCHANGED <<disk, ensureVars, link, appVars, keyVars, created>>

----------------------------------------------------------------------------
(* The ids of the keys. *)

\* GetKeyActionMap: of the page whose directory comes first, which need not
\* be page 1.
KeyActionMap ==
    IF disk[dir].first \in disk[dir].pages THEN <<dir, disk[dir].first>> ELSE None

SeedAll ==                                               \* mutant
    IF KeyActionMap = None THEN keyActions ELSE [k \in ActionKeys |-> KeyActionMap]
\* SeedKeyActions: what the client has stays.
Seeded == [k \in ActionKeys |-> IF keyActions[k] = None THEN KeyActionMap ELSE keyActions[k]]

SeedKeyActions ==
    /\ step = "seed"
    /\ keyActions' = Seeded
    /\ step' = "reading"
    /\ UNCHANGED <<disk, setting, ensureVars, link, appVars, told, counters>>

\* "add" and "clear".
HandleAdd(k) ==
    /\ step = "reading" /\ link /\ loaded # None
    /\ keyActions' = [keyActions EXCEPT ![k] = loaded]
    /\ told' = [told EXCEPT ![k] = loaded]
    /\ UNCHANGED <<disk, setting, step, ensureVars, link, appVars, counters>>

HandleClear(k) ==
    /\ step = "reading" /\ link
    /\ keyActions' = [keyActions EXCEPT ![k] = None]
    /\ told' = [told EXCEPT ![k] = None]
    /\ UNCHANGED <<disk, setting, step, ensureVars, link, appVars, counters>>

ReadFails ==
    /\ step = "reading" /\ ~link
    /\ step' = "waiting"
    /\ UNCHANGED <<disk, setting, ensureVars, link, appVars, keyVars, counters>>

\* The process ends, by a signal or otherwise.
Crash ==
    /\ step # "down"
    /\ Fault
    /\ step' = "down" /\ link' = FALSE
    /\ keyActions' = Nobody /\ told' = Nobody
    /\ listed' = {} /\ dir' = 0
    /\ UNCHANGED <<disk, setting, starting, page, stuck, appVars, created>>

----------------------------------------------------------------------------
(* The application. *)

AppStart ==
    /\ ~app
    /\ app' = TRUE
    /\ LET whole == {p \in Named : 1 \in disk[p].pages}
       IN  loaded' \in IF setting /\ whole # {} THEN {<<p, 1>> : p \in whole} ELSE {None}
    /\ UNCHANGED <<disk, setting, step, ensureVars, link, keyVars, counters>>

AppStop ==
    /\ app
    /\ app' = FALSE /\ loaded' = None
    /\ link' = FALSE
    /\ told' = Nobody
    /\ UNCHANGED <<disk, setting, step, ensureVars, keyActions, counters>>

LinkDrop ==
    /\ link
    /\ link' = FALSE
    /\ UNCHANGED <<disk, setting, step, ensureVars, appVars, keyVars, counters>>

----------------------------------------------------------------------------

Ensure ==
    \/ \E p \in DOMAIN disk : RemoveOld(p)
    \/ \E p \in DOMAIN disk, pages \in SUBSET Pages :
          RemoveFails(p, pages) \/ \E named \in BOOLEAN : CrashInRemove(p, named, pages)
    \/ MakeDir \/ WritePage \/ WriteManifest \/ ActivateProfile

Process ==
    \/ Start \/ Reconnect \/ Ensure \/ SeedKeyActions \/ ReadFails \/ Crash
    \/ \E k \in ActionKeys : HandleAdd(k) \/ HandleClear(k)

ProfileNext == Process \/ AppStart \/ AppStop \/ LinkDrop

ProfileSpec == ProfileInit /\ [][ProfileNext]_profileVars

----------------------------------------------------------------------------
(* Properties. *)

\* Once an Ensure has removed what it removes there is one profile of ours at
\* most, besides those whose removal just failed: duplicates that an earlier
\* failure or the end of an earlier process left do not accumulate.
OneProfile ==
    step \in {"create", "activate", "seed"} => Named \subseteq {dir} \cup stuck

\* A directory that says it is ours has all its pages, whenever the process
\* ended, unless a write or a removal went wrong: the application never loads
\* half a profile.
NamedIsWhole ==
    \A p \in Named : disk[p].hurt \/ disk[p].pages = Pages

\* What the application said of a key counts: a reconnect, which makes a new
\* profile with new ids that the running application does not know, does not
\* take the id away under which the application shows the key.
ToldIsKept ==
    \A k \in ActionKeys : told[k] # None => keyActions[k] = told[k]
=============================================================================
