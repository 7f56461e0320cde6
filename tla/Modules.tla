------------------------------ MODULE Modules ------------------------------
(***************************************************************************)
(* Loadable kernel modules (lib/libc/elf/modl.c): the module table, its    *)
(* reference counts, load_kernel_module and unload_kernel_module.  What    *)
(* the ELF file of a module says is an image: its name, the names it       *)
(* depends on, in order, the undefined symbols its relocations mention, in *)
(* order, and whether its module_init succeeds.  A module exports one      *)
(* symbol, called like the module.  A load runs to its end in the caller.  *)
(***************************************************************************)
EXTENDS Integers, Sequences, FiniteSets, SequencesExt

CONSTANTS
  Names,         \* module names, and the symbols they export
  MAX_MODULES,
  MAX_MOD_DEPS,
  MaxImports,    \* relocations against undefined symbols
  MaxFailures    \* loads that fail

ASSUME ModulesAssumption ==
  {MAX_MODULES, MAX_MOD_DEPS, MaxImports, MaxFailures} \subseteq Nat

VARIABLES
  modules,     \* slots 1..mod_count used so far
  unbalanced,  \* history: a failed load dropped a reference it had not taken
  failures     \* loads that failed so far

modVars == <<modules, unbalanced, failures>>

Images ==
  [name : Names, depends : BoundedSeq(Names, MAX_MOD_DEPS),
   imports : BoundedSeq(Names, MaxImports), init_ok : BOOLEAN]

ModInit ==
  /\ modules = <<>>
  /\ unbalanced = FALSE
  /\ failures = 0

(***************************************************************************)
(* The helpers on the table ms.                                            *)
(***************************************************************************)
FirstOf(S) == IF S = {} THEN 0 ELSE CHOOSE i \in S : \A j \in S : i <= j

mod_find(ms, name) ==
  FirstOf({i \in DOMAIN ms : ms[i].state # "UNLOADED" /\ ms[i].name = name})

mod_get(ms, i) == [ms EXCEPT ![i].refcount = @ + 1]
mod_put(ms, i) == [ms EXCEPT ![i].refcount = @ - 1]

\* `uses` is history: the slots whose reference this module took.
Takes(ms, mod, i) == [mod_get(ms, i) EXCEPT ![mod].uses = Append(@, i)]

\* A load in progress: the table, the slot being filled, and whether it still
\* goes well.
Load(ms, mod, ok) == [ms |-> ms, mod |-> mod, ok |-> ok]

\* resolve_dependencies stops at the first name that is not a LIVE module.
resolve_dependencies(ld) ==
  FoldLeft(LAMBDA l, name :
             LET i == mod_find(l.ms, name)
             IN IF l.ok /\ i # 0 /\ l.ms[i].state = "LIVE"
                THEN Load(Takes(l.ms, l.mod, i), l.mod, TRUE)
                ELSE Load(l.ms, l.mod, FALSE),
           ld, ld.ms[ld.mod].depends)

\* mod_resolve_symbol: the first other LIVE module that exports the name.
Exporter(ms, mod, name) ==
  FirstOf({i \in DOMAIN ms \ {mod} : ms[i].state = "LIVE" /\ ms[i].name = name})

\* Mutant: the exporter's reference is not taken.
process_relocations_untaken(ld, imports) ==
  FoldLeft(LAMBDA l, name :
             LET i == Exporter(l.ms, l.mod, name)
             IN IF l.ok /\ i # 0
                THEN Load([l.ms EXCEPT ![l.mod].uses = Append(@, i)], l.mod, TRUE)
                ELSE Load(l.ms, l.mod, FALSE),
           ld, imports)

process_relocations(ld, imports) ==
  FoldLeft(LAMBDA l, name :
             LET i == Exporter(l.ms, l.mod, name)
             IN IF l.ok /\ i # 0
                THEN Load(Takes(l.ms, l.mod, i), l.mod, TRUE)
                ELSE Load(l.ms, l.mod, FALSE),
           ld, imports)

\* One mod_put for every dependency that is (still) found by name.
PutDepends(ms, mod) ==
  FoldLeft(LAMBDA t, name :
             IF mod_find(t, name) = 0 THEN t ELSE mod_put(t, mod_find(t, name)),
           ms, ms[mod].depends)

(***************************************************************************)
(* load_kernel_module.  On failure the dependencies are put back, taken or *)
(* not, references taken for symbols are kept, and the slot is given back. *)
(***************************************************************************)
Entry(image) ==
  [name |-> image.name, state |-> "LOADING", refcount |-> 1,
   depends |-> image.depends, uses |-> <<>>]

Attempt(image) ==
  LET ms == Append(modules, Entry(image))
      ld == process_relocations(resolve_dependencies(Load(ms, Len(ms), TRUE)), image.imports)
  IN [ld EXCEPT !.ok = @ /\ image.init_ok]

Failed(ld) == Front(PutDepends(ld.ms, ld.mod))

\* The references of other modules that PutDepends drops without ld holding them.
DropsUntaken(ld) ==
  \E i \in 1..(ld.mod - 1) :
    PutDepends(ld.ms, ld.mod)[i].refcount < modules[i].refcount

load_kernel_module ==
  /\ Len(modules) < MAX_MODULES
  /\ \E image \in Images :
       LET ld == Attempt(image)
       IN \/ /\ ld.ok
             /\ modules' = [ld.ms EXCEPT ![ld.mod].state = "LIVE"]
             /\ UNCHANGED <<unbalanced, failures>>
          \/ /\ ~ld.ok /\ failures < MaxFailures
             /\ modules' = Failed(ld)
             /\ failures' = failures + 1
             /\ unbalanced' = (unbalanced \/ DropsUntaken(ld))

(***************************************************************************)
(* unload_kernel_module: mod_count is not decremented, so the slot stays.  *)
(***************************************************************************)
InUse(i) == modules[i].refcount > 1

unload_kernel_module ==
  /\ \E i \in DOMAIN modules :
       /\ modules[i].state = "LIVE"
       /\ ~InUse(i)
       /\ modules' = [PutDepends([modules EXCEPT ![i].state = "GOING"], i)
                        EXCEPT ![i].state = "UNLOADED", ![i].refcount = 0]
  /\ UNCHANGED <<unbalanced, failures>>

ModNext == load_kernel_module \/ unload_kernel_module

ModSpec == ModInit /\ [][ModNext]_modVars

(***************************************************************************)
(* Properties.                                                             *)
(***************************************************************************)
Users(i) ==
  FoldLeft(LAMBDA n, m : IF m.state = "LIVE"
                         THEN n + Cardinality({k \in DOMAIN m.uses : m.uses[k] = i})
                         ELSE n,
           0, modules)

\* What the check "refcount=%d, cannot unload" is there for: no module that a
\* live module depends on, or has been relocated against, is unloaded.
NoDanglingUse ==
  \A i \in DOMAIN modules : modules[i].state = "LIVE" =>
    \A k \in DOMAIN modules[i].uses : modules[modules[i].uses[k]].state = "LIVE"

\* Until a failed load drops a reference it had not taken, the count of a live
\* module covers itself and every use other live modules make of it, and so
\* none of them is left dangling.
CountsCoverUses ==
  ~unbalanced =>
    /\ NoDanglingUse
    /\ \A i \in DOMAIN modules : modules[i].state = "LIVE" =>
         modules[i].refcount >= 1 + Users(i)

=============================================================================
