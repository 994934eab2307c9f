----------------------------- MODULE HookTable -----------------------------
(***************************************************************************)
(* Hook registration (registration.go, handlers.go): the record of claimed *)
(* hooks and the installed handlers, two tables that state one fact; the   *)
(* supported_hooks bitmap and what the host and CheckManifest make of it   *)
(* (pb/v1/hooks.go, sdktest.go).  A bitmap is the set of its bits.         *)
(***************************************************************************)
EXTENDS Naturals, FiniteSets, Sequences, SequencesExt

CONSTANTS
  Hook,        \* the hooks plugins register for, by their number in the enum
  Handler,     \* handler functions
  NilHandler,  \* the nil function
  Manifest     \* manifests: the hooks plugin.json declares, in its order

AssignedHooks == 1 .. 5
MaxHookBit == 31

ASSUME HookAssumption == Hook \subseteq AssignedHooks
ASSUME HandlerAssumption == NilHandler \notin Handler
ASSUME ManifestAssumption == \A declared \in Manifest : declared \in Seq(Nat)

VARIABLES
  registered,  \* the map registered: claimed hooks
  handler      \* beforeRequestHandler .. tickHandler

tables == <<registered, handler>>

TablesInit ==
  /\ registered = {}
  /\ handler = [h \in Hook |-> NilHandler]

Installed == {h \in Hook : handler[h] # NilHandler}

\* claimHook panics on a nil handler, before it claims anything, and on a
\* second claim.
ClaimPanics(h, f) == f = NilHandler \/ h \in registered

\* OnBeforeRequest .. OnTick: claim, then install; a panic leaves both tables.
Register(h, f) ==
  IF ClaimPanics(h, f)
  THEN UNCHANGED tables
  ELSE /\ registered' = registered \cup {h}
       /\ handler' = [handler EXCEPT ![h] = f]

\* Slip: only the bookkeeping is cleared.
ForgetClaims == registered' = {} /\ UNCHANGED handler

ResetRegistrations ==
  /\ registered' = {}
  /\ handler' = [h \in Hook |-> NilHandler]

-----------------------------------------------------------------------------
Bit(n) == IF n \in 1 .. MaxHookBit /\ n \in AssignedHooks THEN {n} ELSE {}
BitmapOf(hooks) == UNION {Bit(n) : n \in hooks}
KnownHooksMask == BitmapOf(AssignedHooks)
RegisteredHookBitmap == BitmapOf(Installed)

\* ExpectedBitmap refuses an empty list, numbers that are no hook and repeats.
Declarable(declared) ==
  /\ declared # <<>>
  /\ \A i \in DOMAIN declared : Bit(declared[i]) # {}
  /\ \A i, j \in DOMAIN declared : i # j => declared[i] # declared[j]
ExpectedBitmap(declared) == BitmapOf(ToSet(declared))

\* What the host asks of a module at load.
ValidateManifestHooks(bitmap, declared) ==
  /\ Declarable(declared)
  /\ bitmap \subseteq KnownHooksMask
  /\ ExpectedBitmap(declared) = bitmap

\* What a plugin's test asks: the declared names and the registered ones,
\* both as sets.
CheckManifest(declared) == ToSet(declared) = Installed
=============================================================================
