----------------------------- MODULE EntityTraits -----------------------------
(***************************************************************************)
(* Entity identifiers (entity/entity.hpp).  The program packs an entity    *)
(* part and a version part in one integer; here an identifier is the       *)
(* record of its two parts, so that masking with a power of two minus one  *)
(* is the remainder modulo that power.                                     *)
(***************************************************************************)
EXTENDS Naturals

CONSTANTS
  EntityMask,   (* entt_traits::entity_mask, also the null entity part      *)
  VersionMask   (* entt_traits::version_mask, also the tombstone version    *)

ASSUME EntityMaskAssumption == EntityMask \in Nat \ {0}

(* The traits also allow an empty version part, which no built-in          *)
(* identifier uses and the in-place deletion policy refuses.               *)
ASSUME VersionMaskAssumption == VersionMask \in Nat \ {0}

EntityParts  == 0 .. EntityMask
VersionParts == 0 .. VersionMask
Identifiers  == [entity : EntityParts, version : VersionParts]

(* construct: both parts are masked, so a position or a version that does  *)
(* not fit is truncated.                                                   *)
Construct(entity, version) ==
  [entity  |-> entity % (EntityMask + 1),
   version |-> version % (VersionMask + 1)]

(* combine: the entity part of the first argument (an entity or a position *)
(* in an array) with the version of the second.                            *)
Combine(entity, id) ==
  [entity |-> entity % (EntityMask + 1), version |-> id.version]

(* next: the successor version; the tombstone version is skipped and the   *)
(* result wraps around to zero.                                            *)
NextVersion(id) ==
  LET vers == id.version + 1
  IN  Construct(id.entity, vers + (IF vers = VersionMask THEN 1 ELSE 0))

Null == [entity |-> EntityMask, version |-> VersionMask]

(* Both comparisons look at one part only.                                 *)
IsNull(id)      == id.entity = EntityMask
IsTombstone(id) == id.version = VersionMask

(* What a caller may use as an element: neither null nor tombstone.        *)
ValidIdentifiers ==
  [entity : 0 .. EntityMask - 1, version : 0 .. VersionMask - 1]
===============================================================================
