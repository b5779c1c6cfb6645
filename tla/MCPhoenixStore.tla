--------------------------- MODULE MCPhoenixStore ---------------------------
(***************************************************************************)
(* Small instances of PhoenixStore for TLC: the sets of points at which a  *)
(* run lets the page crash or an await reject, and the symmetry of the     *)
(* mutations, which differ in nothing but their identity.                  *)
(***************************************************************************)
EXTENDS PhoenixStore, TLC

AllPoints == Points \cup {"uncommitted"}

\* Every await may reject, but a reset removes what it is told to.
AllButReset == AllPoints \ {"reset"}

\* The page or the Phoenix worker alone, anywhere.
AnyCrash == AllPoints \cup {"worker"}

\* The same but for the page between a mutation's append and its commit.
OutsideAppendWindow == AnyCrash \ {"uncommitted"}

\* The rejections after which the service's memory still agrees with the disk.
BenignThrows ==
    {"append", "close", "backup", "primary", "truncate", "apply", "import", "loadDerived",
     "clearDerived", "writeContent", "exportDerived", "writeDerived", "prune"}

MutationSymmetry == Permutations(Mutations)

=============================================================================
