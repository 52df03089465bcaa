---------------------------- MODULE MCRunOnce ----------------------------
(***************************************************************************)
(* The programs of RunOnce: one that moves its marker into place last, one *)
(* that also refuses a directory in use, one whose marker comes first, and *)
(* the script of services/kubernetes.nix: sa.key, sa.pub, ca.key, ca.crt   *)
(* (the marker), admin.key, admin.csr, ca.srl, admin.crt, and, on every    *)
(* start, kubeconfig.  That initdb makes its marker last is supposed: the  *)
(* repository does not say.                                                *)
(***************************************************************************)
EXTENDS RunOnce

Program(files, work, marker, renamed, refuses) ==
    [files |-> files, work |-> work, marker |-> marker, renamed |-> renamed, refuses |-> refuses]

Careful    == Program(4, 3, 3, {3}, FALSE)
Initdb     == Program(3, 3, 3, {3}, TRUE)
Early      == Program(3, 3, 1, {}, TRUE)
Kubernetes == Program(9, 8, 4, {}, FALSE)

MCPrograms     == {Careful, Initdb, Early, Kubernetes}
KubernetesOnly == {Kubernetes}
=============================================================================
