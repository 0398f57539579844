---------------------------- MODULE MCTLSSecrets ----------------------------
(* Finite instances of TLSSecrets.                                            *)
EXTENDS TLSSecrets

Set(internal, client, by, proxy) == [cluster |-> internal, client |-> client, by |-> by, proxy |-> proxy]

Plain == Set(FALSE, FALSE, "provider", FALSE)
PlainProxy == Set(FALSE, FALSE, "provider", TRUE)
Client == Set(FALSE, TRUE, "provider", FALSE)
ClientProxy == Set(FALSE, TRUE, "provider", TRUE)
Internal == Set(TRUE, FALSE, "provider", FALSE)
Both == Set(TRUE, TRUE, "provider", FALSE)
Managed == Set(FALSE, TRUE, "cert-manager", FALSE)
ManagedInternal == Set(TRUE, FALSE, "cert-manager", FALSE)

Once(asked) == [settings |-> asked, next |-> asked, instances |-> 1, losesCA |-> FALSE]
Twice(first, second) == [settings |-> first, next |-> second, instances |-> 2, losesCA |-> FALSE]

(* Among the remains of an Instance, with cert-manager too; TiProxy toggled and    *)
(* the CA lost; the source changed, from a Cluster with TLS and from those without; *)
(* mTLS asked for and not.                                                   *)
Again == Twice({Both}, {Both})
AfterManaged == Twice({Managed}, {Client})
Lost == [Once({Client, ClientProxy}) EXCEPT !.losesCA = TRUE]
OtherSource == Once({Client, Managed})
LateSource == Once({PlainProxy, Managed})
LateInternal == Once({PlainProxy, ManagedInternal})
Toggled == Once({Internal, Plain})

MCScenarios == {Again, AfterManaged, Lost, OtherSource, LateSource, LateInternal, Toggled}
=============================================================================
