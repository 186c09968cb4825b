----------------------------- MODULE MCRxRing -----------------------------
(* An instance of RxRing for TLC. *)
EXTENDS RxRingStream

MCSetups == {<<"legacy", "intx">>, <<"ps", "msi">>, <<"jumbo", "msix">>}
=============================================================================
