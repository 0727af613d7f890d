---------------------------- MODULE MCTransfert ----------------------------
(* Instance of Transfert for TLC: two connexions, of one client or of two. *)
EXTENDS Transfert
ConstClients == {"a", "b"}
ConstTaille  == <<3, 1>>
S(p, q, c, d) == [programme |-> p, proprio |-> q, commande |-> <<c, d>>]
Un   == <<"a", "a">>
Deux == <<"a", "b">>
ConstScenarios ==
    {S("fork", Un, "UPLOAD", "UPLOAD"), S("fork", Un, "UPLOAD", "DOWNLOAD"),
     S("fork", Deux, "DOWNLOAD", "DOWNLOAD"), S("fork", Deux, "LIST", "UPLOAD"),
     S("fork", Deux, "LIST long", "LIST"), S("fork", Un, "DOWNLOAD absent", "UPLOAD"),
     S("fork", Deux, "fin", "DOWNLOAD"), S("nom", Deux, "LIST", "LIST"),
     S("thread", Un, "UPLOAD", "DOWNLOAD"), S("thread", Deux, "LIST", "UPLOAD"),
     S("thread", Deux, "fin", "DOWNLOAD")}
=============================================================================
