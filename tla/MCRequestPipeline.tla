------------------------- MODULE MCRequestPipeline -------------------------
(***************************************************************************)
(* A small instance of RequestPipeline: an upload whose content and whose  *)
(* query after a second '?' were altered, which the server does not see;   *)
(* two requests of an API client under the legacy protocol (a streamed     *)
(* download, with a multipart body that nobody signed and nobody parses,   *)
(* and a route the client may not call); and a JSON request whose body was *)
(* altered on the way.                                                     *)
(***************************************************************************)
EXTENDS RequestPipeline

CONSTANTS u1, i1, i2, d1, d2

MCKeyring == [k \in {"kid1"} |-> "ed1"]

Upload == Route({"ADMIN"}, TRUE, FALSE, TRUE)
Download == Route({"MEMBER"}, TRUE, TRUE, FALSE)
CreateVault == Route({"ADMIN"}, FALSE, FALSE, FALSE)

UploadByAdmin ==
    Request(u1, "a", 1, "2", "kid1", "ed1", <<"/documents", "vault=1", "&name=other">>,
            <<"/documents", "vault=1">>, TRUE, "multipart", FALSE, FALSE, TRUE, Upload)
DownloadByClient ==
    Request(u1, "b", -2, "1", "none", "hmac", <<"/documents/1/download">>,
            <<"/documents/1/download", "">>, TRUE, "multipart", FALSE, TRUE, TRUE, Download)
CreateByClient ==
    Request(u1, "d", -2, "1", "none", "hmac", <<"/vaults">>, <<"/vaults", "">>, TRUE,
            "parsed", TRUE, TRUE, TRUE, CreateVault)
AlteredCreate ==
    Request(u1, "c", 1, "2", "kid1", "ed1", <<"/vaults">>, <<"/vaults", "">>, TRUE,
            "parsed", FALSE, FALSE, TRUE, CreateVault)

MCRequests == {UploadByAdmin, DownloadByClient, CreateByClient, AlteredCreate}
MCSkew == [i \in Instances |-> IF i = i1 THEN 0 ELSE 1]
=============================================================================
