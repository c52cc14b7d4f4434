------------------------------ MODULE MCSaslLogin ------------------------------
(***************************************************************************)
(* Values of the constants of SaslLogin for TLC.                           *)
(***************************************************************************)
EXTENDS SaslLogin

GssapiOnly == {"GSSAPI"}
SaslFaults == {"init", "step"}
BothBuilds == {"gssapi", "sspi"}
SomeCalls == SspiCalls \cup
  {"import_name", "release_name", "acquire_cred", "init_sec_context", "inquire_cred",
   "display_name", "wrap", "release_buffer", "delete_sec_context"}
================================================================================
