---------------------------- MODULE MCScanService ----------------------------
(* ScanService as it is: MCScanService.cfg gives every constant its value.   *)
EXTENDS ScanService
=============================================================================
