------------------------------ MODULE Methods -------------------------------
(***************************************************************************)
(* The methods of Client that make one request each.  A method is reduced  *)
(* to what newRequest and do() make of it: whether the request has a body, *)
(* its media type ("" for the default), and whether the response is        *)
(* decoded (result # nil).                                                 *)
(***************************************************************************)

Method(name, body, media, result) ==
  [name |-> name, body |-> body, media |-> media, result |-> result]

\* No body, and a result.
Fetch(name) == Method(name, FALSE, "", TRUE)

\* A body of a vendor media type, and a result.
Operation(name, media) == Method(name, TRUE, media, TRUE)

GetKey             == Fetch("GetKey")
GetKeyAsyncProcess == Fetch("GetKeyAsyncProcess")
GetVSlotAsyncProcess == Fetch("GetVSlotAsyncProcess")

DeleteKeyAsyncProcess   == Method("DeleteKeyAsyncProcess", FALSE, "", FALSE)
DeleteVSlotAsyncProcess == Method("DeleteVSlotAsyncProcess", FALSE, "", FALSE)

CreateKey       == Operation("CreateKey", "kms.key")
ExportKey       == Operation("ExportKey", "kms.key")
EditKey         == Operation("EditKey", "kms.key")
ImportKey       == Operation("ImportKey", "kms.key")
ImportKeyValues == Operation("ImportKeyValues", "kms.key")
AttachKey       == Operation("AttachKey", "kms.key")
DeriveKey       == Operation("DeriveKey", "kms.derive")
TransportKey    == Operation("TransportKey", "kms.transport")

DeleteKey      == Method("DeleteKey", TRUE, "", FALSE)
SetKeyState    == Method("SetKeyState", TRUE, "", FALSE)
CreateKeyAlias == Fetch("CreateKeyAlias")
MoveKeyAlias   == Operation("MoveKeyAlias", "")

\* Crypto encrypts and decrypts with one media type, and refuses any other
\* operation before it makes a request.
Crypto      == Operation("Crypto", "kms.encrypt")
CryptoOther == Operation("CryptoOther", "kms.encrypt")

Supported(m) == m # CryptoOther

Sign          == Operation("Sign", "kms.sign")
Verify        == Operation("Verify", "kms.sign")
SignSOD       == Operation("SignSOD", "kms.sign-sod")
SignTimestamp == Operation("SignTimestamp", "kms.sign-timestamp")
SignPDF       == Operation("SignPDF", "kms.sign+pdf")

certificateOperation(name) == Operation(name, "kms.certificate")

GenerateCertificate == certificateOperation("GenerateCertificate")
GenerateCSR         == certificateOperation("GenerateCSR")
UpdateCertificate   == certificateOperation("UpdateCertificate")

\* The methods whose effect the server may report with a 260.
Imports == {ImportKey, ImportKeyValues, AttachKey}

AllMethods == Imports \cup
  {GetKey, GetKeyAsyncProcess, GetVSlotAsyncProcess, DeleteKeyAsyncProcess,
   DeleteVSlotAsyncProcess, CreateKey, ExportKey, EditKey, DeriveKey, TransportKey,
   DeleteKey, SetKeyState, CreateKeyAlias, MoveKeyAlias, Crypto, CryptoOther, Sign, Verify,
   SignSOD, SignTimestamp, SignPDF, GenerateCertificate, GenerateCSR, UpdateCertificate}
=============================================================================
