-------------------------- MODULE AesEncryptorTool --------------------------
(***************************************************************************)
(* The foreign-function JSON shim (tools/aes_encryptor/main.go):           *)
(* GoEncryptChunk and GoDecryptChunk, exported to C, take a JSON request   *)
(* and return a JSON response with an optional {Code, Message} error       *)
(* envelope.  The tool carries its own copies of EncryptChunk and          *)
(* DecryptChunk (lines 42-87), identical to aes_encryption.go.             *)
(*                                                                         *)
(* A request is abstracted to whether json.Unmarshal accepts it and the    *)
(* decoded fields.  The response is "fatal" when log.Fatal ends the        *)
(* calling process, and "panic" when a panic escapes the exported          *)
(* function (the Go runtime aborts the process).  json.Marshal of the      *)
(* response types cannot fail, so its log.Fatal is unreachable.            *)
(***************************************************************************)
EXTENDS AeadCodec

\* The tool's EncryptChunk and DecryptChunk, copies of the encryptor's.
ToolEncryptChunk(data, key, nonce, randOk) == EncryptChunk(data, key, nonce, randOk)
ToolDecryptChunk(ct, nonce, key) == DecryptChunk(ct, nonce, key)

NoError == [code |-> 0, message |-> "none"]
ErrorOf(e) == IF e = "nil" THEN NoError ELSE [code |-> 1, message |-> e]

\* GoEncryptChunk(request): unmarshal EncryptChunkArgs {Data, Key} (or
\* log.Fatal), encrypt, and return CipherText and Nonce, with Error set
\* when the encryption failed.
GoEncryptChunk(req, nonce, randOk) ==
    IF ~req.json THEN [kind |-> "fatal"]
    ELSE LET r == ToolEncryptChunk(req.data, req.key, nonce, randOk)
         IN  [kind |-> "response", cipherText |-> r.ct, nonce |-> r.nonce,
              error |-> ErrorOf(r.err)]

\* Mutant of GoDecryptChunk: CipherText and Nonce passed in swapped order.
GoDecryptChunkSwapped(req) ==
    IF ~req.json THEN [kind |-> "fatal"]
    ELSE LET r == ToolDecryptChunk(req.nonce, req.cipherText, req.key)
         IN  IF r.err = "panic" THEN [kind |-> "panic"]
             ELSE [kind |-> "response", plainText |-> r.pt, error |-> ErrorOf(r.err)]

\* GoDecryptChunk(request): unmarshal DecryptChunkArgs {CipherText, Nonce,
\* Key} (or log.Fatal), decrypt, and return PlainText, with Error set when
\* the decryption failed.  A Nonce whose length is not 12 makes gcm.Open
\* panic before any error can be returned.
GoDecryptChunk(req) ==
    IF ~req.json THEN [kind |-> "fatal"]
    ELSE LET r == ToolDecryptChunk(req.cipherText, req.nonce, req.key)
         IN  IF r.err = "panic" THEN [kind |-> "panic"]
             ELSE [kind |-> "response", plainText |-> r.pt, error |-> ErrorOf(r.err)]

=============================================================================
