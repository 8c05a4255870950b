---------------------------- MODULE ClientConfig ----------------------------
(***************************************************************************)
(* What becomes of the configuration a script passes to new Client: the    *)
(* defaults and refusals of newClient, and what each backend then makes of *)
(* the relay options and the target when it binds and dials.  A target is  *)
(* known by its form; the empty string is what a script leaves out.        *)
(***************************************************************************)
CONSTANTS
  Registered,  \* the names of the backends linked into this k6 binary
  RelayURLs    \* the relay URLs that parse

Targets == {"", "endpoint ticket", "blobs ticket", "no ticket"}

DefaultALPN == "perflab/0"

BlobsALPN == "/iroh-bytes/4"

Default(value, default) == IF value = "" THEN default ELSE value

(* RegisterBackend panics on a name taken, so that names are distinct, and
   lookupBackend finds what was registered. *)
lookupBackend(name) == name \in Registered

(* decodeTarget tries both forms of ticket. *)
Decodes(target) == target \in {"endpoint ticket", "blobs ticket"}

-----------------------------------------------------------------------------
(* A blobs ticket selects the blobs ALPN where the ALPN is the default one,
   even if the script has named it. *)
ALPN(raw) ==
  IF raw.target = "blobs ticket" /\ Default(raw.alpn, DefaultALPN) = DefaultALPN
  THEN BlobsALPN ELSE Default(raw.alpn, DefaultALPN)

(* The configuration with its defaults ... *)
newClient(raw) ==
  [target |-> raw.target,
   alpn |-> ALPN(raw),
   scope |-> Default(raw.scope, "vu"),
   peer |-> Default(raw.peer, "go"),
   impl |-> Default(raw.impl, "go"),
   relay |-> Default(raw.relay, "default"),
   relayURL |-> raw.relayURL]

(* ... is refused, by an exception, unless: *)
Accepted(raw) ==
  LET c == newClient(raw) IN
    /\ c.target # ""
    /\ c.scope \in {"vu", "shared"}
    /\ lookupBackend(c.impl)
    /\ c.relay \in {"default", "disabled", "forced"}
    /\ c.relay = "forced" => c.relayURL # ""
    /\ Decodes(c.target)

optsKey(c) == <<c.relay, c.relayURL>>

-----------------------------------------------------------------------------
(* The transports an endpoint may send on, {} where Bind fails: go-iroh ... *)
GoTransports(c) ==
  CASE c.relay \in {"", "default", "disabled"} -> {"direct"}
    [] c.relay = "forced" /\ c.relayURL \in RelayURLs -> {"relay"}
    [] OTHER -> {}

(* ... and the bindings, which cannot turn direct transports off. *)
FfiTransports(c) ==
  IF c.relay \in {"", "default", "disabled"} THEN {"direct"} ELSE {}

Transports(c) == IF c.impl = "ffi" THEN FfiTransports(c) ELSE GoTransports(c)

Blobs(c) == c.impl = "go"

(* Connect: go-iroh decodes the target as newClient does, the bindings and
   their fallback know endpoint tickets only. *)
Dialable(c) == IF c.impl = "ffi" THEN c.target = "endpoint ticket"
               ELSE Decodes(c.target)

(* FetchBlob refuses before it dials. *)
CanFetch(c) == c.target = "blobs ticket" /\ Blobs(c)
=============================================================================
