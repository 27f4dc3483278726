----------------------------- MODULE RpcServer -----------------------------
(***************************************************************************)
(* rpc/server.go: OnStart binds HTTP, HTTPS, WS and WSS in this order, a   *)
(* goroutine serves each, and OnStop closes them.  Listeners, TLS and the  *)
(* requests are go-ethereum's and tendermint's: binding may fail, and the  *)
(* goroutine of a TLS endpoint ends at once without a certificate.         *)
(***************************************************************************)
EXTENDS Sequences, Integers

CONSTANTS
  Disabled,  \* the TLS endpoints whose address is "off"
  HasCert    \* do nodeCfg/cert.pem and nodeCfg/key.pem exist?

Endpoints == <<"http", "https", "ws", "wss">>

Tls == {"https", "wss"}

ASSUME EndpointAssumption == Disabled \subseteq Tls /\ HasCert \in BOOLEAN

VARIABLES
  step,   \* index of the endpoint OnStart has come to
  bound,  \* endpoints whose port is taken
  served  \* endpoints whose goroutine accepts connections

ServerInit == step = 1 /\ bound = {} /\ served = {}

\* Mutant: the error of Listen is dropped.
ListenIgnoresError ==
  LET e == Endpoints[step]
  IN  /\ step <= Len(Endpoints)
      /\ step' = step + 1
      /\ \/ UNCHANGED <<bound, served>>
         \/ /\ e \notin Disabled
            /\ bound' = bound \cup {e}
            /\ served' = IF e \in Tls /\ ~HasCert THEN served ELSE served \cup {e}

\* Listen on the next endpoint, and the goroutine that serves it.
Listen ==
  LET e == Endpoints[step]
  IN  /\ step <= Len(Endpoints)
      /\ step' = step + 1
      /\ IF e \in Disabled
           THEN UNCHANGED <<bound, served>>
           ELSE /\ bound' = bound \cup {e}
                /\ served' = IF e \in Tls /\ ~HasCert THEN served ELSE served \cup {e}

startHTTPAndHTTPS == Endpoints[step] \in {"http", "https"} /\ Listen

startWSAndWSS == Endpoints[step] \in {"ws", "wss"} /\ Listen

OnStart == startHTTPAndHTTPS \/ startWSAndWSS

\* The error ends OnStart; what was bound before stays so.
ListenFails ==
  /\ step <= Len(Endpoints)
  /\ Endpoints[step] \notin Disabled

OnStop ==
  /\ bound' = {} /\ served' = {}
  /\ UNCHANGED step

\* The process is gone, and its ports with it.
ServerGone == step' = 1 /\ bound' = {} /\ served' = {}

=============================================================================
