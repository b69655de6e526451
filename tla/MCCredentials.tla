--------------------------- MODULE MCCredentials ---------------------------
(***************************************************************************)
(* TLC instance of Credentials: two callers that ask twice, every provider *)
(* with every combination of the fields its constructor looks at, every    *)
(* environment of the chain.                                               *)
(***************************************************************************)
EXTENDS Credentials, TLC

AWSFields == {"AWSAccessKeyID", "AWSSecretAccessKey", "ProfileName", "RoleARN"}
PrincipalFields == {"TenantID", "ClientSecret"}
TLSFields == {"TLS on", "TLS off", "CACerts"}

Fields ==
    [k \in {Kind("storage", "s3", None), Kind("messaging", "sqs", None), Kind("pubsub", "sns", None),
            Kind("email", "ses", None), Kind("secrets", "aws_secrets_manager", None)} |-> AWSFields]
 @@ Kind("storage", "azure_blob", None) :>
        PrincipalFields \cup {"ConnectionString", "AccountKey", "SASToken"}
 @@ Kind("messaging", "azure_bus", None) :>
        PrincipalFields \cup {"ConnectionString", "FullyQualifiedNamespace"}
 @@ Kind("secrets", "azure_keyvault", None) :> PrincipalFields
 @@ Kind("pubsub", "azure_eventgrid", None) :> PrincipalFields \cup {"AccessKey"}
 @@ Kind("email", "azure_acs", None) :> PrincipalFields \cup {"ConnectionString", "Endpoint"}
 @@ Kind("messaging", "gcp_pubsub", None) :>
        {"Project", "Topic", "Subscription", "ServiceAccountFile", "ServiceAccountJSON", "PreferMetadata"}
 @@ Kind("email", "smtp", None) :> {"Host", "mode unknown", "Username", "Password"}
 @@ [k \in {Kind("secrets", p, None) : p \in {"env", "file", "memory", "local"}} |-> {}]
 @@ Kind("cache", "redis", "from_url") :> {"rediss", "CACerts", "Password"}
 @@ Kind("cache", "redis", "from_credentials") :> TLSFields \cup {"Password"}
 @@ [k \in {Kind("cache", "redis", "from_tls_cert")} |->
        {"CertFile", "KeyFile", "CACerts", "Password"}]
 @@ Kind("cache", "elasticache", "from_auth_token") :> TLSFields \cup {"AuthToken"}
 @@ Kind("cache", "elasticache", "from_iam_auth") :>
        TLSFields \cup {"Region", "AWSAccessKeyID", "AWSSecretAccessKey", "ProfileName"}
 @@ Kind("cache", "elasticache", "from_tls_cert") :> {"CertFile", "KeyFile", "CACerts", "AuthToken"}
 @@ Kind("cache", "azure_redis", "from_access_key") :> TLSFields \cup {"AccessKey"}
 @@ Kind("cache", "azure_redis", "from_managed_identity") :> TLSFields
 @@ Kind("cache", "azure_redis", "from_service_principal") :> TLSFields \cup PrincipalFields
 @@ Kind("cache", "memorystore", "from_auth_string") :> TLSFields \cup {"AuthString"}
 @@ Kind("cache", "memorystore", "from_server_ca_cert") :> {"CACerts", "AuthString"}
 @@ Kind("document", "documentdb", None) :>
        {"URI", "as tlsCAFile", "TLSCAFile", "TLSCertKeyFile", "TLS on", "TLS off", "Password"}
 @@ Kind("document", "cosmos", None) :> {"ConnectionString", "AccountKey"}
 @@ Kind("document", "firestore", None) :>
        {"URI", "ConnectionString", "AccessToken", "Password", "userinfo"}

\* A flag has one value; user information and options need a URI to be in.
GivesURI(set) == set \cap {"URI", "ConnectionString"} # {}

Possible(set) ==
    /\ ~({"TLS on", "TLS off"} \subseteq set)
    /\ set \cap {"userinfo", "as tlsCAFile"} # {} => GivesURI(set)

\* Every set of options, one given both values too, tls and ssl side by side.
Queries ==
    SUBSET ([name : {"loadbalanced", "tls", "ssl", "retrywrites"}, value : {"true", "false"}]
            \cup {Option("authmechanism", "SCRAM-SHA-256")})

MCConfigs ==
    UNION {{[kind |-> k, set |-> s, query |-> {}] :
              s \in {f \in SUBSET Fields[k] : Possible(f)}} : k \in DOMAIN Fields}
    \cup {[kind |-> Kind("document", "firestore", None), set |-> s, query |-> q] :
              s \in {f \in SUBSET Fields[Kind("document", "firestore", None)] :
                        Possible(f) /\ GivesURI(f)},
              q \in Queries}
=============================================================================
