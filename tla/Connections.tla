---------------------------- MODULE Connections ----------------------------
(***************************************************************************)
(* The constructors and factories of every package: which identity a       *)
(* backend authenticates as, whether the connection is encrypted and for   *)
(* which host it is verified, given the Config fields that are set. A      *)
(* field is a member of cfg or not; of its value only what the code looks  *)
(* at is kept ("TLS on", "rediss", "mode tls"). Values are well formed and *)
(* files are readable; otherwise a constructor returns an error.           *)
(***************************************************************************)
EXTENDS Naturals, Sequences, FiniteSets

None == "none"

\* What a constructor returns: the identity and the Config field it is taken from.
Conn(id, uses) == [id |-> id, uses |-> uses]
Error == Conn("error", None)

First(fields, cfg, else) ==
    IF \E i \in DOMAIN fields : fields[i] \in cfg
    THEN LET i == CHOOSE k \in DOMAIN fields :
                    fields[k] \in cfg /\ \A j \in 1..(k - 1) : fields[j] \notin cfg
         IN  Conn("explicit", fields[i])
    ELSE else

-----------------------------------------------------------------------------
(* AWS. LoadDefaultConfig without an option is the ambient identity.       *)

AWSCredential_KeyOnly(cfg) == First(<<"AWSAccessKeyID">>, cfg, Conn("ambient", None))

AWSCredential(cfg) ==
    First(<<"AWSAccessKeyID", "ProfileName">>, cfg, Conn("ambient", None))

\* The role is assumed as whatever the rest of cfg selects.
AssumeRole(cfg, conn) ==
    IF "RoleARN" \in cfg THEN [conn EXCEPT !.id = "role"] ELSE conn

NewS3(cfg)                == AssumeRole(cfg, AWSCredential(cfg))
NewSQS(cfg)               == AssumeRole(cfg, AWSCredential(cfg))
NewSNS(cfg)               == AWSCredential(cfg)
NewSES(cfg)               == AWSCredential(cfg)
NewAWSSecretsManager(cfg) == AWSCredential(cfg)

-----------------------------------------------------------------------------
(* Azure. NewClientSecretCredential refuses an empty tenant or secret.     *)

Chain == Conn("chain", None)

ServicePrincipal(cfg) ==
    IF {"TenantID", "ClientSecret"} \subseteq cfg
    THEN Conn("explicit", "ClientSecret") ELSE Error

AzureIdentity(cfg, else) ==
    IF "ClientSecret" \in cfg THEN ServicePrincipal(cfg) ELSE else

NewAzureBlob(cfg) ==
    First(<<"ConnectionString", "AccountKey", "SASToken">>, cfg, AzureIdentity(cfg, Chain))

NewAzureServiceBus(cfg) ==
    First(<<"ConnectionString">>, cfg,
          IF "FullyQualifiedNamespace" \in cfg THEN AzureIdentity(cfg, Chain) ELSE Error)

NewAzureKeyVault(cfg) == AzureIdentity(cfg, Chain)

NewAzureEventGrid(cfg) == First(<<"AccessKey">>, cfg, AzureIdentity(cfg, Chain))

\* Alone of the Azure backends, ACS has a managed identity without the chain.
NewAzureACS(cfg) ==
    First(<<"ConnectionString">>, cfg,
          IF "Endpoint" \in cfg
          THEN AzureIdentity(cfg, Conn("managed identity", None)) ELSE Error)

-----------------------------------------------------------------------------
(* Google Pub/Sub, SMTP.                                                   *)

GCPClientOptions(cfg) ==
    IF \/ {"ServiceAccountFile", "ServiceAccountJSON"} \subseteq cfg
       \/ "PreferMetadata" \in cfg /\ cfg \cap {"ServiceAccountFile", "ServiceAccountJSON"} # {}
    THEN Error
    ELSE First(<<"ServiceAccountJSON", "ServiceAccountFile">>, cfg,
               IF "PreferMetadata" \in cfg
               THEN Conn("metadata", None) ELSE Conn("ambient", None))

NewGCPPubSub(cfg) ==
    IF "Project" \in cfg /\ cfg \cap {"Topic", "Subscription"} # {}
    THEN GCPClientOptions(cfg) ELSE Error

\* Send authenticates when there is a user name, whatever the password is.
NewSMTP(cfg) ==
    IF "Host" \in cfg /\ "mode unknown" \notin cfg
    THEN First(<<"Username">>, cfg, Conn("nobody", None)) ELSE Error

-----------------------------------------------------------------------------
(* Redis. "name" is the host the certificate is verified for; a plain      *)
(* connection has none.                                                    *)

Plain(conn) == [id |-> conn.id, uses |-> conn.uses, tls |-> FALSE, ca |-> FALSE, name |-> None]

\* The client certificate needs both files.
BuildTLSConfig(conn, host, cfg, cert) ==
    IF cert /\ Cardinality(cfg \cap {"CertFile", "KeyFile"}) = 1
    THEN Plain(Error)
    ELSE [id |-> IF cert /\ "CertFile" \in cfg THEN "certificate" ELSE conn.id,
          uses |-> conn.uses, tls |-> TRUE, ca |-> "CACerts" \in cfg, name |-> host]

TLSOrDefault_On(cfg, default) == default

TLSOrDefault(cfg, default) ==
    IF "TLS on" \in cfg THEN TRUE ELSE IF "TLS off" \in cfg THEN FALSE ELSE default

Redis(cfg, default, conn) ==
    IF TLSOrDefault(cfg, default)
    THEN BuildTLSConfig(conn, "host", cfg, FALSE)
    ELSE Plain(conn)

Given(field, cfg) == First(<<field>>, cfg, Conn("nobody", None))

\* With CACerts a redis:// URL is encrypted too, but verified for host:port.
NewStandaloneFromURL(cfg) ==
    IF "CACerts" \in cfg
    THEN BuildTLSConfig(Given("Password", cfg),
                        IF "rediss" \in cfg THEN "host" ELSE "host:port", cfg, FALSE)
    ELSE IF "rediss" \in cfg
    THEN BuildTLSConfig(Given("Password", cfg), "host", cfg, FALSE)
    ELSE Plain(Given("Password", cfg))

NewStandaloneFromCredentials(cfg) == Redis(cfg, FALSE, Given("Password", cfg))

NewStandaloneFromTLSCert(cfg) == BuildTLSConfig(Given("Password", cfg), "host", cfg, TRUE)

NewElastiCacheFromAuthToken(cfg) == Redis(cfg, TRUE, Given("AuthToken", cfg))

\* A token signed by AWSCredential for each connection go-redis dials.
NewElastiCacheFromIAMAuth(cfg) ==
    IF "Region" \in cfg THEN Redis(cfg, TRUE, AWSCredential(cfg)) ELSE Plain(Error)

NewElastiCacheFromTLSCert(cfg) == BuildTLSConfig(Given("AuthToken", cfg), "host", cfg, TRUE)

NewAzureRedisFromAccessKey(cfg) == Redis(cfg, TRUE, Given("AccessKey", cfg))

NewAzureRedisWithEntra(cfg, cred) ==
    IF cred = Error THEN Plain(Error) ELSE Redis(cfg, TRUE, cred)

NewAzureRedisFromManagedIdentity(cfg) == NewAzureRedisWithEntra(cfg, Chain)

NewAzureRedisFromServicePrincipal(cfg) ==
    NewAzureRedisWithEntra(cfg, ServicePrincipal(cfg))

NewMemorystoreFromAuthString(cfg) == Redis(cfg, FALSE, Given("AuthString", cfg))

NewMemorystoreFromServerCACert(cfg) ==
    IF "CACerts" \in cfg
    THEN BuildTLSConfig(Given("AuthString", cfg), "host", cfg, FALSE) ELSE Plain(Error)

-----------------------------------------------------------------------------
(* The document databases return a MongoDB URI: the options the caller's   *)
(* own URI has (query, names in lower case) and those added to it. A       *)
(* password or token in the URI is the field "userinfo".                   *)

Option(name, value) == [name |-> name, value |-> value]

Names(options) == {o.name : o \in options}

URI(conn, given, added) ==
    [id |-> conn.id, uses |-> conn.uses, given |-> given, added |-> added]

FirestoreRequired ==
    <<Option("loadbalanced", "true"), Option("tls", "true"), Option("retrywrites", "false")>>

OIDC == Option("authmechanism", "MONGODB-OIDC")

Present_NotSSL(required, query) == required.name \in Names(query)

\* An option is looked for by its name alone, whatever the URI sets it to; ssl counts as tls.
Present(required, query) ==
    \/ required.name \in Names(query)
    \/ required.name = "tls" /\ "ssl" \in Names(query)

EnsureFirestoreParams(cfg, query) ==
    SelectSeq(FirestoreRequired, LAMBDA required : ~Present(required, query))
    \o (IF "authmechanism" \in Names(query) \/ "userinfo" \in cfg THEN <<>> ELSE <<OIDC>>)

FirestoreURI(cfg, query) ==
    LET given == First(<<"URI", "ConnectionString">>, cfg, Error)
    IN  IF given # Error
        THEN URI(given, query, EnsureFirestoreParams(cfg, query))
        ELSE CASE "AccessToken" \in cfg ->
                    URI(Conn("explicit", "AccessToken"), {},
                        Append(FirestoreRequired, Option("authmechanism", "PLAIN")))
               [] "AccessToken" \notin cfg /\ "Password" \in cfg ->
                    URI(Conn("explicit", "Password"), {},
                        Append(FirestoreRequired, Option("authmechanism", "SCRAM-SHA-256")))
               [] OTHER -> URI(Conn("oidc", None), {}, Append(FirestoreRequired, OIDC))

CosmosURI(cfg, query) ==
    IF "ConnectionString" \in cfg
    THEN URI(Conn("explicit", "ConnectionString"), query, <<>>)
    ELSE URI(Given("AccountKey", cfg), {},
             <<Option("ssl", "true"), Option("replicaset", "globaldb"),
               Option("retrywrites", "false"), Option("maxidletimems", "120000"),
               Option("appname", "name")>>)

\* The CA file is looked for in the URI as "tlsCAFile=", in no other spelling.
DocumentDBURI(cfg, query) ==
    LET ca == IF "TLSCAFile" \in cfg THEN <<Option("tlscafile", "file")>> ELSE <<>>
        tls == Option("tls", "true")
    IN  IF "URI" \in cfg
        THEN URI(Conn("explicit", "URI"), query, IF "as tlsCAFile" \in cfg THEN <<>> ELSE ca)
        ELSE URI(Given("Password", cfg), {},
                 ca \o (IF "TLSCertKeyFile" \in cfg
                        THEN <<tls, Option("tlscertificatekeyfile", "file")>>
                        ELSE IF TLSOrDefault(cfg, TRUE) THEN <<tls>> ELSE <<>>))

-----------------------------------------------------------------------------
(* The factories; an unknown name is an error.                             *)

StorageNew(provider, cfg) ==
    CASE provider = "s3" -> NewS3(cfg)
      [] provider = "azure_blob" -> NewAzureBlob(cfg)

MessagingNew(provider, cfg) ==
    CASE provider = "sqs" -> NewSQS(cfg)
      [] provider = "azure_bus" -> NewAzureServiceBus(cfg)
      [] provider = "gcp_pubsub" -> NewGCPPubSub(cfg)

SecretsNew(provider, cfg) ==
    CASE provider = "aws_secrets_manager" -> NewAWSSecretsManager(cfg)
      [] provider = "azure_keyvault" -> NewAzureKeyVault(cfg)
      [] provider \in {"env", "file", "memory", "local"} -> Conn("nobody", None)

EmailNew(provider, cfg) ==
    CASE provider = "ses" -> NewSES(cfg)
      [] provider = "azure_acs" -> NewAzureACS(cfg)
      [] provider = "smtp" -> NewSMTP(cfg)

PubSubNew(provider, cfg) ==
    CASE provider = "sns" -> NewSNS(cfg)
      [] provider = "azure_eventgrid" -> NewAzureEventGrid(cfg)

CacheNew(provider, method, cfg) ==
    CASE <<provider, method>> = <<"redis", "from_url">> -> NewStandaloneFromURL(cfg)
      [] <<provider, method>> = <<"redis", "from_credentials">> -> NewStandaloneFromCredentials(cfg)
      [] <<provider, method>> = <<"redis", "from_tls_cert">> -> NewStandaloneFromTLSCert(cfg)
      [] <<provider, method>> = <<"elasticache", "from_auth_token">> -> NewElastiCacheFromAuthToken(cfg)
      [] <<provider, method>> = <<"elasticache", "from_iam_auth">> -> NewElastiCacheFromIAMAuth(cfg)
      [] <<provider, method>> = <<"elasticache", "from_tls_cert">> -> NewElastiCacheFromTLSCert(cfg)
      [] <<provider, method>> = <<"azure_redis", "from_access_key">> -> NewAzureRedisFromAccessKey(cfg)
      [] <<provider, method>> = <<"azure_redis", "from_managed_identity">> ->
            NewAzureRedisFromManagedIdentity(cfg)
      [] <<provider, method>> = <<"azure_redis", "from_service_principal">> ->
            NewAzureRedisFromServicePrincipal(cfg)
      [] <<provider, method>> = <<"memorystore", "from_auth_string">> -> NewMemorystoreFromAuthString(cfg)
      [] <<provider, method>> = <<"memorystore", "from_server_ca_cert">> ->
            NewMemorystoreFromServerCACert(cfg)
      [] OTHER -> Plain(Error)

DocumentNew(provider, cfg, query) ==
    CASE provider = "documentdb" -> DocumentDBURI(cfg, query)
      [] provider = "cosmos" -> CosmosURI(cfg, query)
      [] provider = "firestore" -> FirestoreURI(cfg, query)
=============================================================================
