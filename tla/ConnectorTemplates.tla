------------------------- MODULE ConnectorTemplates -------------------------
(* The adapters of backend/src/templates/builtins/connectors.rs, egress.rs   *)
(* and ingest.rs, and of marketplace.rs.                                     *)
EXTENDS Templates

Connector == [Template EXCEPT !.dir = "integrations"]
Ingest == [Template EXCEPT !.bridge = "LongRunner", !.ins = {Port("entry", "any")}, !.fn = "run"]

(* Calls of an ingest task to what its output port is wired to.              *)
ToService(port, args) == Call(port, "core.service", "services", OwnName, args, "raw", "panic")
ToWriter(port) == Call(port, "integration.db_writer", "integrations", "execute", 1, "raw", "panic")
ToClient(port) ==
    Call(port, "integration.http_client", "integrations", "send_request", 1, "raw", "panic")
ToBlock(port) == Call(port, "custom.block", "functions", OwnName, 1, "raw", "panic")

KafkaConsumer ==
    [Ingest EXCEPT !.id = "integration.kafka_consumer", !.outs = {Port("message", "string")},
        !.dir = "consumers", !.other = "kafka_consumer", !.crates = {"rdkafka"},
        !.calls = {ToService("message", 1), ToWriter("message"), ToBlock("message")}]

KafkaProducer ==
    [Connector EXCEPT !.id = "integration.kafka_producer",
        !.ins = {Port("payload", "string")}, !.outs = {Port("status", "string")},
        !.other = "kafka_producer", !.fn = "send_message", !.args = 1, !.crates = {"rdkafka"}]

Redis ==
    [Connector EXCEPT !.id = "integration.redis",
        !.ins = {Port("key", "string"), Port("value", "string")},
        !.outs = {Port("result", "string")},
        !.other = "redis_client", !.fn = "execute", !.args = 2, !.crates = {"redis"}]

SqlConnector ==
    [Connector EXCEPT !.id = "integration.sql_connector",
        !.ins = {Port("params", "any")}, !.outs = {Port("result", "string")},
        !.other = "sql_connector", !.fn = "execute", !.args = 1, !.crates = {"sqlx"}]

HttpClient ==
    [Connector EXCEPT !.id = "integration.http_client",
        !.ins = {Port("body", "string")}, !.outs = {Port("response", "string")},
        !.other = "http_client", !.fn = "send_request", !.args = 1, !.crates = {"reqwest"}]

DbWriter ==
    [Connector EXCEPT !.id = "integration.db_writer",
        !.ins = {Port("params", "any")}, !.outs = {Port("result", "string")},
        !.other = "db_writer", !.fn = "execute", !.args = 1,
        !.crates = {"tokio-rusqlite", "rusqlite"}]

Scheduler ==
    [Ingest EXCEPT !.id = "integration.scheduler", !.outs = {Port("tick", "tick")},
        !.dir = "schedulers", !.other = "scheduler", !.crates = {"cron", "chrono"},
        !.calls = {ToService("tick", 0), ToClient("tick"), ToWriter("tick")}]

FileTail ==
    [Ingest EXCEPT !.id = "integration.file_tail", !.outs = {Port("line", "string")},
        !.dir = "consumers", !.other = "file_tail",
        !.calls = {ToService("line", 0), ToClient("line"), ToWriter("line")}]

(* The marketplace's clients: run() connects once and returns a Result; the  *)
(* ports are not used. The file is named by the node's id.                   *)
Marketplace(id, prefix, ins, out, crates) ==
    [Template EXCEPT !.id = id, !.bridge = "LongRunner",
        !.ins = {Port("entry", "any")} \cup {Port(p, "string") : p \in ins},
        !.outs = {Port(out, "string")}, !.dir = "marketplace", !.prefix = prefix,
        !.stem = "id", !.fn = "run", !.result = TRUE, !.crates = crates]

ScyllaDb == Marketplace("marketplace.scylladb", "scylla", {"query"}, "row", {"scylla"})
MongoDb == Marketplace("marketplace.mongodb", "mongo", {"filter"}, "document", {"mongodb"})
Nats == Marketplace("marketplace.nats", "nats", {"publish"}, "subscribe", {"async-nats"})
SurrealDb == Marketplace("marketplace.surrealdb", "surreal", {"query"}, "result", {"surrealdb"})
ClickHouse ==
    Marketplace("marketplace.clickhouse", "clickhouse", {"query"}, "data", {"clickhouse"})
S3 == Marketplace("marketplace.s3", "s3", {"key", "upload_body"}, "downloaded",
                  {"aws-config", "aws-sdk-s3"})
WebRtc == Marketplace("marketplace.webrtc", "webrtc", {"sdp_offer"}, "sdp_answer", {"webrtc"})
RabbitMq == Marketplace("marketplace.rabbitmq", "rabbitmq", {"message"}, "received", {"lapin"})

ConnectorCatalogue ==
    {KafkaConsumer, KafkaProducer, Redis, SqlConnector, HttpClient, DbWriter, Scheduler, FileTail,
     ScyllaDb, MongoDb, Nats, SurrealDb, ClickHouse, S3, WebRtc, RabbitMq}
=============================================================================
