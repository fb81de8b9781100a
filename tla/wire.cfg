SPECIFICATION Spec
CONSTANTS
    WsMessages <- MCWsMessages
    ChunkMessages <- MCChunkMessages
    CoapMessages <- MCCoapMessages
    MqttMessages <- MCMqttMessages
    DnsMessages <- MCDnsMessages
    Junk = {0, 255}
    NameSize = 16
INVARIANTS
    
    
    
    MqttWhole
    CoapWhole
    DnsWhole
CHECK_DEADLOCK FALSE
