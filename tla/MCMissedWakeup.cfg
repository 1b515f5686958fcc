SPECIFICATION Spec
CONSTANTS
    rx_task = rx_task
    tx_task = tx_task
    so_rcv = so_rcv
    so_snd = so_snd
    Listening = Listening
    Tasks = {rx_task, tx_task}
    Priority <- MCPriority
    Events <- MCEvents
    GLOBWAKE_SZ = 2
    MaxAvail = 1
    tk_netmain = tk_netmain
    tk_nettick = tk_nettick
    None = None
INVARIANTS NobodyMissed
